------------------------- MODULE Conversation_proofs -------------------------
(***************************************************************************)
(* Proofs about Conversation, for any number of consumers in any roles,    *)
(* any number of senders, any of which may quit, any materializer and any  *)
(* outcome of the dispatch:                                                *)
(*   TerminalLast              at most one terminal, and nothing after it; *)
(*   SendersAreSound           live_senders counts, a cancellation bites;  *)
(*   DrainedIsTheEnd           drained means empty, and for good;          *)
(*   SuccessHasTheWholeAnswer  what a materializer that succeeds received; *)
(*   NoLostWake                a pending future is registered or woken.    *)
(* IInv is the invariant they all start from; each part adds to it.        *)
(* Then about Routes, for any finite tree of paths, any file systems to    *)
(* begin with, any texts and any largest integer:                          *)
(*   RoutesDoAgree             what one route writes the others read.      *)
(* Its invariant is RoutesInv.                                             *)
(***************************************************************************)
EXTENDS Conversation, Routes, Lists_proofs, FiniteSetTheorems, SequenceTheorems, TLAPS

NoTerminalSent == \A i \in DOMAIN sent : IsContent(sent[i])

(* The discipline of terminal_sent: a sender about to push holds it, with  *)
(* the flag down if it pushes content; it pushes a terminal only when it   *)
(* raised the flag itself and no terminal has been pushed.                 *)
LeaseDiscipline ==
  /\ \A s \in Sender : spc[s] \in {"pushing", "closing"} =>
       /\ termLock = s
       /\ sending[s] \in Terminals => termSent /\ NoTerminalSent
       /\ sending[s] \notin Terminals => ~termSent
  /\ \A s \in Sender : spc[s] \in {"checked", "pushing", "closing"} => sending[s] \in Statuses
  /\ ~termSent => NoTerminalSent

IInv == TypeOK /\ LeaseDiscipline /\ TerminalIsLast

----------------------------------------------------------------------------
(* The invariant holds initially. *)
LEMMA InitIInv == Init => IInv
<1> SUFFICES ASSUME Init PROVE IInv
  OBVIOUS
<1> USE DEF Init
<1>1. TypeOK
  <2>1. /\ sent \in Seq(Frame) /\ queue \in Seq(Frame)
        /\ got \in [Consumer -> Seq(Frame)]
    OBVIOUS
  <2>2. /\ pc \in [Consumer -> ConsumerPlaces] /\ woken \in [Consumer -> BOOLEAN]
        /\ spc \in [Sender -> SenderPlaces] /\ sending \in [Sender -> Statuses \cup {None}]
    BY DEF ConsumerPlaces, SenderPlaces
  <2>3. /\ generated \in BOOLEAN /\ drained \in BOOLEAN /\ token \in BOOLEAN
        /\ cancelled \in BOOLEAN /\ termSent \in BOOLEAN
    OBVIOUS
  <2>4. /\ lock \in Consumer \cup {Free} /\ termLock \in Consumer \cup Sender \cup {Free}
        /\ live \in Int /\ terminal \in Terminals \cup {None} /\ waiters \subseteq Consumer
    OBVIOUS
  <2>5. QED
    BY <2>1, <2>2, <2>3, <2>4 DEF TypeOK
<1>2. LeaseDiscipline /\ TerminalIsLast
  BY DEF LeaseDiscipline, TerminalIsLast, NoTerminalSent
<1>3. QED
  BY <1>1, <1>2 DEF IInv

(* Steps that leave the lease, the senders and the enqueued frames alone   *)
(* only have to keep the types.                                            *)
LEMMA OtherStepsKeepDiscipline ==
  ASSUME IInv, TypeOK', UNCHANGED <<termLock, termSent, sent, spc, sending>>
  PROVE  IInv'
BY DEF IInv, LeaseDiscipline, TerminalIsLast, NoTerminalSent

(* A step of a consumer inside the state mutex keeps the types. *)
LEMMA TakeFrameKeepsTypes ==
  ASSUME TypeOK, NEW c \in Consumer, NEW again \in ConsumerPlaces, TakeFrame(c, again),
         UNCHANGED <<termLock, cancelled, termSent, senderVars>>,
         lock' \in Consumer \cup {Free}, live' \in Int
  PROVE  TypeOK'
<1> USE DEF TypeOK, TakeFrame, senderVars
<1>1. Head(queue) \in Frame /\ queue' \in Seq(Frame)
  OBVIOUS
<1>2. CASE IsContent(Head(queue))
  <2>1. /\ got' = [got EXCEPT ![c] = Append(@, Head(queue))]
        /\ pc' = [pc EXCEPT ![c] = again]
        /\ UNCHANGED <<drained, terminal, token, generated, waiters, sent, woken>>
    BY <1>2
  <2>2. got' \in [Consumer -> Seq(Frame)]
    BY <1>1, <2>1
  <2>3. QED
    BY <1>1, <2>1, <2>2
<1>3. CASE ~IsContent(Head(queue))
  BY <1>1, <1>3 DEF IsContent, Record, Return, Frame, ConsumerPlaces
<1>4. QED
  BY <1>2, <1>3

LEMMA BodyKeepsTypes ==
  ASSUME TypeOK, NEW c \in Consumer, Body(c),
         UNCHANGED <<termLock, cancelled, termSent, senderVars>>,
         lock' \in Consumer \cup {Free}, live' \in Int
  PROVE  TypeOK' /\ UNCHANGED sent
<1>1. "recv" \in ConsumerPlaces /\ "poll" \in ConsumerPlaces
  BY DEF ConsumerPlaces
<1>2. CASE RecvBody(c)
  <2>1. CASE TakeFrame(c, "recv")
    BY <1>1, <2>1, TakeFrameKeepsTypes DEF TakeFrame
  <2>2. CASE ~TakeFrame(c, "recv")
    BY <1>2, <2>2 DEF RecvBody, Return, TypeOK, streamVars, senderVars, ConsumerPlaces
  <2>3. QED
    BY <2>1, <2>2
<1>3. CASE ReadyBody(c)
  <2>1. CASE TakeFrame(c, "poll")
    BY <1>1, <2>1, TakeFrameKeepsTypes DEF TakeFrame
  <2>2. CASE ~TakeFrame(c, "poll")
    BY <1>3, <2>2 DEF ReadyBody, TypeOK, streamVars, senderVars, ConsumerPlaces
  <2>3. QED
    BY <2>1, <2>2
<1>4. CASE FiniBody(c)
  <2> USE DEF FiniBody, Record, Return, TypeOK, senderVars
  <2>1. queue' \in Seq(Frame) /\ terminal' \in Terminals
    <3>1. CASE queue' = <<>> /\ terminal' = "Done"
      BY <3>1 DEF Terminals
    <3>2. ASSUME NEW i \in DOMAIN queue, ~IsContent(queue[i]),
                 queue' = SubSeq(queue, i + 1, Len(queue)), terminal' = queue[i].status
          PROVE  queue' \in Seq(Frame) /\ terminal' \in Terminals
      BY <3>2 DEF IsContent
    <3>3. QED
      BY <1>4, <3>1, <3>2
  <2>2. /\ pc' = [pc EXCEPT ![c] = "idle"] /\ drained' = TRUE /\ token' = FALSE
        /\ UNCHANGED <<generated, waiters, sent, got, woken>>
    BY <1>4
  <2>3. QED
    BY <2>1, <2>2 DEF ConsumerPlaces
<1>5. QED
  BY <1>2, <1>3, <1>4 DEF Body

(* The sender's steps before it holds terminal_sent. *)
LEMMA SenderOutsideKeepsIInv ==
  ASSUME IInv, NEW s \in Sender, SendChecks(s) \/ CloneSender(s) \/ DropSender(s)
  PROVE  IInv'
<1> USE DEF IInv, streamVars, consumerVars
<1>1. CASE SendChecks(s)
  <2>1. /\ spc[s] = "idle" /\ spc' = [spc EXCEPT ![s] = "checked"]
        /\ \E status \in Statuses : sending' = [sending EXCEPT ![s] = status]
        /\ UNCHANGED <<lock, termLock, streamVars, leaseVars, consumerVars>>
    BY <1>1 DEF SendChecks, TerminalStatus, Statuses, Terminals
  <2>2. TypeOK'
    BY <2>1 DEF TypeOK, SenderPlaces, leaseVars
  <2>3. LeaseDiscipline' /\ TerminalIsLast'
    BY <2>1 DEF TypeOK, LeaseDiscipline, TerminalIsLast, NoTerminalSent, leaseVars
  <2>4. QED
    BY <2>2, <2>3
<1>2. CASE CloneSender(s)
  BY <1>2 DEF CloneSender, TypeOK, LeaseDiscipline, TerminalIsLast, NoTerminalSent,
              SenderPlaces
<1>3. CASE DropSender(s)
  BY <1>3 DEF DropSender, TypeOK, LeaseDiscipline, TerminalIsLast, NoTerminalSent,
              SenderPlaces
<1>4. QED
  BY <1>1, <1>2, <1>3

(* Taking terminal_sent: nobody else is about to push. *)
LEMMA SenderLocksKeepsIInv ==
  ASSUME IInv, NEW s \in Sender, SendLocks(s) \/ DropLocks(s)
  PROVE  IInv'
<1> USE DEF IInv, TypeOK, streamVars, consumerVars, SenderPlaces
<1>1. \A u \in Sender : spc[u] \notin {"pushing", "closing"}
  BY DistinctAssumption DEF SendLocks, DropLocks, LeaseDiscipline
<1>2. CASE SendLocks(s)
  <2>1. TypeOK'
    <3>1. termSent' \in BOOLEAN
      BY <1>2 DEF SendLocks, SentAfter
    <3>2. /\ spc' \in [Sender -> SenderPlaces] /\ sending' \in [Sender -> Statuses \cup {None}]
          /\ termLock' \in Consumer \cup Sender \cup {Free}
      BY <1>2 DEF SendLocks, SentAfter
    <3>3. UNCHANGED <<lock, streamVars, cancelled, live, consumerVars, left>>
      BY <1>2 DEF SendLocks, SentAfter
    <3>4. QED
      BY <3>1, <3>2, <3>3
  <2>2. sending[s] \in Statuses
    BY <1>2 DEF SendLocks, SentAfter, LeaseDiscipline
  <2>3. TerminalIsLast' /\ (NoTerminalSent' <=> NoTerminalSent)
    BY <1>2 DEF SendLocks, SentAfter, TerminalIsLast, NoTerminalSent
  <2>4. CASE termSent
    BY <1>1, <1>2, <2>3, <2>4 DEF SendLocks, SentAfter, LeaseDiscipline
  <2>5. CASE ~termSent
    <3>1. NoTerminalSent /\ spc' = [spc EXCEPT ![s] = "pushing"] /\ termLock' = s
          /\ (termSent' <=> sending[s] \in Terminals) /\ sending' = sending
      BY <1>2, <2>5 DEF SendLocks, SentAfter, LeaseDiscipline
    <3>2. LeaseDiscipline'
      BY <1>1, <2>2, <2>3, <3>1 DEF LeaseDiscipline
    <3>3. QED
      BY <2>1, <2>3, <3>2
  <2>6. QED
    BY <2>1, <2>3, <2>4, <2>5
<1>3. CASE DropLocks(s)
  <2>1. TypeOK'
    BY <1>3 DEF DropLocks, ClosingStatus, Statuses, Terminals
  <2>2. LeaseDiscipline' /\ TerminalIsLast'
    BY <1>1, <1>3 DEF DropLocks, ClosingStatus, LeaseDiscipline, TerminalIsLast, NoTerminalSent,
                      Statuses, Terminals
  <2>3. QED
    BY <2>1, <2>2
<1>4. QED
  BY <1>2, <1>3

(* Pushing: content finds no terminal before it, a terminal is the first.  *)
LEMMA PushKeepsIInv ==
  ASSUME IInv, NEW s \in Sender, Push(s)
  PROVE  IInv'
<1> USE DEF IInv
<1>1. PICK f : /\ f \in Frame /\ f.status = sending[s]
               /\ queue' = Append(queue, f) /\ sent' = Append(sent, f)
  <2>1. PICK data \in (IF sending[s] = "Item" THEN Payloads[s] ELSE {Nihil}) :
          LET g == [status |-> sending[s], data |-> data, by |-> s, late |-> cancelled]
          IN  queue' = Append(queue, g) /\ sent' = Append(sent, g)
    BY DEF Push
  <2>2. data \in Payload
    BY <2>1 DEF Payload
  <2>3. sending[s] \in Statuses /\ cancelled \in BOOLEAN
    BY DEF Push, LeaseDiscipline, TypeOK
  <2> QED
    BY <2>1, <2>2, <2>3 DEF Frame
<1>2. /\ spc[s] \in {"pushing", "closing"} /\ termLock = s /\ termLock' = Free
      /\ UNCHANGED <<lock, generated, drained, terminal, token, leaseVars, got>>
      /\ \E after \in {"gone", "idle", "spent"} : spc' = [spc EXCEPT ![s] = after]
      /\ sending' = [sending EXCEPT ![s] = None]
  BY DEF Push, LeaseDiscipline
<1>3. NoTerminalSent
  BY <1>2 DEF LeaseDiscipline
<1>4. sent \in Seq(Frame) /\ queue \in Seq(Frame)
  BY DEF TypeOK
<1>5. /\ sent' \in Seq(Frame) /\ queue' \in Seq(Frame)
      /\ Len(sent') = Len(sent) + 1 /\ sent'[Len(sent')] = f
      /\ \A i \in 1..Len(sent) : sent'[i] = sent[i]
  BY <1>1, <1>4
<1>6. TypeOK'
  <2>1. /\ pc' \in [Consumer -> ConsumerPlaces] /\ woken' \in [Consumer -> BOOLEAN]
        /\ waiters' = {}
    BY DEF Push, WakeAll, TypeOK, ConsumerPlaces
  <2>2. QED
    BY <1>2, <1>5, <2>1 DEF TypeOK, leaseVars, SenderPlaces
<1>7. TerminalIsLast'
  BY <1>3, <1>4, <1>5 DEF TerminalIsLast, NoTerminalSent
<1>8. LeaseDiscipline'
  <2>1. \A u \in Sender : u # s => spc'[u] = spc[u] /\ sending'[u] = sending[u]
                                  /\ spc[u] \notin {"pushing", "closing"}
    BY <1>2 DEF LeaseDiscipline, TypeOK
  <2>2. spc'[s] \notin {"checked", "pushing", "closing"}
    BY <1>2 DEF TypeOK
  <2>3. ~termSent' => NoTerminalSent'
    <3> SUFFICES ASSUME ~termSent PROVE NoTerminalSent'
      BY <1>2 DEF leaseVars
    <3>1. IsContent(f)
      BY <1>1, <1>2 DEF LeaseDiscipline, IsContent
    <3>2. QED
      BY <1>3, <1>4, <1>5, <3>1 DEF NoTerminalSent
  <2>4. QED
    BY <2>1, <2>2, <2>3 DEF LeaseDiscipline
<1>9. QED
  BY <1>6, <1>7, <1>8

(* Starting the dispatch, and a starter whose own handle is the last one:  *)
(* terminal_sent is free, so nobody is about to push.                      *)
LEMMA StartKeepsIInv ==
  ASSUME IInv, NEW c \in Consumer, Start(c)
  PROVE  IInv'
<1> USE DEF IInv, TypeOK, LeaseDiscipline, TerminalIsLast, NoTerminalSent, SenderPlaces,
            ConsumerPlaces
<1>1. CASE live' = 2 /\ UNCHANGED <<termLock, termSent>>
           /\ spc' = [spc EXCEPT ![First] = "idle"] /\ pc' = [pc EXCEPT ![c] = "starting"]
  BY <1>1, SenderAssumption DEF Start
<1>2. CASE live' = 1 /\ termLock = Free /\ termLock' = c /\ termSent' = TRUE
           /\ pc' = [pc EXCEPT ![c] = "refused"] /\ UNCHANGED spc
  BY <1>2, DistinctAssumption DEF Start
<1>3. QED
  BY <1>1, <1>2 DEF Start

LEMMA FinishStartKeepsIInv ==
  ASSUME IInv, NEW c \in Consumer, FinishStart(c)
  PROVE  IInv'
<1> USE DEF IInv
<1>1. live' \in Int /\ UNCHANGED <<cancelled, kind, calls, senderVars>>
  BY DEF FinishStart, TypeOK
<1>2. CASE /\ termLock = Free /\ termLock' = c /\ termSent' = TRUE
           /\ pc' = [pc EXCEPT ![c] = "blocked"]
           /\ UNCHANGED <<lock, streamVars, got, outcome, woken>>
  BY <1>1, <1>2, DistinctAssumption DEF TypeOK, LeaseDiscipline, TerminalIsLast,
     NoTerminalSent, ConsumerPlaces, streamVars, senderVars
<1>3. CASE lock' = Free /\ Body(c) /\ UNCHANGED <<termLock, termSent>>
  <2>1. TypeOK' /\ UNCHANGED sent
    BY <1>1, <1>3, BodyKeepsTypes
  <2>2. QED
    BY <1>1, <1>3, <2>1, OtherStepsKeepDiscipline DEF senderVars
<1>4. CASE /\ lock' = Free /\ pc' = [pc EXCEPT ![c] = Entry(c)]
           /\ UNCHANGED <<streamVars, got, outcome, woken, termLock, termSent>>
  <2>1. TypeOK'
    BY <1>1, <1>4 DEF TypeOK, Entry, ConsumerPlaces, streamVars, senderVars
  <2>2. QED
    BY <1>1, <1>4, <2>1, OtherStepsKeepDiscipline DEF senderVars, streamVars
<1>5. QED
  BY <1>2, <1>3, <1>4 DEF FinishStart

(* Every other step of a consumer, and the host's cancellation. *)
LEMMA ConsumerKeepsIInv ==
  ASSUME IInv, NEW c \in Consumer,
         \/ Call(c) \/ Receive(c) \/ Accipe(c) \/ Poll(c) \/ PollRegisters(c)
         \/ PollRetries(c) \/ Repoll(c) \/ DropFuture(c)
  PROVE  IInv'
<1> USE DEF IInv
<1>1. "idle" \in ConsumerPlaces /\ "poll" \in ConsumerPlaces
  BY DEF ConsumerPlaces
<1>2. CASE Call(c)
  <2>1. TypeOK'
    BY <1>2 DEF Call, Entry, TypeOK, streamVars, leaseVars, senderVars, ConsumerPlaces
  <2>2. QED
    BY <1>2, <2>1, OtherStepsKeepDiscipline DEF Call, streamVars, leaseVars, senderVars
<1>3. CASE Receive(c)
  <2>1. TypeOK' /\ UNCHANGED sent
    <3>1. CASE Body(c)
      BY <1>3, <3>1, BodyKeepsTypes DEF Receive, leaseVars, TypeOK
    <3>2. CASE ~Body(c)
      BY <1>3, <3>2 DEF Receive, Return, TypeOK, streamVars, leaseVars, senderVars,
                        ConsumerPlaces
    <3>3. QED
      BY <3>1, <3>2
  <2>2. QED
    BY <1>3, <2>1, OtherStepsKeepDiscipline DEF Receive, leaseVars, senderVars
<1>4. CASE Accipe(c)
  <2>1. TypeOK' /\ UNCHANGED sent
    <3>1. CASE TakeFrame(c, "idle")
      BY <1>1, <1>4, <3>1, TakeFrameKeepsTypes DEF Accipe, leaseVars, TypeOK, TakeFrame
    <3>2. CASE ~TakeFrame(c, "idle")
      BY <1>4, <3>2 DEF Accipe, Return, TypeOK, streamVars, leaseVars, senderVars,
                        ConsumerPlaces
    <3>3. QED
      BY <3>1, <3>2
  <2>2. QED
    BY <1>4, <2>1, OtherStepsKeepDiscipline DEF Accipe, leaseVars, senderVars
<1>5. CASE Poll(c) \/ PollRetries(c)
  <2>1. TypeOK' /\ UNCHANGED sent
    <3>1. CASE TakeFrame(c, "poll")
      BY <1>1, <1>5, <3>1, TakeFrameKeepsTypes DEF Poll, PollRetries, leaseVars, TypeOK,
                                                   TakeFrame
    <3>2. CASE ~TakeFrame(c, "poll")
      BY <1>5, <3>2 DEF Poll, PollRetries, ReadyBody, TypeOK, streamVars, leaseVars,
                        senderVars, ConsumerPlaces
    <3>3. QED
      BY <3>1, <3>2
  <2>2. QED
    BY <1>5, <2>1, OtherStepsKeepDiscipline DEF Poll, PollRetries, leaseVars, senderVars
<1>6. CASE PollRegisters(c)
  <2>1. TypeOK'
    BY <1>6 DEF PollRegisters, Return, TypeOK, leaseVars, senderVars, ConsumerPlaces
  <2>2. QED
    BY <1>6, <2>1, OtherStepsKeepDiscipline DEF PollRegisters, leaseVars, senderVars
<1>7. CASE Repoll(c)
  <2>1. TypeOK'
    BY <1>7 DEF Repoll, TypeOK, streamVars, leaseVars, senderVars, ConsumerPlaces
  <2>2. QED
    BY <1>7, <2>1, OtherStepsKeepDiscipline DEF Repoll, streamVars, leaseVars, senderVars
<1>8. CASE DropFuture(c)
  <2>1. TypeOK'
    <3>1. /\ pc' \in [Consumer -> ConsumerPlaces] /\ woken' \in [Consumer -> BOOLEAN]
          /\ waiters' \subseteq Consumer /\ token' \in BOOLEAN /\ cancelled' \in BOOLEAN
      <4> DEFINE abandoned == [pc EXCEPT ![c] = "idle"]
      <4>1. abandoned \in [Consumer -> ConsumerPlaces]
        BY DEF TypeOK, ConsumerPlaces
      <4>2. CASE token
        <5>1. token' = FALSE /\ cancelled' = TRUE /\ WakeAll(abandoned)
          BY <1>8, <4>2 DEF DropFuture
        <5> HIDE DEF abandoned
        <5>2. QED
          BY <4>1, <5>1 DEF WakeAll, TypeOK, ConsumerPlaces
      <4>3. CASE ~token
        BY <1>8, <4>1, <4>3 DEF DropFuture, TypeOK
      <4>4. QED
        BY <4>2, <4>3
    <3>2. UNCHANGED <<lock, termLock, generated, queue, drained, terminal, sent, termSent,
                      live, got, spc, sending>>
      BY <1>8 DEF DropFuture, senderVars
    <3>3. QED
      BY <3>1, <3>2 DEF TypeOK
  <2>2. QED
    BY <1>8, <2>1, OtherStepsKeepDiscipline DEF DropFuture, senderVars
<1>9. QED
  BY <1>2, <1>3, <1>4, <1>5, <1>6, <1>7, <1>8

LEMMA CancelKeepsIInv ==
  ASSUME IInv, HostCancels \/ UNCHANGED vars
  PROVE  IInv'
<1> USE DEF streamVars, leaseVars, consumerVars, senderVars
<1>1. TypeOK'
  BY DEF HostCancels, vars, IInv, TypeOK
<1>2. UNCHANGED <<termLock, termSent, sent, spc, sending>>
  BY DEF HostCancels, vars
<1>3. QED
  BY <1>1, <1>2, OtherStepsKeepDiscipline

(* IInv is an invariant of the specification. *)
THEOREM IInvInvariant == Spec => []IInv
<1>1. IInv /\ [Next]_vars => IInv'
  <2> SUFFICES ASSUME IInv, [Next]_vars PROVE IInv'
    OBVIOUS
  <2>1. ASSUME NEW s \in Sender, SenderStep(s) \/ CloneSender(s)
        PROVE  IInv'
    BY <2>1, SenderOutsideKeepsIInv, SenderLocksKeepsIInv, PushKeepsIInv DEF SenderStep
  <2>2. ASSUME NEW c \in Consumer, ConsumerStep(c) \/ Call(c) \/ DropFuture(c)
        PROVE  IInv'
    BY <2>2, StartKeepsIInv, FinishStartKeepsIInv, ConsumerKeepsIInv DEF ConsumerStep
  <2>3. QED
    BY <2>1, <2>2, CancelKeepsIInv DEF Next, OptionalStep
<1>2. QED
  BY <1>1, InitIInv, PTL DEF Spec

(* Type correctness of the conversation. *)
THEOREM TypeCorrect == Spec => []TypeOK
BY IInvInvariant, PTL DEF IInv

(* One terminal frame, and nothing after it: whatever the producers, their *)
(* clones and their drops do, and whoever consumes.                        *)
THEOREM TerminalLast == Spec => []TerminalIsLast
BY IInvInvariant, PTL DEF IInv

----------------------------------------------------------------------------
(***************************************************************************)
(* The handles.                                                            *)
(***************************************************************************)
Handles == {s \in Sender : spc[s] \in {"idle", "checked", "pushing", "spent"}}
Starters == {c \in Consumer : pc[c] \in {"starting", "refused"}}

(* live_senders counts the handles of the producers and of a starter, and  *)
(* there are none before the dispatch is started.                          *)
Counted ==
  /\ IsFiniteSet(Handles) /\ IsFiniteSet(Starters)
  /\ live = Cardinality(Handles) + Cardinality(Starters)
  /\ ~generated => Handles = {} /\ Starters = {}

LEMMA SameCount ==
  ASSUME Counted, Handles' = Handles, Starters' = Starters,
         live' = live, generated' = generated
  PROVE  Counted'
BY DEF Counted

(* One handle more, one handle less. *)
LEMMA OneMore ==
  ASSUME NEW S, IsFiniteSet(S), NEW x, x \notin S
  PROVE  /\ IsFiniteSet(S \cup {x})
         /\ Cardinality(S \cup {x}) = Cardinality(S) + 1
         /\ Cardinality(S) \in Nat
BY FS_AddElement, FS_CardinalityType

LEMMA OneLess ==
  ASSUME NEW S, IsFiniteSet(S), NEW x \in S
  PROVE  /\ IsFiniteSet(S \ {x})
         /\ Cardinality(S \ {x}) = Cardinality(S) - 1
         /\ Cardinality(S) \in Nat
BY FS_RemoveElement, FS_CardinalityType

(* What a sender does. *)
LEMMA SenderCounts ==
  ASSUME TypeOK, Counted, NEW s \in Sender, SenderStep(s) \/ CloneSender(s)
  PROVE  Counted'
<1> USE DEF TypeOK
<1>1. CASE SendChecks(s) \/ SendLocks(s) \/ DropLocks(s)
  <2>1. /\ Handles' = Handles
    BY <1>1 DEF SendChecks, SendLocks, DropLocks, Handles
  <2>2. /\ UNCHANGED <<pc, live, generated>>
    BY <1>1 DEF SendChecks, SendLocks, DropLocks, streamVars, leaseVars, consumerVars
  <2>3. QED
    BY <2>1, <2>2, SameCount DEF Starters
<1>2. CASE Push(s)
  <2>1. Handles' = Handles
    BY <1>2 DEF Push, Handles
  <2>2. Starters' = Starters
    BY <1>2 DEF Push, WakeAll, Starters
  <2>3. UNCHANGED <<live, generated>>
    BY <1>2 DEF Push, leaseVars
  <2>4. QED
    BY <2>1, <2>2, <2>3, SameCount
<1>3. CASE CloneSender(s)
  <2>1. PICK n \in Sender : spc[n] = "unborn" /\ spc' = [spc EXCEPT ![n] = "idle"]
    BY <1>3 DEF CloneSender
  <2>2. n \notin Handles /\ Handles' = Handles \cup {n} /\ s \in Handles
    BY <1>3, <2>1 DEF Handles, CloneSender
  <2>3. live' = live + 1 /\ Starters' = Starters /\ generated' = generated
    BY <1>3 DEF CloneSender, consumerVars, streamVars, Starters
  <2>4. /\ IsFiniteSet(Handles') /\ Cardinality(Handles') = Cardinality(Handles) + 1
        /\ Cardinality(Handles) \in Nat /\ Cardinality(Starters) \in Nat
    BY <2>2, OneMore, FS_CardinalityType DEF Counted
  <2>5. generated'
    BY <2>2, <2>3 DEF Counted
  <2>6. live' = Cardinality(Handles') + Cardinality(Starters')
    BY <2>3, <2>4 DEF Counted
  <2>7. QED
    BY <2>3, <2>4, <2>5, <2>6 DEF Counted
<1>4. CASE DropSender(s)
  <2>1. s \in Handles /\ Handles' = Handles \ {s}
    BY <1>4 DEF Handles, DropSender
  <2>2. live' = live - 1 /\ Starters' = Starters /\ generated' = generated
    BY <1>4 DEF DropSender, consumerVars, streamVars, Starters
  <2>3. /\ IsFiniteSet(Handles') /\ Cardinality(Handles') = Cardinality(Handles) - 1
        /\ Cardinality(Handles) \in Nat /\ Cardinality(Starters) \in Nat
    BY <2>1, OneLess, FS_CardinalityType DEF Counted
  <2>4. QED
    BY <2>1, <2>2, <2>3 DEF Counted
<1>5. QED
  BY <1>1, <1>2, <1>3, <1>4 DEF SenderStep

(* The places a receive leaves a consumer at are none of a starter. *)
LEMMA BodyLeaves ==
  ASSUME TypeOK, NEW c \in Consumer, Body(c)
  PROVE  /\ \E place \in {"idle", "recv", "waiting", "poll", "polled"} :
              pc' = [pc EXCEPT ![c] = place]
         /\ UNCHANGED <<generated, sent, waiters, woken>>
<1>1. CASE RecvBody(c)
  BY <1>1 DEF RecvBody, TakeFrame, Return, streamVars
<1>2. CASE ReadyBody(c)
  BY <1>2 DEF ReadyBody, TakeFrame, Return, streamVars
<1>3. CASE FiniBody(c)
  BY <1>3 DEF FiniBody, Return
<1>4. QED
  BY <1>1, <1>2, <1>3 DEF Body

(* Starting gives two handles, or one, which the starter drops again. *)
LEMMA StartCounts ==
  ASSUME TypeOK, Counted, NEW c \in Consumer, Start(c)
  PROVE  Counted'
<1> USE DEF TypeOK
<1>1. ~generated /\ generated' /\ Handles = {} /\ Starters = {}
  BY DEF Start, MustStart, Counted
<1>2. /\ IsFiniteSet({c}) /\ Cardinality({c}) = 1
      /\ IsFiniteSet({First}) /\ Cardinality({First}) = 1
      /\ IsFiniteSet({}) /\ Cardinality({}) = 0
  BY FS_Singleton, FS_EmptySet
<1>3. CASE live' = 2 /\ spc' = [spc EXCEPT ![First] = "idle"]
           /\ pc' = [pc EXCEPT ![c] = "starting"]
  <2>1. Handles' = {First} /\ Starters' = {c}
    BY <1>1, <1>3, SenderAssumption DEF Handles, Starters
  <2>2. QED
    BY <1>1, <1>2, <1>3, <2>1 DEF Counted
<1>4. CASE live' = 1 /\ spc' = spc /\ pc' = [pc EXCEPT ![c] = "refused"]
  <2>1. Handles' = {} /\ Starters' = {c}
    BY <1>1, <1>4 DEF Handles, Starters
  <2>2. QED
    BY <1>1, <1>2, <1>4, <2>1 DEF Counted
<1>5. QED
  BY <1>3, <1>4 DEF Start

LEMMA FinishStartCounts ==
  ASSUME TypeOK, Counted, NEW c \in Consumer, FinishStart(c)
  PROVE  Counted'
<1> USE DEF TypeOK
<1>1. c \in Starters /\ live' = live - 1 /\ UNCHANGED spc
  BY DEF FinishStart, Starters, senderVars
<1>2. PICK place \in ConsumerPlaces \ {"starting", "refused"} :
        pc' = [pc EXCEPT ![c] = place]
  <2>1. CASE Body(c)
    BY <2>1, BodyLeaves DEF ConsumerPlaces
  <2>2. CASE ~Body(c)
    BY <2>2 DEF FinishStart, ConsumerPlaces, Entry
  <2>3. QED
    BY <2>1, <2>2
<1>3. generated' = generated
  BY BodyLeaves DEF FinishStart, streamVars
<1>4. Starters' = Starters \ {c} /\ Handles' = Handles
  BY <1>1, <1>2 DEF Starters, Handles
<1>5. /\ IsFiniteSet(Starters') /\ Cardinality(Starters') = Cardinality(Starters) - 1
      /\ Cardinality(Handles) \in Nat /\ Cardinality(Starters) \in Nat
  BY <1>1, <1>4, OneLess, FS_CardinalityType DEF Counted
<1>6. QED
  BY <1>1, <1>3, <1>4, <1>5 DEF Counted

(* No other step of a consumer makes or drops a handle. *)
LEMMA ConsumerCounts ==
  ASSUME TypeOK, Counted, NEW c \in Consumer,
         \/ Call(c) \/ Receive(c) \/ Accipe(c) \/ Poll(c) \/ PollRegisters(c)
         \/ PollRetries(c) \/ Repoll(c) \/ DropFuture(c)
  PROVE  Counted'
<1>1. UNCHANGED <<spc, live>>
  BY DEF Call, Receive, Accipe, Poll, PollRegisters, PollRetries, Repoll, DropFuture,
         leaseVars, senderVars
<1>2. pc[c] \notin {"starting", "refused"}
  BY DEF Call, Receive, Accipe, Poll, PollRegisters, PollRetries, Repoll, DropFuture
<1>3. /\ pc' \in [Consumer -> ConsumerPlaces]
      /\ \A d \in Consumer : pc'[d] \in {"starting", "refused"} <=>
                             pc[d] \in {"starting", "refused"}
      /\ generated' = generated
  <2> USE <1>2 DEF TypeOK
  <2>1. CASE \/ \E place \in ConsumerPlaces \ {"starting", "refused"} :
                  pc' = [pc EXCEPT ![c] = place]
    <3>1. generated' = generated
      BY BodyLeaves DEF Call, Receive, Accipe, Poll, PollRegisters, PollRetries, Repoll,
             DropFuture, ReadyBody, TakeFrame, Return, streamVars
    <3>2. QED
      BY <2>1, <3>1
  <2>2. CASE Body(c)
    BY <2>1, <2>2, BodyLeaves DEF ConsumerPlaces
  <2>3. CASE Call(c) \/ Repoll(c)
    BY <2>1, <2>3 DEF Call, Repoll, Entry, ConsumerPlaces
  <2>4. CASE (Receive(c) /\ ~Body(c)) \/ Accipe(c) \/ PollRegisters(c)
    BY <2>1, <2>4 DEF Receive, Accipe, PollRegisters, TakeFrame, Return, ConsumerPlaces
  <2>5. CASE Poll(c) \/ PollRetries(c)
    BY <2>1, <2>5 DEF Poll, PollRetries, ReadyBody, TakeFrame, Return, ConsumerPlaces
  <2>6. CASE DropFuture(c)
    <3> DEFINE abandoned == [pc EXCEPT ![c] = "idle"]
    <3>1. /\ abandoned \in [Consumer -> ConsumerPlaces]
          /\ \A d \in Consumer : abandoned[d] \in {"starting", "refused"} <=>
                                 pc[d] \in {"starting", "refused"}
      BY DEF ConsumerPlaces
    <3>2. generated' = generated
      BY <2>6 DEF DropFuture
    <3>3. CASE pc' = abandoned
      BY <3>1, <3>2, <3>3
    <3>4. CASE WakeAll(abandoned)
      <4> HIDE DEF abandoned
      <4>1. pc' = [d \in Consumer |-> IF abandoned[d] = "waiting" THEN "recv"
                                      ELSE abandoned[d]]
        BY <3>4 DEF WakeAll
      <4>2. QED
        BY <3>1, <3>2, <4>1 DEF ConsumerPlaces
    <3>5. QED
      BY <2>6, <3>3, <3>4 DEF DropFuture
  <2>7. QED
    BY <2>2, <2>3, <2>4, <2>5, <2>6
<1>4. Starters' = Starters /\ Handles' = Handles
  BY <1>1, <1>3 DEF Starters, Handles
<1>5. QED
  BY <1>1, <1>3, <1>4, SameCount

----------------------------------------------------------------------------
(***************************************************************************)
(* The cancellation.                                                       *)
(***************************************************************************)

(* The frames of a sender that a cancellation came too late for. *)
Late(s) ==
  {i \in DOMAIN sent : /\ sent[i].by = s /\ sent[i].late
                       /\ sent[i].status \in {"Item", "Done"}}

(* There is one at most, and none while the sender has another on its way  *)
(* or nothing was cancelled.                                               *)
Bounded ==
  /\ \A s \in Sender : \A i, j \in Late(s) : i = j
  /\ \A s \in Sender : sending[s] \in {"Item", "Done"} => Late(s) = {}
  /\ ~cancelled => \A s \in Sender : Late(s) = {}

LEMMA SameBound ==
  ASSUME Bounded, sent' = sent, cancelled => cancelled',
         \A s \in Sender : sending'[s] \in {"Item", "Done"} => Late(s) = {}
  PROVE  Bounded'
<1>1. \A s \in Sender : Late(s)' = Late(s)
  BY DEF Late
<1>2. QED
  BY <1>1 DEF Bounded

(* What a sender has on its way passed its check before the cancellation.  *)
LEMMA SenderBounded ==
  ASSUME TypeOK, LeaseDiscipline, Bounded, NEW s \in Sender,
         SendChecks(s) \/ SendLocks(s) \/ DropSender(s) \/ DropLocks(s) \/ CloneSender(s)
  PROVE  Bounded'
<1> USE DEF TypeOK
<1>1. UNCHANGED <<sent, cancelled>>
  BY DEF SendChecks, SendLocks, DropSender, DropLocks, CloneSender, streamVars, leaseVars
<1>2. ASSUME NEW u \in Sender, sending'[u] \in {"Item", "Done"}
      PROVE  Late(u) = {}
  <2>1. CASE sending'[u] = sending[u]
    BY <1>2, <2>1 DEF Bounded
  <2>2. CASE sending'[u] # sending[u]
    <3>1. CASE SendChecks(s)
      <4>1. u = s
        BY <2>2, <3>1 DEF SendChecks
      <4>2. ~cancelled
        BY <1>2, <3>1, <4>1 DEF SendChecks, TerminalStatus, Terminals
      <4>3. QED
        BY <4>2 DEF Bounded
    <3>2. CASE ~SendChecks(s)
      <4>1. sending'[u] \in {None, "Cancel", "Error"}
        BY <2>2, <3>2 DEF SendLocks, DropSender, DropLocks, CloneSender, ClosingStatus
      <4>2. QED
        BY <1>2, <4>1, DistinctAssumption
    <3>3. QED
      BY <3>1, <3>2
  <2>3. QED
    BY <2>1, <2>2
<1>3. QED
  BY <1>1, <1>2, SameBound

LEMMA PushBounded ==
  ASSUME TypeOK, LeaseDiscipline, Bounded, NEW s \in Sender, Push(s)
  PROVE  Bounded'
<1>1. PICK f : /\ f.status = sending[s] /\ f.by = s /\ f.late = cancelled
               /\ sent' = Append(sent, f)
  BY DEF Push
<1>2. /\ sent \in Seq(Frame) /\ cancelled \in BOOLEAN
      /\ sending' = [sending EXCEPT ![s] = None] /\ cancelled' = cancelled
      /\ sending \in [Sender -> Statuses \cup {None}]
  BY DEF Push, TypeOK, leaseVars
<1>3. /\ Len(sent) \in Nat /\ DOMAIN sent = 1..Len(sent)
      /\ DOMAIN sent' = 1..(Len(sent) + 1) /\ sent'[Len(sent) + 1] = f
      /\ \A i \in 1..Len(sent) : sent'[i] = sent[i]
  BY <1>1, <1>2
<1>4. ASSUME NEW u \in Sender
      PROVE  Late(u)' = Late(u) \cup (IF u = s /\ cancelled /\ sending[s] \in {"Item", "Done"}
                                      THEN {Len(sent) + 1} ELSE {})
  BY <1>1, <1>2, <1>3 DEF Late
<1>5. ASSUME NEW u \in Sender
      PROVE  \A i, j \in Late(u)' : i = j
  <2>1. CASE u = s /\ sending[s] \in {"Item", "Done"}
    <3>1. Late(u) = {}
      BY <2>1 DEF Bounded
    <3>2. QED
      BY <1>4, <3>1
  <2>2. CASE ~(u = s /\ sending[s] \in {"Item", "Done"})
    <3>1. Late(u)' = Late(u)
      BY <1>4, <2>2
    <3>2. QED
      BY <3>1 DEF Bounded
  <2>3. QED
    BY <2>1, <2>2
<1>6. ASSUME NEW u \in Sender, sending'[u] \in {"Item", "Done"}
      PROVE  Late(u)' = {}
  <2>1. u # s /\ sending[u] \in {"Item", "Done"}
    BY <1>2, <1>6, DistinctAssumption
  <2>2. QED
    BY <1>4, <2>1 DEF Bounded
<1>7. ASSUME ~cancelled, NEW u \in Sender
      PROVE  Late(u)' = {}
  BY <1>4, <1>7 DEF Bounded
<1>8. QED
  BY <1>2, <1>5, <1>6, <1>7 DEF Bounded

(* A consumer sends nothing, and no cancellation is taken back. *)
LEMMA OthersBounded ==
  ASSUME TypeOK, Bounded,
         \/ HostCancels \/ UNCHANGED vars
         \/ \E c \in Consumer :
              \/ Start(c) \/ FinishStart(c) \/ Call(c) \/ Receive(c) \/ Accipe(c)
              \/ Poll(c) \/ PollRegisters(c) \/ PollRetries(c) \/ Repoll(c) \/ DropFuture(c)
  PROVE  Bounded'
<1> USE DEF streamVars, leaseVars, senderVars
<1>1. CASE HostCancels \/ UNCHANGED vars
  <2>1. sent' = sent /\ (cancelled => cancelled') /\ sending' = sending
    BY <1>1 DEF HostCancels, vars
  <2>2. QED
    BY <2>1, SameBound DEF Bounded
<1>2. ASSUME NEW c \in Consumer,
             \/ Start(c) \/ FinishStart(c) \/ Call(c) \/ Receive(c) \/ Accipe(c)
             \/ Poll(c) \/ PollRegisters(c) \/ PollRetries(c) \/ Repoll(c) \/ DropFuture(c)
      PROVE  Bounded'
  <2>1. sending' = sending /\ (cancelled => cancelled')
    BY <1>2 DEF Start, FinishStart, Call, Receive, Accipe, Poll, PollRegisters,
                PollRetries, Repoll, DropFuture
  <2>2. sent' = sent
    BY <1>2, BodyLeaves DEF Start, FinishStart, Call, Receive, Accipe, Poll, ReadyBody,
       PollRegisters, PollRetries, Repoll, DropFuture, TakeFrame
  <2>3. QED
    BY <2>1, <2>2, SameBound DEF Bounded
<1>3. QED
  BY <1>1, <1>2

(* Sender handles keep their contract under races: ResponseLease's count   *)
(* is the number of live handles, and a cancellation lets at most one more *)
(* frame of each through.                                                  *)
THEOREM SendersAreSound == Spec => []SendersSound
<1>1. Init => Counted /\ Bounded
  <2> SUFFICES ASSUME Init PROVE Counted /\ Bounded
    OBVIOUS
  <2>1. Handles = {} /\ Starters = {} /\ live = 0
    BY DEF Init, Handles, Starters
  <2>2. Counted
    BY <2>1, FS_EmptySet DEF Counted
  <2>3. Bounded
    BY DEF Init, Bounded, Late
  <2>4. QED
    BY <2>2, <2>3
<1>2. IInv /\ Counted /\ Bounded /\ [Next]_vars => (Counted /\ Bounded)'
  <2> SUFFICES ASSUME IInv, Counted, Bounded, [Next]_vars PROVE Counted' /\ Bounded'
    OBVIOUS
  <2>1. TypeOK /\ LeaseDiscipline
    BY DEF IInv
  <2>2. ASSUME NEW s \in Sender, SenderStep(s) \/ CloneSender(s)
        PROVE  Counted' /\ Bounded'
    BY <2>1, <2>2, SenderCounts, SenderBounded, PushBounded DEF SenderStep
  <2>3. ASSUME NEW c \in Consumer, ConsumerStep(c) \/ Call(c) \/ DropFuture(c)
        PROVE  Counted' /\ Bounded'
    BY <2>1, <2>3, StartCounts, FinishStartCounts, ConsumerCounts, OthersBounded
    DEF ConsumerStep
  <2>4. CASE HostCancels \/ UNCHANGED vars
    <3>1. UNCHANGED <<spc, pc, live, generated>>
      BY <2>4 DEF HostCancels, vars, streamVars, leaseVars, consumerVars, senderVars
    <3>2. Counted'
      BY <3>1, SameCount DEF Handles, Starters
    <3>3. QED
      BY <2>1, <2>4, <3>2, OthersBounded
  <2>5. QED
    BY <2>2, <2>3, <2>4 DEF Next, OptionalStep
<1>3. Counted => LiveIsCounted
  BY DEF Counted, LiveIsCounted, Handles, Starters
<1>4. Bounded => CancellationBites
  <2> SUFFICES ASSUME Bounded, NEW s \in Sender
               PROVE  Cardinality(Late(s)) <= 1
    BY DEF CancellationBites, Late
  <2>1. CASE Late(s) = {}
    BY <2>1, FS_EmptySet
  <2>2. CASE Late(s) # {}
    <3> DEFINE late == Late(s)
    <3>1. PICK i : late = {i}
      BY <2>2 DEF Bounded
    <3> HIDE DEF late
    <3>2. Cardinality({i}) = 1
      BY ONLY FS_Singleton
    <3>3. Cardinality(late) <= 1
      BY ONLY <3>1, <3>2
    <3>4. QED
      BY <3>3 DEF late
  <2>3. QED
    BY <2>1, <2>2
<1>5. Counted /\ Bounded => SendersSound
  BY <1>3, <1>4 DEF SendersSound
<1>6. QED
  BY <1>1, <1>2, <1>5, IInvInvariant, PTL DEF Spec

----------------------------------------------------------------------------
(***************************************************************************)
(* The end of the stream.                                                  *)
(***************************************************************************)

(* What is queued is the end of what was sent. *)
Queued ==
  /\ Len(queue) <= Len(sent)
  /\ \A i \in 1..Len(queue) : queue[i] = sent[Len(sent) - Len(queue) + i]

Drains ==
  /\ Queued /\ DrainedIsFinal
  /\ drained => terminal \in Terminals

LEMMA SameStream ==
  ASSUME Drains, UNCHANGED <<role, sent, queue, drained, terminal>>, termSent => termSent'
  PROVE  Drains'
BY DEF Drains, Queued, DrainedIsFinal

(* A terminal at the head of the queue is the last frame there is. *)
LEMMA HeadIsLast ==
  ASSUME TypeOK, TerminalIsLast, Queued, queue # <<>>, ~IsContent(Head(queue))
  PROVE  /\ Tail(queue) = <<>> /\ Len(queue) = 1
         /\ sent # <<>> /\ Last(sent) = Head(queue)
<1>1. /\ queue \in Seq(Frame) /\ sent \in Seq(Frame)
      /\ Len(queue) \in Nat /\ Len(sent) \in Nat /\ Len(queue) # 0
      /\ Head(queue) = queue[1]
  BY DEF TypeOK
<1> DEFINE n == Len(sent) - Len(queue) + 1
<1>2. n \in 1..Len(sent) /\ sent[n] = Head(queue)
  BY <1>1 DEF Queued
<1>3. n = Len(sent)
  BY <1>1, <1>2 DEF TerminalIsLast
<1>4. Len(queue) = 1
  <2>1. ASSUME NEW q \in Nat, NEW s \in Nat, s - q + 1 = s PROVE q = 1
    BY <2>1
  <2>2. QED
    BY <1>1, <1>3, <2>1
<1>5. Tail(queue) = <<>>
  <2>1. Tail(queue) \in Seq(Frame) /\ Len(Tail(queue)) = 0
    BY <1>1, <1>4
  <2>2. ASSUME NEW q \in Seq(Frame), Len(q) = 0 PROVE q = <<>>
    BY <2>2
  <2>3. QED
    BY <2>1, <2>2
<1>6. sent # <<>> /\ Last(sent) = Head(queue)
  BY <1>1, <1>2, <1>3 DEF Last
<1>7. QED
  BY <1>4, <1>5, <1>6

(* What is left when a frame is taken is still the end of what was sent. *)
LEMMA TailQueued ==
  ASSUME TypeOK, Queued, queue # <<>>, queue' = Tail(queue), sent' = sent
  PROVE  Queued'
<1>1. /\ queue \in Seq(Frame) /\ sent \in Seq(Frame)
      /\ Len(queue) \in Nat /\ Len(sent) \in Nat /\ Len(queue) # 0
  BY DEF TypeOK
<1>2. Len(queue') = Len(queue) - 1 /\ \A i \in 1..Len(queue') : queue'[i] = queue[i + 1]
  BY <1>1
<1>3. ASSUME NEW i \in 1..Len(queue')
      PROVE  queue'[i] = sent'[Len(sent') - Len(queue') + i]
  <2>1. i + 1 \in 1..Len(queue)
    BY <1>1, <1>2
  <2>2. Len(sent) - Len(queue) + (i + 1) = Len(sent') - Len(queue') + i
    BY <1>1, <1>2
  <2>3. QED
    BY <1>2, <2>1, <2>2 DEF Queued
<1>4. QED
  BY <1>1, <1>2, <1>3 DEF Queued

(* The consumer that takes the terminal takes the last frame. *)
LEMMA TakeFrameDrains ==
  ASSUME IInv, Drains, NEW c \in Consumer, NEW again, TakeFrame(c, again),
         UNCHANGED <<role, termSent>>
  PROVE  Drains'
<1>1. /\ queue # <<>> /\ queue' = Tail(queue) /\ sent' = sent
  BY DEF TakeFrame
<1>2. Queued'
  BY <1>1, TailQueued DEF IInv, Drains
<1>3. DrainedIsFinal'
  <2>1. CASE IsContent(Head(queue))
    <3>1. UNCHANGED <<drained, terminal>>
      BY <2>1 DEF TakeFrame
    <3>2. QED
      BY <1>1, <3>1 DEF Drains, DrainedIsFinal
  <2>2. CASE ~IsContent(Head(queue))
    <3>1. /\ queue' = <<>> /\ sent # <<>> /\ Last(sent) = Head(queue)
          /\ ~IsContent(Last(sent))
      BY <1>1, <2>2, HeadIsLast DEF IInv, Drains
    <3>2. terminal' = Head(queue).status
      BY <2>2 DEF TakeFrame, Record
    <3>3. termSent
      <4>1. sent \in Seq(Frame) /\ Len(sent) \in DOMAIN sent
        BY <3>1 DEF IInv, TypeOK
      <4>2. QED
        BY <3>1, <4>1 DEF IInv, LeaseDiscipline, NoTerminalSent, Last
    <3>4. QED
      BY <1>1, <3>1, <3>2, <3>3 DEF DrainedIsFinal
  <2>3. QED
    BY <2>1, <2>2
<1>4. drained' => terminal' \in Terminals
  BY DEF TakeFrame, Record, IsContent, Drains
<1>5. QED
  BY <1>2, <1>3, <1>4 DEF Drains

(* tuus_fini drains the stream early: the promise is not about it. *)
LEMMA BodyDrains ==
  ASSUME IInv, Drains, NEW c \in Consumer, Body(c), UNCHANGED <<role, termSent>>
  PROVE  Drains'
<1>1. CASE RecvBody(c)
  <2>1. CASE TakeFrame(c, "recv")
    BY <2>1, TakeFrameDrains
  <2>2. CASE ~TakeFrame(c, "recv")
    BY <1>1, <2>2, SameStream DEF RecvBody, streamVars
  <2>3. QED
    BY <2>1, <2>2
<1>2. CASE ReadyBody(c)
  <2>1. CASE TakeFrame(c, "poll")
    BY <2>1, TakeFrameDrains
  <2>2. CASE ~TakeFrame(c, "poll")
    BY <1>2, <2>2, SameStream DEF ReadyBody, streamVars
  <2>3. QED
    BY <2>1, <2>2
<1>3. CASE role[c] = "fini" /\ FiniBody(c)
  <2>1. DrainedIsFinal'
    BY <1>3 DEF DrainedIsFinal
  <2>2. sent' = sent
    BY <1>3 DEF FiniBody
  <2>3. Queued'
    <3>1. CASE queue' = <<>>
      <4>1. Len(queue') = 0 /\ Len(sent') \in Nat
        BY <2>2, <3>1 DEF IInv, TypeOK
      <4>2. QED
        BY <4>1 DEF Queued
    <3>2. ASSUME NEW i \in DOMAIN queue, queue' = SubSeq(queue, i + 1, Len(queue))
          PROVE  Queued'
      <4>1. /\ queue \in Seq(Frame) /\ sent \in Seq(Frame) /\ i \in 1..Len(queue)
            /\ Len(queue) \in Nat /\ Len(sent) \in Nat
        BY DEF IInv, TypeOK
      <4>2. /\ Len(queue') = Len(queue) - i
            /\ \A j \in 1..Len(queue') : queue'[j] = queue[i + j]
        BY <3>2, <4>1
      <4>3. ASSUME NEW j \in 1..Len(queue')
            PROVE  queue'[j] = sent'[Len(sent') - Len(queue') + j]
        <5>1. i + j \in 1..Len(queue)
          BY <4>1, <4>2
        <5>2. Len(sent) - Len(queue) + (i + j) = Len(sent') - Len(queue') + j
          BY <2>2, <4>1, <4>2
        <5>3. QED
          BY <2>2, <4>2, <5>1, <5>2 DEF Drains, Queued
      <4>4. Len(queue') <= Len(sent')
        BY <2>2, <4>1, <4>2 DEF Drains, Queued
      <4>5. QED
        BY <4>3, <4>4 DEF Queued
    <3>3. QED
      BY <1>3, <3>1, <3>2 DEF FiniBody
  <2>4. terminal' \in Terminals
    BY <1>3 DEF FiniBody, Record, IsContent, Terminals
  <2>5. QED
    BY <2>1, <2>3, <2>4 DEF Drains
<1>4. QED
  BY <1>1, <1>2, <1>3 DEF Body

(* Nothing is pushed once the terminal was: the stream was not drained. *)
LEMMA PushDrains ==
  ASSUME IInv, Drains, NEW s \in Sender, Push(s), role' = role
  PROVE  Drains'
<1>1. PICK f : queue' = Append(queue, f) /\ sent' = Append(sent, f)
  BY DEF Push
<1>2. /\ queue \in Seq(Frame) /\ sent \in Seq(Frame)
      /\ Len(queue) \in Nat /\ Len(sent) \in Nat
  BY DEF IInv, TypeOK
<1>3. /\ Len(queue') = Len(queue) + 1 /\ Len(sent') = Len(sent) + 1
      /\ queue'[Len(queue) + 1] = f /\ sent'[Len(sent) + 1] = f
      /\ \A i \in 1..Len(queue) : queue'[i] = queue[i]
      /\ \A i \in 1..Len(sent) : sent'[i] = sent[i]
  BY <1>1, <1>2
<1>4. ASSUME NEW i \in 1..Len(queue')
      PROVE  queue'[i] = sent'[Len(sent') - Len(queue') + i]
  <2>1. CASE i = Len(queue) + 1
    <3>1. Len(sent') - Len(queue') + i = Len(sent) + 1
      BY <1>2, <1>3, <2>1
    <3>2. QED
      BY <1>3, <2>1, <3>1
  <2>2. CASE i # Len(queue) + 1
    <3>1. i \in 1..Len(queue)
      BY <1>2, <1>3, <2>2
    <3>2. /\ Len(sent') - Len(queue') + i = Len(sent) - Len(queue) + i
          /\ Len(sent) - Len(queue) + i \in 1..Len(sent)
      BY <1>2, <1>3, <3>1 DEF Drains, Queued
    <3>3. QED
      BY <1>3, <3>1, <3>2 DEF Drains, Queued
  <2>3. QED
    BY <2>1, <2>2
<1>5. Queued'
  BY <1>2, <1>3, <1>4 DEF Drains, Queued
<1>6. DrainedIsFinal'
  <2> SUFFICES ASSUME drained, \A c \in Consumer : role[c] # "fini" PROVE FALSE
    BY DEF Push, DrainedIsFinal
  <2>1. termSent /\ sent # <<>> /\ ~IsContent(Last(sent))
    BY DEF Drains, DrainedIsFinal, IsContent
  <2>2. NoTerminalSent
    BY <2>1 DEF Push, IInv, LeaseDiscipline
  <2>3. Len(sent) \in DOMAIN sent
    BY <1>2, <2>1
  <2>4. QED
    BY <2>1, <2>2, <2>3 DEF NoTerminalSent, Last
<1>7. QED
  BY <1>5, <1>6 DEF Push, Drains

(* Every other step leaves the stream alone. *)
LEMMA StepDrains ==
  ASSUME IInv, Drains, [Next]_vars
  PROVE  Drains'
<1> USE DEF streamVars, leaseVars, consumerVars, senderVars
<1>1. ASSUME NEW s \in Sender, SenderStep(s) \/ (CloneSender(s) /\ role' = role)
      PROVE  Drains'
  <2>1. CASE Push(s)
    BY <1>1, <2>1, PushDrains DEF SenderStep, Push
  <2>2. CASE ~Push(s)
    <3>1. UNCHANGED <<role, sent, queue, drained, terminal>>
      BY <1>1, <2>2 DEF SenderStep, SendChecks, SendLocks, DropSender, DropLocks, CloneSender
    <3>2. termSent => termSent'
      BY <1>1, <2>2 DEF SenderStep, SendChecks, SendLocks, SentAfter, DropSender,
                        DropLocks, CloneSender
    <3>3. QED
      BY <3>1, <3>2, SameStream
  <2>3. QED
    BY <2>1, <2>2
<1>2. ASSUME NEW c \in Consumer,
             ConsumerStep(c) \/ ((Call(c) \/ DropFuture(c)) /\ role' = role)
      PROVE  Drains'
  <2>1. role' = role
    BY <1>2 DEF ConsumerStep
  <2>2. CASE Start(c)
    <3>1. UNCHANGED <<sent, queue, drained, terminal>> /\ (termSent => termSent')
      BY <2>2 DEF Start
    <3>2. QED
      BY <2>1, <3>1, SameStream
  <2>3. CASE FinishStart(c)
    <3>1. CASE Body(c) /\ UNCHANGED termSent
      BY <2>1, <3>1, BodyDrains
    <3>2. CASE ~(Body(c) /\ UNCHANGED termSent)
      <4>1. UNCHANGED <<sent, queue, drained, terminal>> /\ (termSent => termSent')
        BY <2>3, <3>2 DEF FinishStart
      <4>2. QED
        BY <2>1, <4>1, SameStream
    <3>3. QED
      BY <3>1, <3>2
  <2>4. CASE Receive(c) \/ Poll(c)
    <3>1. UNCHANGED termSent
      BY <2>4 DEF Receive, Poll
    <3>2. CASE Body(c)
      BY <2>1, <3>1, <3>2, BodyDrains
    <3>3. CASE TakeFrame(c, "poll")
      BY <2>1, <3>1, <3>3, TakeFrameDrains
    <3>4. CASE ~Body(c) /\ ~TakeFrame(c, "poll")
      <4>1. UNCHANGED <<sent, queue, drained, terminal>>
        BY <2>4, <3>4 DEF Receive, Poll, ReadyBody
      <4>2. QED
        BY <2>1, <3>1, <4>1, SameStream
    <3>5. QED
      BY <3>2, <3>3, <3>4
  <2>5. CASE Accipe(c) \/ PollRetries(c)
    <3>1. UNCHANGED termSent
      BY <2>5 DEF Accipe, PollRetries
    <3>2. CASE TakeFrame(c, "idle") \/ TakeFrame(c, "poll")
      BY <2>1, <3>1, <3>2, TakeFrameDrains
    <3>3. CASE ~(TakeFrame(c, "idle") \/ TakeFrame(c, "poll"))
      <4>1. UNCHANGED <<sent, queue, drained, terminal>>
        BY <2>5, <3>3 DEF Accipe, PollRetries
      <4>2. QED
        BY <2>1, <3>1, <4>1, SameStream
    <3>4. QED
      BY <3>2, <3>3
  <2>6. CASE PollRegisters(c) \/ Repoll(c) \/ Call(c) \/ DropFuture(c)
    <3>1. UNCHANGED <<sent, queue, drained, terminal, termSent>>
      BY <2>6 DEF PollRegisters, Repoll, Call, DropFuture
    <3>2. QED
      BY <2>1, <3>1, SameStream
  <2>7. QED
    BY <1>2, <2>2, <2>3, <2>4, <2>5, <2>6 DEF ConsumerStep
<1>3. CASE (HostCancels /\ role' = role) \/ UNCHANGED vars
  <2>1. UNCHANGED <<role, sent, queue, drained, terminal, termSent>>
    BY <1>3 DEF HostCancels, vars
  <2>2. QED
    BY <2>1, SameStream
<1>4. QED
  BY <1>1, <1>2, <1>3 DEF Next, OptionalStep

LEMMA AlwaysDrains == Spec => []Drains
<1>1. Init => Drains
  BY DEF Init, Drains, Queued, DrainedIsFinal
<1>2. IInv /\ Drains /\ [Next]_vars => Drains'
  BY StepDrains
<1>3. QED
  BY <1>1, <1>2, IInvInvariant, PTL DEF Spec

(* record_incoming_terminal is called once, and last: a stream a consumer  *)
(* saw drained stays empty, and the terminal recorded is the one sent.     *)
THEOREM DrainedIsTheEnd == Spec => []DrainedIsFinal
<1>1. Drains => DrainedIsFinal
  BY DEF Drains
<1>2. QED
  BY <1>1, AlwaysDrains, PTL

----------------------------------------------------------------------------
(***************************************************************************)
(* A conversation of one's own.                                            *)
(***************************************************************************)

(* Where a consumer can be, for what it is: one that is absent nowhere,    *)
(* and only one that awaits in a poll.                                     *)
Placed ==
  /\ calls \in [Consumer -> Nat]
  /\ DOMAIN outcome = Consumer /\ DOMAIN kind = Consumer
  /\ \A c \in Consumer :
       /\ role[c] = "absent" => pc[c] = "idle"
       /\ pc[c] \in {"poll", "polled", "retry", "pending"} => role[c] = "async"
       /\ role[c] \in {"sync", "async"} /\ calls[c] # 0 => kind[c] \in Materializers

(* Nobody sends before the dispatch is started. *)
Unborn == ~generated => sent = <<>> /\ \A s \in Sender : spc[s] = "unborn"

(* Where the step of a consumer leaves the consumers. *)
LEMMA ConsumerMoves ==
  ASSUME TypeOK, Placed, NEW c \in Consumer, role' = role,
         \/ Start(c) \/ FinishStart(c) \/ Receive(c) \/ Accipe(c)
         \/ Poll(c) \/ PollRegisters(c) \/ PollRetries(c) \/ Repoll(c)
  PROVE  /\ pc[c] # "idle"
         /\ \E place \in ConsumerPlaces :
              /\ pc' = [pc EXCEPT ![c] = place]
              /\ place \in {"poll", "polled", "retry", "pending"} => role[c] = "async"
         /\ UNCHANGED <<role, kind, calls, sent>>
         /\ generated' \/ UNCHANGED <<generated, spc>>
<1> USE DEF Placed, Return, TakeFrame, Entry, ConsumerPlaces, streamVars, leaseVars,
            consumerVars, senderVars
<1>1. CASE Start(c)
  BY <1>1 DEF Start, MustStart
<1>2. CASE FinishStart(c)
  BY <1>2 DEF FinishStart, Body, RecvBody, ReadyBody, FiniBody
<1>3. CASE Receive(c)
  BY <1>3 DEF Receive, Body, RecvBody, ReadyBody, FiniBody
<1>4. CASE Accipe(c)
  BY <1>4 DEF Accipe
<1>5. CASE Poll(c) \/ PollRegisters(c) \/ PollRetries(c) \/ Repoll(c)
  BY <1>5 DEF Poll, ReadyBody, PollRegisters, PollRetries, Repoll
<1>6. QED
  BY <1>1, <1>2, <1>3, <1>4, <1>5

(* The conversation before and during the first call of its only consumer: *)
(* what was sent is what the consumer received and what is queued.  After  *)
(* that call it is drained, or its future was dropped.                     *)
Receives(c) == role[c] \in {"sync", "async"}

WholeFor(c) ==
  /\ role[c] = "view" => ~generated
  /\ ~Receives(c) => outcome[c] # "ok"
  /\ calls[c] = 0 => pc[c] = "idle" /\ ~drained /\ outcome[c] # "ok"
  /\ Receives(c) /\ calls[c] = 0 => got[c] = <<>>
  /\ Receives(c) /\ calls[c] = 1 /\ pc[c] # "idle" => ~drained
  /\ Receives(c) /\ calls[c] \in {0, 1} /\ ~drained =>
       sent = got[c] \o queue /\ outcome[c] # "ok"
  /\ Receives(c) /\ calls[c] = 1 /\ drained =>
       /\ sent # <<>> /\ sent = Append(got[c], Last(sent))
       /\ outcome[c] = "ok" /\ kind[c] # "frames" =>
            Last(sent).status = "Done" /\ InItsType(kind[c], got[c])

Whole == \A c \in Consumer : Own(c) => WholeFor(c)

(* A materializer of a type fails on a payload of another. *)
LEMMA OnlyFittingIsOk ==
  ASSUME NEW k \in Materializers, NEW frames, NEW status,
         Result(k, frames, status).result = "ok"
  PROVE  InItsType(k, frames)
<1> SUFFICES ASSUME k \in {"textus", "octeti", "lista", "instans", "scalar"}, Mismatch(k, frames)
             PROVE  FALSE
  BY DEF InItsType, Mismatch
<1>1. ResultErr("mismatch").result # "ok" /\ ResultErr("count").result # "ok"
  BY DEF ResultErr
<1>2. terminal_error(status) => ResultErr(status).result # "ok"
  BY DEF terminal_error, ResultErr
<1>3. CASE k = "textus"
  BY <1>1, <1>3 DEF Result, try_sermo_materialize_textus
<1>4. CASE k = "octeti"
  BY <1>1, <1>4 DEF Result, try_sermo_materialize_octeti
<1>5. CASE k = "lista"
  BY <1>1, <1>5 DEF Result, try_sermo_materialize_lista
<1>6. CASE k = "instans"
  BY <1>1, <1>2, <1>6 DEF Result, try_sermo_materialize_instans, OnlyFrame
<1>7. CASE k = "scalar"
  BY <1>1, <1>2, <1>7 DEF Result, try_sermo_materialize_scalar, OnlyFrame
<1>8. QED
  BY <1>3, <1>4, <1>5, <1>6, <1>7

(* A materializer other than tuus_frames fails on an Error and a Cancel.   *)
LEMMA OnlyDoneIsOk ==
  ASSUME NEW k \in Materializers \ {"frames"}, NEW frames, NEW status,
         Result(k, frames, status).result = "ok"
  PROVE  status \notin {"Error", "Cancel"}
<1> SUFFICES ASSUME terminal_error(status) PROVE FALSE
  BY DEF terminal_error
<1>1. status # "ok"
  BY DEF terminal_error
<1>2. Ended(status, <<>>).result # "ok" /\ \A v : Ended(status, v).result # "ok"
  BY <1>1 DEF Ended, ResultErr
<1>3. ResultErr("mismatch").result # "ok"
  BY DEF ResultErr
<1>4. ResultErr(status).result # "ok"
  BY <1>1 DEF ResultErr
<1>5. CASE k = "vacuum"
  BY <1>2, <1>5 DEF Result, try_sermo_materialize_vacuum
<1>6. CASE k = "textus"
  BY <1>2, <1>3, <1>6 DEF Result, try_sermo_materialize_textus
<1>7. CASE k = "octeti"
  BY <1>2, <1>3, <1>7 DEF Result, try_sermo_materialize_octeti
<1>8. CASE k = "valor"
  BY <1>2, <1>8 DEF Result, try_sermo_materialize_valor
<1>9. CASE k = "lista"
  BY <1>2, <1>3, <1>9 DEF Result, try_sermo_materialize_lista
<1>10. CASE k = "instans"
  BY <1>4, <1>10 DEF Result, try_sermo_materialize_instans, OnlyFrame
<1>11. CASE k = "scalar"
  BY <1>4, <1>11 DEF Result, try_sermo_materialize_scalar, OnlyFrame
<1>12. QED
  BY <1>5, <1>6, <1>7, <1>8, <1>9, <1>10, <1>11 DEF Materializers

(* Steps the consumer and the stream do not notice. *)
LEMMA SameWhole ==
  ASSUME NEW c \in Consumer, WholeFor(c),
         UNCHANGED <<role, sent, queue, drained>>,
         role[c] = "view" => generated' = generated,
         UNCHANGED <<kind[c], got[c], calls[c], outcome[c]>>,
         pc'[c] = "idle" <=> pc[c] = "idle"
  PROVE  WholeFor(c)'
BY DEF WholeFor, Receives

(* A frame that moves from the head of q to the end of g. *)
LEMMA MoveHead ==
  ASSUME NEW S, NEW g \in Seq(S), NEW q \in Seq(S), q # <<>>
  PROVE  /\ Append(g, Head(q)) \o Tail(q) = g \o q
         /\ Len(q) = 1 => g \o q = Append(g, Head(q))
<1>1. /\ Len(q) \in Nat \ {0} /\ Head(q) \in S /\ Tail(q) \in Seq(S)
      /\ Len(Tail(q)) = Len(q) - 1 /\ \A i \in 1..Len(Tail(q)) : Tail(q)[i] = q[i + 1]
      /\ Head(q) = q[1] /\ Len(g) \in Nat
  OBVIOUS
<1>2. /\ Append(g, Head(q)) \in Seq(S) /\ Len(Append(g, Head(q))) = Len(g) + 1
      /\ \A i \in 1..Len(g) : Append(g, Head(q))[i] = g[i]
      /\ Append(g, Head(q))[Len(g) + 1] = Head(q)
  BY <1>1
<1>3. /\ Append(g, Head(q)) \o Tail(q) \in Seq(S) /\ g \o q \in Seq(S)
      /\ Len(Append(g, Head(q)) \o Tail(q)) = Len(g) + Len(q)
      /\ Len(g \o q) = Len(g) + Len(q)
  BY <1>1, <1>2
<1>4. ASSUME NEW i \in 1..(Len(g) + Len(q))
      PROVE  (Append(g, Head(q)) \o Tail(q))[i] = (g \o q)[i]
  BY <1>1, <1>2
<1>5. ASSUME NEW a \in Seq(S), NEW b \in Seq(S), Len(a) = Len(b),
             \A i \in 1..Len(a) : a[i] = b[i]
      PROVE  a = b
  BY <1>5
<1>6. Append(g, Head(q)) \o Tail(q) = g \o q
  BY <1>3, <1>4, <1>5
<1>7. Len(q) = 1 => g \o q = Append(g, Head(q))
  <2>1. SUFFICES ASSUME Len(q) = 1 PROVE g \o q = Append(g, Head(q))
    OBVIOUS
  <2>2. \A i \in 1..Len(g \o q) : (g \o q)[i] = Append(g, Head(q))[i]
    BY <1>1, <1>2, <1>3, <2>1
  <2>3. QED
    BY <1>2, <1>3, <1>5, <2>1, <2>2
<1>8. QED
  BY <1>6, <1>7

(* A sender's push arrives at the end of the queue. *)
LEMMA PushWhole ==
  ASSUME IInv, Drains, NEW c \in Consumer, Own(c), WholeFor(c),
         NEW s \in Sender, Push(s), role' = role
  PROVE  WholeFor(c)'
<1>1. PICK f \in Frame : queue' = Append(queue, f) /\ sent' = Append(sent, f)
  <2>1. sending[s] \in Statuses /\ cancelled \in BOOLEAN
    BY DEF Push, IInv, LeaseDiscipline, TypeOK
  <2>2. QED
    BY <2>1 DEF Push, Frame, Payload
<1>2. /\ UNCHANGED <<generated, drained, kind, got, calls, outcome>>
      /\ pc'[c] = "idle" <=> pc[c] = "idle"
  BY DEF Push, WakeAll, IInv, TypeOK, ConsumerPlaces
<1>3. Receives(c) => ~drained
  <2> SUFFICES ASSUME Receives(c), drained PROVE FALSE
    OBVIOUS
  <2>1. \A d \in Consumer : role[d] # "fini"
    BY DEF Own, Receives
  <2>2. sent # <<>> /\ Last(sent).status \in Terminals
    BY <2>1 DEF Drains, DrainedIsFinal
  <2>3. NoTerminalSent
    BY DEF Push, IInv, LeaseDiscipline
  <2>4. Len(sent) \in DOMAIN sent
    BY <2>2 DEF IInv, TypeOK
  <2>5. QED
    BY <2>2, <2>3, <2>4 DEF NoTerminalSent, Last, IsContent
<1>4. sent = got[c] \o queue => sent' = got'[c] \o queue'
  <2>1. got[c] \in Seq(Frame) /\ queue \in Seq(Frame)
    BY DEF IInv, TypeOK
  <2>a. ASSUME NEW g \in Seq(Frame), NEW q \in Seq(Frame)
        PROVE  Append(g \o q, f) = g \o Append(q, f)
    BY ONLY <2>a, f \in Frame
  <2>2. Append(got[c] \o queue, f) = got[c] \o Append(queue, f)
    BY ONLY <2>1, <2>a
  <2>3. QED
    BY <1>1, <1>2, <2>2
<1>5. QED
  BY <1>2, <1>3, <1>4 DEF WholeFor, Receives

(* A frame that is taken moves from the queue to the consumer. *)
LEMMA TakeFrameWhole ==
  ASSUME IInv, Drains, Placed, NEW c \in Consumer, WholeFor(c), Receives(c),
         NEW again \in ConsumerPlaces \ {"idle"}, TakeFrame(c, again),
         UNCHANGED <<role, kind, calls>>, pc[c] # "idle"
  PROVE  WholeFor(c)'
<1> DEFINE f == Head(queue)
<1>1. /\ queue # <<>> /\ queue' = Tail(queue) /\ sent' = sent
      /\ UNCHANGED generated
  BY DEF TakeFrame
<1>2. /\ queue \in Seq(Frame) /\ got \in [Consumer -> Seq(Frame)] /\ f \in Frame
      /\ pc \in [Consumer -> ConsumerPlaces] /\ (outcome' = outcome \/ ~IsContent(f))
  BY <1>1 DEF IInv, TypeOK, TakeFrame
<1>3. calls[c] \in Nat /\ calls[c] # 0 /\ role[c] # "view" /\ kind[c] \in Materializers
  BY DEF WholeFor, Receives, Placed
<1>4. ASSUME calls[c] = 1
      PROVE  ~drained /\ sent = got[c] \o queue /\ outcome[c] # "ok"
  BY <1>4 DEF WholeFor
<1>5. CASE IsContent(f)
  <2>1. /\ got' = [got EXCEPT ![c] = Append(@, f)]
        /\ pc' = [pc EXCEPT ![c] = again] /\ UNCHANGED <<drained, outcome>>
    BY <1>5 DEF TakeFrame
  <2>2. got'[c] = Append(got[c], f)
    BY <1>2, <2>1
  <2>3. got'[c] \o queue' = got[c] \o queue
    BY <1>1, <1>2, <2>2, MoveHead
  <2>4. QED
    BY <1>1, <1>3, <1>4, <2>1, <2>3 DEF WholeFor, Receives
<1>6. CASE ~IsContent(f)
  <2>1. /\ drained' = TRUE /\ pc'[c] = "idle" /\ got' = got
        /\ outcome'[c] = Result(kind[c], got[c], f.status).result
    <3>1. /\ drained' = TRUE /\ pc' = [pc EXCEPT ![c] = "idle"] /\ got' = got
          /\ outcome' = [outcome EXCEPT ![c] = Result(kind[c], got[c], f.status).result]
      BY <1>6 DEF TakeFrame, Record, Return
    <3>2. DOMAIN outcome = Consumer /\ DOMAIN pc = Consumer
      BY DEF Placed, IInv, TypeOK
    <3>3. QED
      <4>1. ASSUME NEW o, NEW r, DOMAIN o = Consumer PROVE [o EXCEPT ![c] = r][c] = r
        BY <4>1, Zenon
      <4>2. outcome'[c] = Result(kind[c], got[c], f.status).result
        BY ONLY <3>1, <3>2, <4>1
      <4>3. pc'[c] = "idle"
        BY ONLY <3>1, <3>2, <4>1
      <4>4. QED
        BY ONLY <3>1, <4>2, <4>3
  <2>2. Len(queue) = 1 /\ sent # <<>> /\ Last(sent) = f
    BY <1>1, <1>6, HeadIsLast DEF IInv, Drains
  <2>3. sent = got[c] \o queue => sent = Append(got[c], f)
    BY <1>1, <1>2, <2>2, MoveHead
  <2>4. ASSUME outcome'[c] = "ok", kind[c] # "frames"
        PROVE  f.status = "Done" /\ InItsType(kind[c], got[c])
    <3>1. CASE Result(kind[c], got[c], f.status).result = "ok"
      <4>1. f.status \notin {"Error", "Cancel"}
        BY <1>3, <2>4, <3>1, OnlyDoneIsOk
      <4>2. InItsType(kind[c], got[c])
        BY <1>3, <3>1, OnlyFittingIsOk
      <4>3. QED
        BY <1>6, <4>1, <4>2 DEF IsContent, Terminals
    <3>2. CASE Result(kind[c], got[c], f.status).result # "ok"
      BY <2>1, <2>4, <3>2 DEF Return
    <3>3. QED
      BY <3>1, <3>2
  <2>5. QED
    BY <1>1, <1>3, <1>4, <2>1, <2>2, <2>3, <2>4 DEF WholeFor, Receives
<1>7. QED
  BY <1>5, <1>6

(* A step that reads nothing and ends no call. *)
LEMMA QuietWhole ==
  ASSUME TypeOK, NEW c \in Consumer, WholeFor(c), pc[c] # "idle",
         NEW place \in ConsumerPlaces \ {"idle"}, pc' = [pc EXCEPT ![c] = place],
         UNCHANGED <<role, sent, queue, drained, kind, got, calls, outcome>>,
         role[c] = "view" => generated' = generated
  PROVE  WholeFor(c)'
<1>1. pc'[c] # "idle"
  BY DEF TypeOK
<1>2. QED
  BY <1>1, SameWhole

(* A call that finds the stream drained is not the first one. *)
LEMMA EndedBefore ==
  ASSUME Placed, NEW c \in Consumer, WholeFor(c), Receives(c), pc[c] # "idle", drained,
         UNCHANGED <<role, calls>>
  PROVE  WholeFor(c)'
<1>1. calls[c] \in Nat /\ calls[c] \notin {0, 1}
  BY DEF WholeFor, Placed
<1>2. role[c] # "view"
  BY DEF Receives
<1>3. QED
  BY <1>1, <1>2 DEF WholeFor, Receives

(* tuus_fini never reports what a materializer does. *)
LEMMA OtherWhole ==
  ASSUME Placed, NEW c \in Consumer, WholeFor(c), ~Receives(c), pc[c] # "idle",
         NEW result, result # "ok", Return(c, result), UNCHANGED <<role, calls>>,
         role[c] = "view" => generated' = generated
  PROVE  WholeFor(c)'
<1>1. outcome' = [outcome EXCEPT ![c] = result] /\ DOMAIN outcome = Consumer
  BY DEF Return, Placed
<1>2. outcome'[c] # "ok"
  <2>1. ASSUME NEW o, DOMAIN o = Consumer PROVE [o EXCEPT ![c] = result][c] = result
    BY <2>1, Zenon
  <2>2. QED
    BY <1>1, <2>1
<1>3. calls[c] # 0
  BY DEF WholeFor
<1>4. QED
  BY <1>2, <1>3 DEF WholeFor, Receives

(* The receive of a call that has started. *)
LEMMA BodyWhole ==
  ASSUME IInv, Drains, Placed, NEW c \in Consumer, WholeFor(c), pc[c] # "idle", Body(c),
         UNCHANGED <<role, kind, calls>>
  PROVE  WholeFor(c)'
<1>1. {"recv", "poll", "waiting", "polled"} \subseteq ConsumerPlaces \ {"idle"}
  BY DEF ConsumerPlaces
<1>2. TypeOK
  BY DEF IInv
<1>3. CASE role[c] = "sync" /\ RecvBody(c)
  <2>1. Receives(c)
    BY <1>3 DEF Receives
  <2>2. CASE TakeFrame(c, "recv")
    BY <1>1, <2>1, <2>2, TakeFrameWhole
  <2>3. CASE pc' = [pc EXCEPT ![c] = "waiting"] /\ UNCHANGED <<streamVars, got, outcome>>
    BY <1>1, <1>2, <2>3, QuietWhole DEF streamVars
  <2>4. CASE drained
    BY <2>1, <2>4, EndedBefore
  <2>5. QED
    BY <1>3, <2>2, <2>3, <2>4 DEF RecvBody
<1>4. CASE role[c] = "async" /\ ReadyBody(c)
  <2>1. Receives(c)
    BY <1>4 DEF Receives
  <2>2. CASE TakeFrame(c, "poll")
    BY <1>1, <2>1, <2>2, TakeFrameWhole
  <2>3. CASE pc' = [pc EXCEPT ![c] = "polled"] /\ UNCHANGED <<streamVars, got, outcome>>
    BY <1>1, <1>2, <2>3, QuietWhole DEF streamVars
  <2>4. QED
    BY <1>4, <2>2, <2>3 DEF ReadyBody
<1>5. CASE role[c] = "fini" /\ FiniBody(c)
  <2>1. ~Receives(c) /\ role[c] # "view"
    BY <1>5 DEF Receives
  <2>2. PICK status \in Terminals : Return(c, status)
    BY <1>5 DEF FiniBody, IsContent, Terminals
  <2>3. status # "ok"
    BY DEF Terminals
  <2>4. QED
    BY <2>1, <2>2, <2>3, OtherWhole
<1>6. QED
  BY <1>3, <1>4, <1>5 DEF Body

(* Every step of the consumer itself. *)
LEMMA ConsumerWhole ==
  ASSUME IInv, Drains, Placed, Unborn, NEW c \in Consumer, Own(c), WholeFor(c),
         role' = role,
         \/ Start(c) \/ FinishStart(c) \/ Receive(c) \/ Accipe(c)
         \/ Poll(c) \/ PollRegisters(c) \/ PollRetries(c) \/ Repoll(c)
  PROVE  WholeFor(c)'
<1> USE DEF streamVars, leaseVars, consumerVars, senderVars
<1>1. /\ pc[c] # "idle" /\ UNCHANGED <<role, kind, calls, sent>> /\ TypeOK
      /\ {"recv", "poll", "retry", "pending", "starting", "refused", "blocked"}
           \subseteq ConsumerPlaces \ {"idle"}
  BY ConsumerMoves DEF IInv, ConsumerPlaces
<1>2. pc[c] \in {"poll", "polled", "retry", "pending"} => Receives(c)
  BY DEF Placed, Receives
<1>3. CASE Start(c)
  <2>1. /\ UNCHANGED <<queue, drained, got, outcome>> /\ role[c] # "view"
        /\ \E place \in {"starting", "refused"} : pc' = [pc EXCEPT ![c] = place]
    BY <1>3 DEF Start, MustStart
  <2>2. QED
    BY <1>1, <2>1, QuietWhole
<1>4. CASE FinishStart(c)
  <2>1. CASE Body(c)
    BY <1>1, <2>1, BodyWhole
  <2>2. CASE ~Body(c)
    <3>1. /\ UNCHANGED <<generated, queue, drained, got, outcome>>
          /\ \E place \in {"blocked", "recv", "poll"} : pc' = [pc EXCEPT ![c] = place]
      BY <1>4, <2>2 DEF FinishStart, Entry
    <3>2. QED
      BY <1>1, <3>1, QuietWhole
  <2>3. QED
    BY <2>1, <2>2
<1>5. CASE Receive(c)
  <2>1. CASE Body(c)
    BY <1>1, <2>1, BodyWhole
  <2>2. CASE ~Body(c)
    <3>1. /\ role[c] = "fini" /\ drained /\ Return(c, terminal) /\ UNCHANGED generated
      BY <1>5, <2>2 DEF Receive
    <3>2. terminal # "ok" /\ ~Receives(c)
      BY <3>1 DEF Drains, Terminals, Receives
    <3>3. QED
      BY <1>1, <3>1, <3>2, OtherWhole
  <2>3. QED
    BY <2>1, <2>2
<1>6. CASE Accipe(c)
  <2>1. role[c] = "view" /\ ~generated /\ sent = <<>>
    BY <1>6 DEF Accipe, WholeFor, Unborn
  <2>2. queue = <<>>
    <3>1. Len(queue) <= 0 /\ queue \in Seq(Frame)
      BY <2>1 DEF Drains, Queued, IInv, TypeOK
    <3>2. QED
      BY <3>1
  <2>3. Return(c, "nihil") /\ UNCHANGED generated
    BY <1>6, <2>2 DEF Accipe
  <2>4. QED
    BY <1>1, <2>1, <2>3, OtherWhole DEF Receives
<1>7. CASE Poll(c)
  <2>1. Body(c)
    BY <1>7 DEF Poll, Body, Placed
  <2>2. QED
    BY <1>1, <2>1, BodyWhole
<1>8. CASE PollRegisters(c)
  <2>1. CASE drained
    BY <1>1, <1>2, <1>8, <2>1, EndedBefore DEF PollRegisters
  <2>2. CASE ~drained
    <3>1. /\ UNCHANGED <<generated, queue, drained, got, outcome>>
          /\ \E place \in {"retry", "pending"} : pc' = [pc EXCEPT ![c] = place]
      BY <1>8, <2>2 DEF PollRegisters
    <3>2. QED
      BY <1>1, <3>1, QuietWhole
  <2>3. QED
    BY <2>1, <2>2
<1>9. CASE PollRetries(c)
  <2>1. Receives(c)
    BY <1>2, <1>9 DEF PollRetries
  <2>2. CASE TakeFrame(c, "poll")
    BY <1>1, <2>1, <2>2, TakeFrameWhole
  <2>3. CASE ~TakeFrame(c, "poll")
    <3>1. /\ UNCHANGED <<generated, queue, drained, got, outcome>>
          /\ pc' = [pc EXCEPT ![c] = "pending"]
      BY <1>9, <2>3 DEF PollRetries
    <3>2. QED
      BY <1>1, <3>1, QuietWhole
  <2>4. QED
    BY <2>2, <2>3
<1>10. CASE Repoll(c)
  <2>1. /\ UNCHANGED <<generated, queue, drained, got, outcome>>
        /\ pc' = [pc EXCEPT ![c] = "poll"]
    BY <1>10 DEF Repoll
  <2>2. QED
    BY <1>1, <2>1, QuietWhole
<1>11. QED
  BY <1>3, <1>4, <1>5, <1>6, <1>7, <1>8, <1>9, <1>10

(* The next call, and a future that is dropped. *)
LEMMA CallWhole ==
  ASSUME IInv, Placed, NEW c \in Consumer, WholeFor(c), Call(c), role' = role
  PROVE  WholeFor(c)'
<1>1. /\ calls[c] \in Nat /\ DOMAIN outcome = Consumer /\ TypeOK
      /\ got \in [Consumer -> Seq(Frame)] /\ calls \in [Consumer -> Nat]
  BY DEF Placed, IInv, TypeOK
<1>2. /\ UNCHANGED <<sent, queue, drained, generated>>
      /\ calls' = [calls EXCEPT ![c] = @ + 1] /\ got' = [got EXCEPT ![c] = <<>>]
      /\ outcome' = [outcome EXCEPT ![c] = None]
  BY DEF Call, streamVars
<1>3. calls'[c] = calls[c] + 1 /\ got'[c] = <<>>
  BY <1>1, <1>2
<1>4. outcome'[c] = None /\ None # "ok"
  <2>1. ASSUME NEW o, DOMAIN o = Consumer PROVE [o EXCEPT ![c] = None][c] = None
    BY <2>1, Zenon
  <2>2. QED
    BY <1>1, <1>2, <2>1, DistinctAssumption
<1>5. calls'[c] \in {0, 1} => calls[c] = 0
  BY <1>1, <1>3
<1>6. calls'[c] # 0
  BY <1>1, <1>3
<1>7. Receives(c) /\ calls[c] = 0 => got[c] = <<>> /\ ~drained /\ sent = got[c] \o queue
  BY DEF WholeFor
<1>8. QED
  BY <1>2, <1>3, <1>4, <1>5, <1>6, <1>7 DEF WholeFor, Receives

LEMMA DropWhole ==
  ASSUME IInv, Placed, NEW c \in Consumer, WholeFor(c), DropFuture(c), role' = role
  PROVE  WholeFor(c)'
<1>1. Receives(c) /\ role[c] # "view" /\ calls[c] # 0
  BY DEF DropFuture, Placed, Receives, WholeFor
<1>2. UNCHANGED <<sent, queue, drained, kind, got, calls>>
  BY DEF DropFuture
<1>3. outcome'[c] # "ok"
  <2>1. ASSUME NEW o, DOMAIN o = Consumer PROVE [o EXCEPT ![c] = "dropped"][c] = "dropped"
    BY <2>1, Zenon
  <2>2. QED
    BY <2>1 DEF DropFuture, Placed
<1>4. calls[c] = 1 => ~drained /\ sent = got[c] \o queue
  BY DEF DropFuture, WholeFor, Receives, Placed
<1>5. QED
  BY <1>1, <1>2, <1>3, <1>4 DEF WholeFor, Receives

(* Who else moves: a sender, or nobody, for absent consumers make no step. *)
LEMMA StepWhole ==
  ASSUME IInv, Drains, Placed, Unborn, NEW c \in Consumer, Own(c), WholeFor(c), [Next]_vars
  PROVE  WholeFor(c)'
<1> USE DEF streamVars, leaseVars, consumerVars, senderVars
<1>1. ASSUME NEW d \in Consumer \ {c}
      PROVE  ~ConsumerStep(d) /\ ~Call(d) /\ ~DropFuture(d)
  <2>1. role[d] = "absent" /\ pc[d] = "idle"
    BY <1>1 DEF Own, Placed
  <2>2. ~Call(d) /\ ~DropFuture(d)
    BY <2>1 DEF Call, DropFuture
  <2>3. ~ConsumerStep(d)
    BY <2>1, ConsumerMoves DEF ConsumerStep, IInv
  <2>4. QED
    BY <2>2, <2>3
<1>2. CASE ConsumerStep(c)
  BY <1>2, ConsumerWhole DEF ConsumerStep
<1>3. CASE Call(c) /\ role' = role
  BY <1>3, CallWhole
<1>4. CASE DropFuture(c) /\ role' = role
  BY <1>4, DropWhole
<1>5. ASSUME NEW s \in Sender, Push(s), role' = role
      PROVE  WholeFor(c)'
  BY <1>5, PushWhole
<1>6. ASSUME NEW s \in Sender, role' = role,
             SendChecks(s) \/ SendLocks(s) \/ DropSender(s) \/ DropLocks(s) \/ CloneSender(s)
      PROVE  WholeFor(c)'
  <2>1. UNCHANGED <<role, generated, sent, queue, drained, pc, kind, got, calls, outcome>>
    BY <1>6 DEF SendChecks, SendLocks, DropSender, DropLocks, CloneSender
  <2>2. QED
    BY <2>1, SameWhole
<1>7. CASE (HostCancels /\ role' = role) \/ UNCHANGED vars
  <2>1. UNCHANGED <<role, generated, sent, queue, drained, pc, kind, got, calls, outcome>>
    BY <1>7 DEF HostCancels, vars
  <2>2. QED
    BY <2>1, SameWhole
<1>8. QED
  BY <1>1, <1>2, <1>3, <1>4, <1>5, <1>6, <1>7 DEF Next, SenderStep, OptionalStep

LEMMA StepPlaced ==
  ASSUME TypeOK, Placed, [Next]_vars
  PROVE  Placed'
<1> USE DEF streamVars, leaseVars, consumerVars, senderVars, TypeOK
<1>1. ASSUME UNCHANGED <<role, kind, calls, outcome, pc>> PROVE Placed'
  BY <1>1 DEF Placed
<1>2. ASSUME NEW c \in Consumer, ConsumerStep(c) PROVE Placed'
  <2>1. DOMAIN outcome' = DOMAIN outcome
    BY <1>2 DEF ConsumerStep, Start, FinishStart, Receive, Accipe, Poll, PollRegisters,
                PollRetries, Repoll, Body, RecvBody, ReadyBody, FiniBody, TakeFrame, Return
  <2>2. QED
    BY <1>2, <2>1, ConsumerMoves DEF ConsumerStep, Placed
<1>3. ASSUME NEW c \in Consumer, Call(c), role' = role PROVE Placed'
  <2>1. /\ calls' \in [Consumer -> Nat]
        /\ DOMAIN outcome' = Consumer /\ DOMAIN kind' = Consumer
    BY <1>3 DEF Call, Placed
  <2>2. pc' = [pc EXCEPT ![c] = Entry(c)] /\ role[c] # "absent"
    BY <1>3 DEF Call
  <2>3. kind' = [kind EXCEPT ![c] = kind'[c]]
    BY <1>3 DEF Call, Placed
  <2>4. role[c] \in {"sync", "async"} => kind'[c] \in Materializers
    <3>1. Kinds[c] \subseteq Materializers
      BY KindsAssumption
    <3>2. \A t : try_sermo_materialize_auto(t) \in Materializers
      BY DEF try_sermo_materialize_auto, Materializers
    <3>3. QED
      BY <1>3, <3>1, <3>2 DEF Call, Placed
  <2>5. \A d \in Consumer \ {c} : UNCHANGED <<pc[d], kind[d], calls[d]>>
    BY <1>3, <2>2, <2>3 DEF Call, Placed
  <2>6. pc'[c] \in {"recv", "poll"} /\ (pc'[c] = "poll" => role[c] = "async")
    BY <2>2 DEF Entry
  <2>7. QED
    BY <1>3, <2>1, <2>2, <2>4, <2>5, <2>6 DEF Placed
<1>4. ASSUME NEW c \in Consumer, DropFuture(c), role' = role PROVE Placed'
  <2>1. /\ DOMAIN outcome' = DOMAIN outcome /\ UNCHANGED <<kind, calls>>
    BY <1>4 DEF DropFuture
  <2>2. ASSUME NEW d \in Consumer
        PROVE  pc'[d] = pc[d] \/ pc'[d] = "idle" \/ (pc[d] = "waiting" /\ pc'[d] = "recv")
    BY <1>4 DEF DropFuture, WakeAll
  <2>3. QED
    BY <1>4, <2>1, <2>2 DEF Placed
<1>5. ASSUME NEW s \in Sender, Push(s), role' = role PROVE Placed'
  <2>1. UNCHANGED <<kind, calls, outcome>>
    BY <1>5 DEF Push
  <2>2. ASSUME NEW d \in Consumer
        PROVE  pc'[d] = pc[d] \/ (pc[d] = "waiting" /\ pc'[d] = "recv")
    BY <1>5 DEF Push, WakeAll
  <2>3. QED
    BY <1>5, <2>1, <2>2 DEF Placed
<1>6. QED
  BY <1>1, <1>2, <1>3, <1>4, <1>5
     DEF Next, SenderStep, OptionalStep, SendChecks, SendLocks, DropSender, DropLocks,
         CloneSender, HostCancels, vars

LEMMA StepUnborn ==
  ASSUME TypeOK, Placed, Unborn, [Next]_vars
  PROVE  Unborn'
<1> USE DEF streamVars, leaseVars, consumerVars, senderVars, TypeOK
<1>1. ASSUME generated' \/ UNCHANGED <<generated, spc, sent>> PROVE Unborn'
  BY <1>1 DEF Unborn
<1>2. ASSUME NEW c \in Consumer, ConsumerStep(c) PROVE Unborn'
  BY <1>1, <1>2, ConsumerMoves DEF ConsumerStep
<1>3. ASSUME NEW s \in Sender, SenderStep(s) \/ CloneSender(s) PROVE Unborn'
  <2>1. spc[s] # "unborn" /\ UNCHANGED generated
    BY <1>3 DEF SenderStep, SendChecks, SendLocks, Push, DropSender, DropLocks, CloneSender
  <2>2. QED
    BY <2>1 DEF Unborn
<1>4. QED
  BY <1>1, <1>2, <1>3 DEF Next, OptionalStep, Call, DropFuture, HostCancels, vars

Completeness == Drains /\ Placed /\ Unborn /\ Whole

LEMMA AlwaysWhole == Spec => []Completeness
<1>1. Init => Completeness
  <2> SUFFICES ASSUME Init PROVE Completeness
    OBVIOUS
  <2>1. Drains
    BY DEF Init, Drains, Queued, DrainedIsFinal
  <2>2. Placed /\ Unborn
    BY DEF Init, Placed, Unborn
  <2>3. ASSUME NEW c \in Consumer PROVE WholeFor(c)
    <3>1. <<>> = <<>> \o <<>> /\ None # "ok"
      BY DistinctAssumption
    <3>2. QED
      BY <3>1 DEF Init, WholeFor
  <2>4. QED
    BY <2>1, <2>2, <2>3 DEF Completeness, Whole
<1>2. IInv /\ Completeness /\ [Next]_vars => Completeness'
  <2> SUFFICES ASSUME IInv, Completeness, [Next]_vars PROVE Completeness'
    OBVIOUS
  <2>1. TypeOK /\ Drains /\ Placed /\ Unborn /\ Whole
    BY DEF Completeness, IInv
  <2>2. Drains' /\ Placed' /\ Unborn'
    BY <2>1, StepDrains, StepPlaced, StepUnborn
  <2>3. role' = role
    BY DEF Next, SenderStep, ConsumerStep, OptionalStep, vars
  <2>4. Whole'
    BY <2>1, <2>3, StepWhole DEF Whole, Own
  <2>5. QED
    BY <2>2, <2>4 DEF Completeness
<1>3. QED
  BY <1>1, <1>2, IInvInvariant, PTL DEF Spec

(* A materializer that succeeds on a conversation of its own has the whole *)
(* answer, whichever materializer it is, blocking or awaited, and whatever *)
(* the senders, their clones and the host do meanwhile.                    *)
THEOREM SuccessHasTheWholeAnswer == Spec => []SuccessIsComplete
<1>1. IInv /\ Completeness => SuccessIsComplete
  <2> SUFFICES ASSUME IInv, Completeness, NEW c \in Consumer,
                      outcome[c] = "ok", kind[c] # "frames", calls[c] = 1, Own(c)
               PROVE  /\ Last(sent).status = "Done" /\ got[c] = Front(sent)
                      /\ InItsType(kind[c], got[c])
    BY DEF SuccessIsComplete
  <2>1. WholeFor(c)
    BY DEF Completeness, Whole
  <2>2. /\ Last(sent).status = "Done" /\ sent = Append(got[c], Last(sent))
        /\ InItsType(kind[c], got[c])
    BY <2>1 DEF WholeFor
  <2>3. got[c] \in Seq(Frame)
    BY DEF IInv, TypeOK
  <2>4. ASSUME NEW g \in Seq(Frame), NEW f PROVE Front(Append(g, f)) = g
    <3>1. Front(Append(g, f)) = [i \in 1..Len(g) |-> g[i]]
      BY DEF Front
    <3>2. QED
      BY <3>1
  <2>5. QED
    BY <2>2, <2>3, <2>4
<1>2. QED
  BY <1>1, AlwaysWhole, IInvInvariant, PTL

----------------------------------------------------------------------------
(***************************************************************************)
(* A future that waits.                                                    *)
(***************************************************************************)

(* Whoever awaits has the conversation for itself.  Beside a clone that    *)
(* looks at it through a view a wake-up can be lost: the run               *)
(* conversation_lost_wake shows it.                                        *)
AwaitsAlone ==
  \A r \in Roles : \A c, d \in Consumer : r[c] = "async" /\ d # c => r[d] = "absent"

(* A future that found a frame at its second look will still find it.      *)
Registered ==
  /\ role \in Roles
  /\ \A c \in Consumer : pc[c] = "retry" => queue # <<>>
  /\ PendingIsRegistered

LEMMA StepRegistered ==
  ASSUME AwaitsAlone, TypeOK, Placed, Registered, [Next]_vars
  PROVE  Registered'
<1> USE DEF TypeOK, streamVars, leaseVars, consumerVars, senderVars
<1>1. role' = role /\ role' \in Roles
  BY DEF Registered, Next, SenderStep, ConsumerStep, OptionalStep, vars
<1>2. SUFFICES ASSUME NEW c \in Consumer
               PROVE  /\ pc'[c] = "retry" => queue' # <<>>
                      /\ pc'[c] = "pending" => c \in waiters' \/ woken'[c]
  BY <1>1 DEF Registered, PendingIsRegistered
<1> DEFINE Goal == /\ pc'[c] = "retry" => queue' # <<>>
                   /\ pc'[c] = "pending" => c \in waiters' \/ woken'[c]
<1>3. /\ pc[c] = "retry" => queue # <<>>
      /\ pc[c] = "pending" => c \in waiters \/ woken[c]
  BY DEF Registered, PendingIsRegistered
<1>4. CASE UNCHANGED <<pc, queue, waiters, woken>>
  BY <1>3, <1>4
<1>5. ASSUME NEW s \in Sender, Push(s) PROVE Goal
  <2>1. queue' # <<>>
    <3>1. PICK f : queue' = Append(queue, f)
      BY <1>5 DEF Push
    <3>2. ASSUME NEW q \in Seq(Frame) PROVE Append(q, f) # <<>>
      <4>1. Len(Append(q, f)) = Len(q) + 1 /\ Len(q) \in Nat /\ Len(<<>>) = 0
        OBVIOUS
      <4>2. Len(Append(q, f)) # Len(<<>>)
        BY <4>1
      <4>3. QED
        BY <4>2, Zenon
    <3>3. QED
      BY <3>1, <3>2
  <2>2. pc'[c] = "pending" => pc[c] = "pending"
    BY <1>5 DEF Push, WakeAll
  <2>3. c \in waiters \/ woken[c] => woken'[c]
    BY <1>5 DEF Push, WakeAll
  <2>4. QED
    BY <1>3, <2>1, <2>2, <2>3
<1>6. CASE role[c] # "async"
  <2>1. pc'[c] \notin {"retry", "pending"}
    BY <1>1, <1>6, StepPlaced DEF Placed
  <2>2. QED
    BY <2>1
<1>7. ASSUME role[c] = "async", NEW d \in Consumer \ {c}
      PROVE  ~ConsumerStep(d) /\ ~Call(d) /\ ~DropFuture(d)
  <2>1. role[d] = "absent" /\ pc[d] = "idle"
    BY <1>7 DEF AwaitsAlone, Registered, Placed
  <2>2. ~Call(d) /\ ~DropFuture(d)
    BY <2>1 DEF Call, DropFuture
  <2>3. ~ConsumerStep(d)
    BY <2>1, ConsumerMoves DEF ConsumerStep
  <2>4. QED
    BY <2>2, <2>3
<1>8. ASSUME role[c] = "async", ConsumerStep(c) PROVE Goal
  <2>1. CASE Start(c) \/ FinishStart(c) \/ Receive(c) \/ Accipe(c) \/ Poll(c) \/ Repoll(c)
    <3>1. pc'[c] \notin {"retry", "pending"}
      BY <1>8, <2>1 DEF Start, FinishStart, Receive, Accipe, Poll, Repoll, Body, RecvBody,
                        ReadyBody, FiniBody, TakeFrame, Return, Entry
    <3>2. QED
      BY <3>1
  <2>2. CASE PollRegisters(c)
    BY <2>2 DEF PollRegisters, Return
  <2>3. CASE PollRetries(c)
    <3>1. pc'[c] \notin {"retry", "pending"}
      BY <1>3, <2>3 DEF PollRetries, TakeFrame, Return
    <3>2. QED
      BY <3>1
  <2>4. QED
    BY <1>8, <2>1, <2>2, <2>3 DEF ConsumerStep
<1>9. ASSUME role[c] = "async", Call(c) \/ DropFuture(c) PROVE Goal
  <2>1. pc'[c] \notin {"retry", "pending"}
    BY <1>9 DEF Call, DropFuture, Entry, WakeAll
  <2>2. QED
    BY <2>1
<1>10. QED
  BY <1>4, <1>5, <1>6, <1>7, <1>8, <1>9
     DEF Next, SenderStep, OptionalStep, SendChecks, SendLocks, DropSender, DropLocks,
         CloneSender, HostCancels, vars

(* No wake-up is lost: a receive future that returned Pending has its      *)
(* waker registered, or it has been called.                                *)
THEOREM NoLostWake == ASSUME AwaitsAlone PROVE Spec => []PendingIsRegistered
<1>1. Init => Registered
  BY DEF Init, Registered, PendingIsRegistered
<1>2. TypeOK /\ Completeness /\ Registered /\ [Next]_vars => Registered'
  BY StepRegistered DEF Completeness
<1>3. Registered => PendingIsRegistered
  BY DEF Registered
<1>4. QED
  BY <1>1, <1>2, <1>3, AlwaysWhole, TypeCorrect, PTL DEF Spec

-----------------------------------------------------------------------------
(***************************************************************************)
(* The builtin routes, whose answers the materializers read.               *)
(***************************************************************************)

(* Links.  A hop leads on from links only, so what is done to other        *)
(* nodes does not move the end of a path.                                   *)
Hopping(H, fs, p) ==
  H = [n \in 0..Cardinality(Path) |->
         IF n = 0 THEN p
         ELSE IF fs[H[n - 1]].is = "link" THEN fs[H[n - 1]].to ELSE H[n - 1]]

EndOf(fs, p) == (CHOOSE K : Hopping(K, fs, p))[Cardinality(Path)]

(* A path is resolved in a bounded number of hops. *)
LEMMA Hops == Cardinality(Path) \in Nat
  BY PathAssumption, FS_CardinalityType

(* The hops from a path are defined, and stay among the paths. *)
LEMMA HoppingExists ==
  ASSUME NEW fs, WellFormed(fs), NEW p \in Path
  PROVE  \E H \in [0..Cardinality(Path) -> Path] : Hopping(H, fs, p)
<1> DEFINE N == Cardinality(Path)
           step == [n \in 1..N |-> [x \in Path |-> IF fs[x].is = "link" THEN fs[x].to ELSE x]]
<1>1. N \in Nat
  BY Hops
<1>2. step \in [1..N -> [Path -> Path]]
  BY DEF WellFormed
<1>3. \A x \in Path, n \in 1..N : step[n][x] = IF fs[x].is = "link" THEN fs[x].to ELSE x
  OBVIOUS
<1> HIDE DEF step
<1>4. PICK H \in [0..N -> Path] : Follows(H, step, p, N)
  <2> HIDE DEF N
  <2>1. QED
    BY <1>1, <1>2, FoldExists
<1>5. ASSUME NEW n \in 0..N
      PROVE  H[n] = IF n = 0 THEN p
                    ELSE IF fs[H[n - 1]].is = "link" THEN fs[H[n - 1]].to ELSE H[n - 1]
  <2>1. CASE n = 0
    BY <1>4, <2>1 DEF Follows
  <2>2. CASE n # 0
    <3>1. n \in 1..N /\ n - 1 \in 0..N
      BY <1>1, <2>2
    <3>2. H[n] = step[n][H[n - 1]] /\ H[n - 1] \in Path
      BY <1>4, <3>1 DEF Follows
    <3>3. QED
      BY <1>3, <2>2, <3>1, <3>2
  <2>3. QED
    BY <2>1, <2>2
<1>6. H = [n \in 0..N |-> H[n]]
  BY <1>4
<1> HIDE DEF N
<1>7. H = [n \in 0..N |-> IF n = 0 THEN p
             ELSE IF fs[H[n - 1]].is = "link" THEN fs[H[n - 1]].to ELSE H[n - 1]]
  BY <1>5, <1>6
<1>8. QED
  BY <1>4, <1>7 DEF Hopping, N

(* A path that is no link is its own end, an end is a path. *)
LEMMA EndIs ==
  ASSUME NEW fs, WellFormed(fs), NEW p \in Path
  PROVE  EndOf(fs, p) \in Path /\ (fs[p].is # "link" => EndOf(fs, p) = p)
<1> DEFINE N == Cardinality(Path)
           H == CHOOSE K : Hopping(K, fs, p)
           T == {n \in 0..N : H[n] \in Path /\ (fs[p].is # "link" => H[n] = p)}
<1>1. Hopping(H, fs, p) /\ N \in Nat /\ EndOf(fs, p) = H[N]
  BY HoppingExists, Hops DEF EndOf
<1> HIDE DEF H
<1>2. 0 \in T
  <2>1. H[0] = p /\ 0 \in 0..N
    BY <1>1 DEF Hopping
  <2>2. QED
    BY <2>1
<1>3. ASSUME NEW n \in 0..(N - 1), n \in T PROVE n + 1 \in T
  <2>1. n + 1 \in 0..N /\ n + 1 # 0 /\ (n + 1) - 1 = n
    BY <1>1
  <2>2. H[n + 1] = IF fs[H[n]].is = "link" THEN fs[H[n]].to ELSE H[n]
    BY <1>1, <2>1 DEF Hopping
  <2>3. QED
    BY <1>3, <2>1, <2>2 DEF WellFormed
<1>4. N \in T
  <2> HIDE DEF T
  <2>1. QED
    BY <1>1, <1>2, <1>3, UpTo
<1>5. QED
  BY <1>1, <1>4

(* The same links lead to the same ends. *)
SameLinks(fs, gs) ==
  \A p \in Path : /\ fs[p].is = "link" <=> gs[p].is = "link"
                  /\ fs[p].is = "link" => fs[p].to = gs[p].to

(* What changes no link moves the end of no path. *)
LEMMA SameEnds ==
  ASSUME NEW fs, NEW gs, WellFormed(fs), WellFormed(gs), SameLinks(fs, gs), NEW p \in Path
  PROVE  EndOf(gs, p) = EndOf(fs, p)
<1> DEFINE N == Cardinality(Path)
           H == CHOOSE K : Hopping(K, fs, p)
           G == CHOOSE K : Hopping(K, gs, p)
           T == {n \in 0..N : H[n] \in Path /\ H[n] = G[n]}
<1>1. Hopping(H, fs, p) /\ N \in Nat /\ EndOf(fs, p) = H[N]
  BY HoppingExists, Hops DEF EndOf
<1>2. Hopping(G, gs, p) /\ EndOf(gs, p) = G[N]
  BY HoppingExists DEF EndOf
<1> HIDE DEF H, G
<1>3. 0 \in T
  <2>1. H[0] = p /\ G[0] = p /\ 0 \in 0..N
    BY <1>1, <1>2 DEF Hopping
  <2>2. QED
    BY <2>1
<1>4. ASSUME NEW n \in 0..(N - 1), n \in T PROVE n + 1 \in T
  <2>1. n + 1 \in 0..N /\ n + 1 # 0 /\ (n + 1) - 1 = n
    BY <1>1
  <2>2. H[n + 1] = IF fs[H[n]].is = "link" THEN fs[H[n]].to ELSE H[n]
    BY <1>1, <2>1 DEF Hopping
  <2>3. G[n + 1] = IF gs[G[n]].is = "link" THEN gs[G[n]].to ELSE G[n]
    BY <1>2, <2>1 DEF Hopping
  <2>4. QED
    BY <1>4, <2>1, <2>2, <2>3 DEF WellFormed, SameLinks
<1>5. N \in T
  <2> HIDE DEF T
  <2>1. QED
    BY <1>1, <1>3, <1>4, UpTo
<1>6. QED
  BY <1>1, <1>2, <1>5

-----------------------------------------------------------------------------
(* Flattening, list by list. *)
Flattening(F, ss) ==
  F = [i \in 1..Len(ss) |-> IF i = 1 THEN ss[i] ELSE F[i - 1] \o ss[i]]

Flattened(U, ss) ==
  U[0] = <<>> /\ \A n \in 1..Len(ss) : U[n] = U[n - 1] \o ss[n]

(* Flattening a list of lists is joining them one after the other. *)
LEMMA FlattenIs ==
  ASSUME NEW S, NEW ss \in Seq(Seq(S))
  PROVE  \E U \in [0..Len(ss) -> Seq(S)] :
           Flattened(U, ss) /\ Seqs!FlattenSeq(ss) = U[Len(ss)]
<1> DEFINE N == Len(ss)
           X == Seq(S)
           b == <<>>
           step == [n \in 1..N |-> [x \in X |-> x \o ss[n]]]
<1>1. N \in Nat /\ b \in X /\ \A n \in 1..N : ss[n] \in X
  OBVIOUS
<1>2. step \in [1..N -> [X -> X]] /\ \A n \in 1..N, x \in X : step[n][x] = x \o ss[n]
  BY <1>1
<1> HIDE DEF step
<1>3. PICK U \in [0..N -> X] : Follows(U, step, b, N)
  <2> HIDE DEF N, b, X
  <2>1. QED
    BY <1>1, <1>2, FoldExists
<1>4. Flattened(U, ss)
  <2>1. ASSUME NEW n \in 1..N PROVE U[n] = U[n - 1] \o ss[n]
    <3>1. n - 1 \in 0..N
      BY <1>1
    <3>2. U[n] = step[n][U[n - 1]] /\ U[n - 1] \in X
      BY <1>3, <3>1 DEF Follows
    <3>3. QED
      BY <1>2, <3>2
  <2>2. QED
    BY <1>3, <2>1 DEF Follows, Flattened
<1>5. CASE N = 0
  <2>1. ss = <<>> /\ Seqs!FlattenSeq(ss) = ss
    BY <1>5 DEF Seqs!FlattenSeq
  <2>2. QED
    BY <1>3, <1>4, <1>5, <2>1 DEF Flattened
<1>6. CASE N # 0
  <2> DEFINE V == [i \in 1..N |-> U[i]]
             F == CHOOSE F : Flattening(F, ss)
  <2>1. \A i \in 1..N : V[i] = IF i = 1 THEN ss[i] ELSE V[i - 1] \o ss[i]
    <3>1. TAKE i \in 1..N
    <3>2. V[i] = U[i - 1] \o ss[i] /\ ss[i] \in X
      BY <1>1, <1>4 DEF Flattened
    <3>3. CASE i = 1
      <4>1. U[i - 1] = <<>>
        BY <1>4, <3>3 DEF Flattened
      <4>2. QED
        BY <3>2, <3>3, <4>1, ConcatEmptySeq
    <3>4. CASE i # 1
      <4>1. i - 1 \in 1..N
        BY <1>1, <3>4
      <4>2. V[i - 1] = U[i - 1]
        BY <4>1
      <4>3. QED
        BY <3>2, <3>4, <4>2
    <3>5. QED
      BY <3>3, <3>4
  <2>2. Flattening(V, ss)
    BY <2>1 DEF Flattening
  <2>3. Flattening(F, ss)
    BY <2>2
  <2>4. Seqs!FlattenSeq(ss) = F[N]
    BY <1>6 DEF Seqs!FlattenSeq, Flattening
  <2> HIDE DEF F, V
  <2> DEFINE T == {n \in 0..N : n # 0 => F[n] = U[n]}
  <2>5. 0 \in T
    BY <1>1
  <2>6. ASSUME NEW n \in 0..(N - 1), n \in T PROVE n + 1 \in T
    <3>1. n + 1 \in 1..N /\ n + 1 \in 0..N /\ (n + 1) - 1 = n /\ (n + 1 = 1 <=> n = 0)
      BY <1>1
    <3>2. F[n + 1] = IF n = 0 THEN ss[1] ELSE F[n] \o ss[n + 1]
      BY <2>3, <3>1 DEF Flattening
    <3>3. U[n + 1] = U[n] \o ss[n + 1] /\ ss[n + 1] \in X
      BY <1>1, <1>4, <3>1 DEF Flattened
    <3>4. n = 0 => U[n + 1] = ss[1]
      <4>1. U[0] = <<>>
        BY <1>4 DEF Flattened
      <4>2. <<>> \o ss[n + 1] = ss[n + 1]
        BY <3>3, ConcatEmptySeq
      <4>3. SUFFICES ASSUME n = 0 PROVE U[n + 1] = ss[1]
        OBVIOUS
      <4>4. U[n] = <<>> /\ n + 1 = 1
        BY <4>1, <4>3
      <4>5. U[n + 1] = ss[n + 1]
        BY <3>3, <4>2, <4>4
      <4>6. QED
        BY <4>4, <4>5
    <3>5. QED
      BY <2>6, <3>1, <3>2, <3>3, <3>4
  <2>7. N \in T
    <3> HIDE DEF T, N
    <3>1. \A n \in 0..N : n \in T
      BY <1>1, <2>5, <2>6, UpTo
    <3>2. QED
      BY <1>1, <3>1
  <2>8. QED
    BY <1>3, <1>4, <1>6, <2>4, <2>7
<1>7. QED
  BY <1>5, <1>6

(* One more list is joined at the end. *)
LEMMA FlattenAppend ==
  ASSUME NEW S, NEW ss \in Seq(Seq(S)), NEW x \in Seq(S)
  PROVE  /\ Seqs!FlattenSeq(ss) \in Seq(S)
         /\ Seqs!FlattenSeq(Append(ss, x)) = Seqs!FlattenSeq(ss) \o x
<1> DEFINE N == Len(ss)
           ts == Append(ss, x)
<1>1. /\ N \in Nat /\ ts \in Seq(Seq(S)) /\ Len(ts) = N + 1 /\ ts[N + 1] = x
      /\ \A n \in 1..N : ts[n] = ss[n]
  OBVIOUS
<1>2. PICK U \in [0..N -> Seq(S)] : Flattened(U, ss) /\ Seqs!FlattenSeq(ss) = U[N]
  BY FlattenIs
<1> HIDE DEF ts
<1>3. PICK V \in [0..(N + 1) -> Seq(S)] : Flattened(V, ts) /\ Seqs!FlattenSeq(ts) = V[N + 1]
  <2>1. \E V \in [0..Len(ts) -> Seq(S)] : Flattened(V, ts) /\ Seqs!FlattenSeq(ts) = V[Len(ts)]
    BY <1>1, FlattenIs
  <2>2. QED
    BY <1>1, <2>1
<1> DEFINE T == {n \in 0..N : U[n] = V[n]}
<1>4. 0 \in T
  BY <1>1, <1>2, <1>3 DEF Flattened
<1>5. ASSUME NEW n \in 0..(N - 1), n \in T PROVE n + 1 \in T
  <2>1. n + 1 \in 1..N /\ n + 1 \in 1..(N + 1) /\ (n + 1) - 1 = n
    BY <1>1
  <2>2. U[n + 1] = U[n] \o ss[n + 1] /\ V[n + 1] = V[n] \o ts[n + 1]
    BY <1>1, <1>2, <1>3, <2>1 DEF Flattened
  <2>3. U[n] = V[n] /\ ts[n + 1] = ss[n + 1]
    BY <1>1, <1>5, <2>1
  <2>4. U[n + 1] = V[n + 1]
    BY <2>2, <2>3
  <2>5. QED
    BY <2>1, <2>4
<1>6. N \in T
  <2> HIDE DEF T, N
  <2>1. \A n \in 0..N : n \in T
    BY <1>1, <1>4, <1>5, UpTo
  <2>2. QED
    BY <1>1, <2>1
<1>7. V[N + 1] = V[N] \o x
  <2>1. N + 1 \in 1..(N + 1) /\ (N + 1) - 1 = N
    BY <1>1
  <2>2. QED
    BY <1>1, <1>3, <2>1 DEF Flattened
<1>8. U[N] \in Seq(S)
  <2>1. N \in 0..N
    BY <1>1
  <2>2. QED
    BY <1>2, <2>1
<1>9. QED
  BY <1>2, <1>3, <1>6, <1>7, <1>8 DEF ts

(* No list, and one. *)
LEMMA FlattenFew ==
  ASSUME NEW S, NEW x \in Seq(S)
  PROVE  Seqs!FlattenSeq(<<>>) = <<>> /\ Seqs!FlattenSeq(<<x>>) = x
<1>1. Seqs!FlattenSeq(<<>>) = <<>>
  BY DEF Seqs!FlattenSeq
<1>2. <<>> \in Seq(Seq(S)) /\ Append(<<>>, x) = <<x>>
  OBVIOUS
<1>3. Seqs!FlattenSeq(Append(<<>>, x)) = <<>> \o x
  BY <1>1, <1>2, FlattenAppend
<1>4. QED
  BY <1>1, <1>2, <1>3, ConcatEmptySeq

(* All but the last of a list, and the last. *)
LEMMA FrontAndLast ==
  ASSUME NEW S, NEW s \in Seq(S)
  PROVE  /\ s # <<>> => /\ Seqs!Front(s) \in Seq(S) /\ Seqs!Last(s) \in S
                        /\ Len(Seqs!Front(s)) = Len(s) - 1
                        /\ s = Append(Seqs!Front(s), Seqs!Last(s))
         /\ \A x \in S : Seqs!Front(Append(s, x)) = s /\ Seqs!Last(Append(s, x)) = x
<1>1. Len(s) \in Nat
  OBVIOUS
<1>2. ASSUME s # <<>>
      PROVE  /\ Seqs!Front(s) \in Seq(S) /\ Seqs!Last(s) \in S
             /\ Len(Seqs!Front(s)) = Len(s) - 1
             /\ s = Append(Seqs!Front(s), Seqs!Last(s))
  <2> DEFINE f == SubSeq(s, 1, Len(s) - 1)
  <2>1. Len(s) \in 1..Len(s) /\ Len(s) # 0 /\ Len(s) - 1 \in Nat
    BY <1>1, <1>2
  <2>2. f \in Seq(S) /\ Len(f) = Len(s) - 1 /\ \A i \in 1..(Len(s) - 1) : f[i] = s[i]
    <3> DEFINE k == Len(s) - 1
    <3>1. k \in Nat /\ \A i \in 1..k : s[i] \in S
      BY <2>1
    <3>2. f = SubSeq(s, 1, k)
      OBVIOUS
    <3> HIDE DEF k, f
    <3>3. /\ f \in Seq(S) /\ Len(f) = IF 1 <= k THEN k - 1 + 1 ELSE 0
          /\ \A i \in 1..(k - 1 + 1) : f[i] = s[1 + i - 1]
      BY <3>1, <3>2, SubSeqProperties
    <3>4. f \in Seq(S) /\ Len(f) = k /\ \A i \in 1..k : f[i] = s[i]
      BY <3>1, <3>3
    <3>5. QED
      BY <3>4 DEF k
  <2> HIDE DEF f
  <2>3. s[Len(s)] \in S
    BY <2>1
  <2>4. s = Append(f, s[Len(s)])
    BY <2>1, <2>2, <2>3
  <2>5. QED
    BY <2>2, <2>3, <2>4 DEF Seqs!Front, Seqs!Last, f
<1>3. ASSUME NEW x \in S
      PROVE  Seqs!Front(Append(s, x)) = s /\ Seqs!Last(Append(s, x)) = x
  BY <1>1 DEF Seqs!Front, Seqs!Last
<1>4. QED
  BY <1>2, <1>3

-----------------------------------------------------------------------------
(* Lines.  With a newline after each, the lines cut so far are the text     *)
(* that was read and a newline.                                             *)
Rejoined(lines) == Seqs!FlattenSeq([i \in DOMAIN lines |-> Append(lines[i], NL)])

LEMMA RejoinedAppend ==
  ASSUME NEW ls \in Seq(Seq(Int)), NEW l \in Seq(Int)
  PROVE  /\ Rejoined(ls) \in Seq(Int)
         /\ Rejoined(Append(ls, l)) = Rejoined(ls) \o Append(l, NL)
         /\ Rejoined(<<>>) = <<>>
<1> DEFINE E(x) == [i \in DOMAIN x |-> Append(x[i], NL)]
<1>1. NL \in Int /\ Len(ls) \in Nat
  BY DEF NL
<1>2. E(ls) \in Seq(Seq(Int)) /\ Append(l, NL) \in Seq(Int)
  <2>1. DOMAIN ls = 1..Len(ls) /\ \A i \in 1..Len(ls) : ls[i] \in Seq(Int)
    OBVIOUS
  <2>2. \A x \in Seq(Int) : Append(x, NL) \in Seq(Int)
    BY <1>1
  <2>3. \A i \in 1..Len(ls) : Append(ls[i], NL) \in Seq(Int)
    BY <2>1, <2>2
  <2>4. [i \in 1..Len(ls) |-> Append(ls[i], NL)] \in Seq(Seq(Int))
    BY <1>1, <2>3, IsASeq
  <2>5. QED
    BY <2>1, <2>2, <2>4
<1>3. E(Append(ls, l)) = Append(E(ls), Append(l, NL))
  <2> DEFINE a == E(Append(ls, l))
             b == Append(E(ls), Append(l, NL))
  <2>1. a \in Seq(Seq(Int)) /\ b \in Seq(Seq(Int)) /\ Len(a) = Len(ls) + 1 /\ Len(b) = Len(ls) + 1
    BY <1>1, <1>2
  <2>2. ASSUME NEW i \in 1..(Len(ls) + 1) PROVE a[i] = b[i]
    <3>1. CASE i = Len(ls) + 1
      BY <1>1, <1>2, <3>1
    <3>2. CASE i # Len(ls) + 1
      <4>1. i \in 1..Len(ls)
        BY <1>1, <3>2
      <4>2. QED
        BY <1>1, <1>2, <4>1
    <3>3. QED
      BY <3>1, <3>2
  <2> HIDE DEF a, b
  <2>3. a = b
    BY <2>1, <2>2, SeqEqual
  <2>4. QED
    BY <2>3 DEF a, b
<1>4. E(<<>>) = <<>>
  OBVIOUS
<1> HIDE DEF E
<1>5. /\ Rejoined(ls) = Seqs!FlattenSeq(E(ls)) /\ Rejoined(<<>>) = Seqs!FlattenSeq(E(<<>>))
      /\ Rejoined(Append(ls, l)) = Seqs!FlattenSeq(E(Append(ls, l)))
  BY DEF Rejoined, E
<1>6. /\ Seqs!FlattenSeq(E(ls)) \in Seq(Int)
      /\ Seqs!FlattenSeq(Append(E(ls), Append(l, NL))) = Seqs!FlattenSeq(E(ls)) \o Append(l, NL)
  BY <1>2, FlattenAppend
<1>7. Seqs!FlattenSeq(<<>>) = <<>>
  BY FlattenFew
<1>8. Rejoined(ls) \in Seq(Int) /\ Rejoined(<<>>) = <<>>
  BY <1>4, <1>5, <1>6, <1>7
<1>9. Rejoined(Append(ls, l)) = Rejoined(ls) \o Append(l, NL)
  BY <1>3, <1>5, <1>6
<1>10. QED
  BY <1>8, <1>9

NoBreak(l) == \A j \in 1..Len(l) : l[j] # NL

(* The lines cut out of the first n characters. *)
Cut(ls, text, n) ==
  /\ ls \in Seq(Seq(Int)) /\ ls # <<>>
  /\ Rejoined(ls) = Append(SubSeq(text, 1, n), NL)
  /\ \A i \in 1..Len(ls) : NoBreak(ls[i])

Splitting(U, text) ==
  U = [n \in 0..Len(text) |->
         IF n = 0 THEN << <<>> >>
         ELSE IF text[n] = NL THEN Append(U[n - 1], <<>>)
         ELSE Append(Seqs!Front(U[n - 1]), Append(Seqs!Last(U[n - 1]), text[n]))]

(* The lines of each beginning of a text are defined. *)
LEMMA SplittingExists ==
  ASSUME NEW text \in Seq(Int)
  PROVE  \E U : Splitting(U, text)
<1> DEFINE N == Len(text)
           X == Seq(Seq(Int)) \ {<<>>}
           b == << <<>> >>
           step == [n \in 1..N |-> [x \in X |->
                      IF text[n] = NL THEN Append(x, <<>>)
                      ELSE Append(Seqs!Front(x), Append(Seqs!Last(x), text[n]))]]
<1>1. N \in Nat /\ b \in X
  OBVIOUS
<1>2. ASSUME NEW n \in 1..N, NEW x \in X
      PROVE  (IF text[n] = NL THEN Append(x, <<>>)
              ELSE Append(Seqs!Front(x), Append(Seqs!Last(x), text[n]))) \in X
  <2>1. Seqs!Front(x) \in Seq(Seq(Int)) /\ Seqs!Last(x) \in Seq(Int)
    BY FrontAndLast
  <2>2. text[n] \in Int /\ <<>> \in Seq(Int)
    OBVIOUS
  <2>3. Append(Seqs!Last(x), text[n]) \in Seq(Int)
    BY <2>1, <2>2
  <2>4. ASSUME NEW y \in Seq(Seq(Int)), NEW l \in Seq(Int) PROVE Append(y, l) \in X
    <3>1. Append(y, l) \in Seq(Seq(Int)) /\ Len(Append(y, l)) = Len(y) + 1 /\ Len(y) \in Nat
      OBVIOUS
    <3>2. Len(Append(y, l)) # 0 /\ Len(<<>>) = 0
      BY <3>1
    <3>3. QED
      BY <3>1, <3>2
  <2> HIDE DEF X
  <2>5. x \in Seq(Seq(Int))
    BY DEF X
  <2>6. QED
    BY <2>1, <2>2, <2>3, <2>4, <2>5
<1>3. step \in [1..N -> [X -> X]]
  <2> HIDE DEF X, N
  <2>1. QED
    BY <1>2
<1>4. \A n \in 1..N, x \in X :
        step[n][x] = IF text[n] = NL THEN Append(x, <<>>)
                     ELSE Append(Seqs!Front(x), Append(Seqs!Last(x), text[n]))
  <2> HIDE DEF X, N
  <2>1. QED
    OBVIOUS
<1> HIDE DEF step, X
<1>5. PICK U \in [0..N -> X] : Follows(U, step, b, N)
  <2> HIDE DEF N, b
  <2>1. QED
    BY <1>1, <1>3, FoldExists
<1>6. ASSUME NEW n \in 0..N
      PROVE  U[n] = IF n = 0 THEN << <<>> >>
                    ELSE IF text[n] = NL THEN Append(U[n - 1], <<>>)
                    ELSE Append(Seqs!Front(U[n - 1]), Append(Seqs!Last(U[n - 1]), text[n]))
  <2>1. CASE n = 0
    BY <1>5, <2>1 DEF Follows
  <2>2. CASE n # 0
    <3>1. n \in 1..N /\ n - 1 \in 0..N /\ U[n - 1] \in X
      BY <1>1, <2>2
    <3>2. U[n] = step[n][U[n - 1]]
      BY <1>5, <2>2, <3>1 DEF Follows
    <3>3. QED
      BY <1>4, <2>2, <3>1, <3>2
  <2>3. QED
    BY <2>1, <2>2
<1>7. Splitting(U, text)
  <2>1. U = [n \in 0..N |-> U[n]]
    OBVIOUS
  <2>2. QED
    BY <1>6, <2>1 DEF Splitting
<1>8. QED
  BY <1>7

(* A value after what was joined is a value after its last part. *)
LEMMA AppendMore ==
  ASSUME NEW S, NEW s \in Seq(S), NEW t \in Seq(S), NEW x \in S
  PROVE  s \o Append(t, x) = Append(s \o t, x) /\ s \o <<x>> = Append(s, x)
<1>1. Len(s) \in Nat /\ Len(t) \in Nat /\ s \o t \in Seq(S) /\ Len(s \o t) = Len(s) + Len(t)
  OBVIOUS
<1>2. s \o Append(t, x) = Append(s \o t, x)
  <2>1. /\ Append(t, x) = t \o <<x>> /\ <<x>> \in Seq(S)
        /\ Append(s \o t, x) = (s \o t) \o <<x>>
    BY <1>1
  <2>2. (s \o t) \o <<x>> = s \o (t \o <<x>>)
    BY <2>1, ConcatAssociative
  <2>3. QED
    BY <2>1, <2>2
<1>3. s \o <<x>> = Append(s, x)
  OBVIOUS
<1>4. QED
  BY <1>2, <1>3

(* The same, of texts. *)
LEMMA IntAppend ==
  \A R, t \in Seq(Int), x \in Int : R \o Append(t, x) = Append(R \o t, x)
<1> TAKE R, t \in Seq(Int), x \in Int
<1>1. QED
  BY AppendMore

(* A beginning of a list, and the next value. *)
LEMMA OneElementMore ==
  ASSUME NEW S, NEW s \in Seq(S), NEW n \in 0..(Len(s) - 1)
  PROVE  SubSeq(s, 1, n + 1) = Append(SubSeq(s, 1, n), s[n + 1])
<1>1. Len(s) \in Nat
  OBVIOUS
<1> DEFINE a == SubSeq(s, 1, n + 1)
           b == SubSeq(s, 1, n)
<1>2. n \in Nat /\ n + 1 \in Nat /\ \A i \in 1..(n + 1) : s[i] \in S
  BY <1>1
<1>3. /\ a \in Seq(S) /\ Len(a) = IF 1 <= n + 1 THEN n + 1 - 1 + 1 ELSE 0
      /\ \A i \in 1..(n + 1 - 1 + 1) : a[i] = s[1 + i - 1]
  <2>1. \A i \in 1..(n + 1) : s[i] \in S
    BY <1>2
  <2> DEFINE m == n + 1
  <2> HIDE DEF m
  <2>2. m \in Int /\ \A i \in 1..m : s[i] \in S
    BY <1>2 DEF m
  <2>3. /\ SubSeq(s, 1, m) \in Seq(S) /\ Len(SubSeq(s, 1, m)) = IF 1 <= m THEN m - 1 + 1 ELSE 0
        /\ \A i \in 1..(m - 1 + 1) : SubSeq(s, 1, m)[i] = s[1 + i - 1]
    BY <2>2, SubSeqProperties
  <2>4. QED
    BY <2>3 DEF m
<1>4. /\ b \in Seq(S) /\ Len(b) = IF 1 <= n THEN n - 1 + 1 ELSE 0
      /\ \A i \in 1..(n - 1 + 1) : b[i] = s[1 + i - 1]
  BY <1>2, SubSeqProperties
<1> HIDE DEF a, b
<1>5. Len(a) = n + 1 /\ Len(b) = n /\ (\A i \in 1..(n + 1) : a[i] = s[i]) /\ \A i \in 1..n : b[i] = s[i]
  BY <1>2, <1>3, <1>4
<1>6. s[n + 1] \in S
  BY <1>2
<1> DEFINE c == Append(b, s[n + 1])
<1>7. /\ c \in Seq(S) /\ Len(c) = n + 1 /\ c[n + 1] = s[n + 1] /\ \A i \in 1..n : c[i] = b[i]
  BY <1>2, <1>4, <1>5, <1>6
<1> HIDE DEF c
<1>8. ASSUME NEW i \in 1..(n + 1) PROVE a[i] = c[i]
  <2>1. i = n + 1 \/ i \in 1..n
    BY <1>2
  <2>2. QED
    BY <1>2, <1>5, <1>7, <2>1
<1>9. a = c
  BY <1>3, <1>5, <1>7, <1>8, SeqEqual
<1>10. QED
  BY <1>9 DEF a, b, c

(* Reading one more byte keeps the lines a cut of what was read. *)
LEMMA CutNext ==
  ASSUME NEW text \in Seq(Int), NEW n \in 0..(Len(text) - 1), NEW ls, Cut(ls, text, n)
  PROVE  Cut(IF text[n + 1] = NL THEN Append(ls, <<>>)
             ELSE Append(Seqs!Front(ls), Append(Seqs!Last(ls), text[n + 1])), text, n + 1)
<1> DEFINE c == text[n + 1]
           t == SubSeq(text, 1, n)
           f == Seqs!Front(ls)
           l == Seqs!Last(ls)
<1>1. c \in Int /\ NL \in Int /\ n \in Nat /\ Len(text) \in Nat
  BY DEF NL
<1>2. /\ ls \in Seq(Seq(Int)) /\ ls # <<>> /\ Len(ls) \in Nat
      /\ Rejoined(ls) = Append(t, NL)
      /\ \A i \in 1..Len(ls) : NoBreak(ls[i])
  BY DEF Cut
<1>3. t \in Seq(Int)
  <2>1. \A i \in 1..n : text[i] \in Int
    BY <1>1
  <2>2. QED
    BY <1>1, <2>1, SubSeqProperties
<1>4. SubSeq(text, 1, n + 1) = Append(t, c)
  BY OneElementMore
<1>5. /\ f \in Seq(Seq(Int)) /\ l \in Seq(Int) /\ Len(f) = Len(ls) - 1 /\ ls = Append(f, l)
  BY <1>2, FrontAndLast
<1> HIDE DEF c, t, f, l
<1>6. CASE c = NL
  <2> DEFINE m == Append(ls, <<>>)
  <2>1. /\ m \in Seq(Seq(Int)) /\ Len(m) = Len(ls) + 1 /\ m[Len(ls) + 1] = <<>>
        /\ \A i \in 1..Len(ls) : m[i] = ls[i]
    BY <1>2
  <2>2. Rejoined(m) = Rejoined(ls) \o Append(<<>>, NL)
    <3>1. <<>> \in Seq(Int)
      OBVIOUS
    <3>2. QED
      BY <1>2, <3>1, RejoinedAppend
  <2>3. Append(<<>>, NL) = <<NL>> /\ Append(t, NL) \in Seq(Int)
    BY <1>1, <1>3
  <2>4. Rejoined(m) = Append(Append(t, NL), NL)
    BY <1>1, <1>2, <2>2, <2>3, AppendMore
  <2>5. \A i \in 1..Len(m) : NoBreak(m[i])
    <3>1. NoBreak(<<>>)
      BY DEF NoBreak
    <3>2. ASSUME NEW i \in 1..Len(m) PROVE i = Len(ls) + 1 \/ i \in 1..Len(ls)
      BY <1>2, <2>1
    <3> HIDE DEF m
    <3>3. QED
      BY <1>2, <2>1, <3>1, <3>2
  <2>6. m # <<>>
    <3>1. Len(m) # 0 /\ Len(<<>>) = 0
      BY <1>2, <2>1
    <3>2. QED
      BY <3>1
  <2>7. QED
    BY <1>4, <1>6, <2>1, <2>4, <2>5, <2>6 DEF Cut, c
<1>7. CASE c # NL
  <2> DEFINE k == Append(l, c)
             m == Append(f, k)
  <2>1. k \in Seq(Int) /\ m \in Seq(Seq(Int)) /\ Len(m) = Len(f) + 1 /\ Len(f) \in Nat /\ m[Len(f) + 1] = k
        /\ \A i \in 1..Len(f) : m[i] = f[i] /\ ls[i] = f[i]
    BY <1>1, <1>5
  <2>2. ls[Len(f) + 1] = l /\ Len(ls) = Len(f) + 1
    BY <1>2, <1>5, <2>1
  <2> HIDE DEF m, k
  <2>3. /\ Rejoined(f) \in Seq(Int) /\ Rejoined(m) = Rejoined(f) \o Append(k, NL)
        /\ Rejoined(ls) = Rejoined(f) \o Append(l, NL)
    BY <1>5, <2>1, RejoinedAppend DEF m
  <2>4. Rejoined(f) \o l \in Seq(Int) /\ Rejoined(f) \o k \in Seq(Int)
    BY <1>5, <2>1, <2>3
  <2>5. Append(Rejoined(f) \o l, NL) = Append(t, NL)
    <3>1. \A R \in Seq(Int) : R \o Append(l, NL) = Append(R \o l, NL)
      BY <1>1, <1>5, IntAppend
    <3>2. Rejoined(f) \o Append(l, NL) = Append(Rejoined(f) \o l, NL)
      BY <2>3, <3>1
    <3>3. QED
      BY <1>2, <2>3, <3>2
  <2>6. Rejoined(f) \o l = t
    <3>1. /\ Seqs!Front(Append(Rejoined(f) \o l, NL)) = Rejoined(f) \o l
          /\ Seqs!Front(Append(t, NL)) = t
      BY <1>1, <1>3, <2>4, FrontAndLast
    <3>2. QED
      BY <2>5, <3>1
  <2>7. Rejoined(m) = Append(Append(t, c), NL)
    <3>1. \A R \in Seq(Int) : R \o Append(k, NL) = Append(R \o k, NL)
      BY <1>1, <2>1, IntAppend
    <3>2. \A R \in Seq(Int) : R \o k = Append(R \o l, c)
      BY <1>1, <1>5, IntAppend DEF k
    <3>3. Rejoined(f) \o Append(k, NL) = Append(Rejoined(f) \o k, NL)
      BY <2>3, <3>1
    <3>4. Rejoined(f) \o k = Append(Rejoined(f) \o l, c)
      BY <2>3, <3>2
    <3>5. QED
      BY <2>3, <2>6, <3>3, <3>4
  <2>8. NoBreak(k)
    <3>1. NoBreak(l)
      BY <1>2, <2>1, <2>2
    <3>2. Len(k) = Len(l) + 1 /\ Len(l) \in Nat /\ k[Len(l) + 1] = c /\ \A j \in 1..Len(l) : k[j] = l[j]
      BY <1>1, <1>5 DEF k
    <3>3. ASSUME NEW j \in 1..Len(k) PROVE k[j] # NL
      <4>1. j = Len(l) + 1 \/ j \in 1..Len(l)
        BY <3>2
      <4>2. QED
        BY <1>7, <3>1, <3>2, <4>1 DEF NoBreak
    <3>4. QED
      BY <3>3 DEF NoBreak
  <2>9. \A i \in 1..Len(m) : NoBreak(m[i])
    <3>1. ASSUME NEW i \in 1..Len(m) PROVE i = Len(f) + 1 \/ i \in 1..Len(f)
      BY <2>1
    <3>2. \A i \in 1..Len(f) : i \in 1..Len(ls)
      BY <2>1, <2>2
    <3>3. QED
      BY <1>2, <2>1, <2>8, <3>1, <3>2
  <2>10. m # <<>>
    <3>1. Len(m) # 0 /\ Len(<<>>) = 0
      BY <2>1
    <3>2. QED
      BY <3>1
  <2>11. QED
    BY <1>4, <1>7, <2>1, <2>7, <2>9, <2>10 DEF Cut, c, m, k, f, l
<1>8. QED
  BY <1>6, <1>7

(* A function on 1..n is a list of n values, and what one more value makes *)
(* of a list.                                                              *)
LEMMA ListFrom ==
  ASSUME NEW S, NEW n \in Nat, NEW f \in [1..n -> S]
  PROVE  f \in Seq(S) /\ Len(f) = n
OBVIOUS

LEMMA AppendFacts ==
  ASSUME NEW S, NEW s \in Seq(S), NEW x \in S
  PROVE  /\ Append(s, x) \in Seq(S) /\ Len(Append(s, x)) = Len(s) + 1
         /\ Append(s, x)[Len(s) + 1] = x
         /\ \A i \in 1..Len(s) : Append(s, x)[i] = s[i]
OBVIOUS

(* A value after a list of one. *)
LEMMA PairIsAppend ==
  ASSUME NEW S, NEW a \in S, NEW b \in S
  PROVE  <<a>> \in Seq(S) /\ Append(<<a>>, b) = <<a, b>>
<1> DEFINE w == Append(<<a>>, b)
           p == <<a, b>>
<1>1. <<a>> \in Seq(S) /\ Len(<<a>>) = 1 /\ <<a>>[1] = a
  OBVIOUS
<1>2. w \in Seq(S) /\ Len(w) = 2 /\ w[1] = a /\ w[2] = b
  <2> HIDE DEF w
  <2>1. 1 \in 1..1 /\ 1 + 1 = 2
    OBVIOUS
  <2>2. QED
    BY <1>1, <2>1, AppendFacts DEF w
<1>3. p \in Seq(S) /\ Len(p) = 2 /\ p[1] = a /\ p[2] = b
  OBVIOUS
<1> HIDE DEF w, p
<1>4. \A i \in 1..2 : w[i] = p[i]
  BY <1>2, <1>3
<1>5. w = p
  BY <1>2, <1>3, <1>4, SeqEqual
<1>6. QED
  BY <1>1, <1>5 DEF w, p

(* A break is no empty text. *)
LEMMA BreaksAreNotEmpty == \A b \in Breaks : b # <<>>
<1>1. \A x, y : <<x>> # <<>> /\ <<x, y>> # <<>>
  OBVIOUS
<1>2. \A b \in Breaks : b = <<NL>> \/ b = <<CR, NL>>
  BY Zenon DEF Breaks
<1>3. QED
  BY <1>1, <1>2

(* The break that text.lines() takes off a line. *)
BreakOf(line) == IF EndsInCR(line) THEN <<CR, NL>> ELSE <<NL>>

LEMMA BrokenLine ==
  ASSUME NEW line \in Seq(Int), NoBreak(line)
  PROVE  /\ WithoutCR(line) \in Seq(Int) /\ NoBreak(WithoutCR(line))
         /\ BreakOf(line) \in Breaks
         /\ WithoutCR(line) \o BreakOf(line) = Append(line, NL)
         /\ BreakOf(line) = <<NL>> => ~EndsInCR(WithoutCR(line))
<1>1. CR \in Int /\ NL \in Int /\ <<CR, NL>> # <<NL>> /\ Len(line) \in Nat
  BY DEF CR, NL
<1>2. CASE EndsInCR(line)
  <2> DEFINE w == Seqs!Front(line)
  <2>1. w \in Seq(Int) /\ line = Append(w, CR) /\ Len(w) = Len(line) - 1
    BY <1>2, FrontAndLast DEF EndsInCR
  <2>2. WithoutCR(line) = w /\ BreakOf(line) = <<CR, NL>>
    BY <1>2 DEF WithoutCR, BreakOf
  <2> HIDE DEF w
  <2>3. w \o <<CR, NL>> = Append(line, NL)
    <3>1. <<CR>> \in Seq(Int) /\ Append(<<CR>>, NL) = <<CR, NL>>
      BY <1>1, PairIsAppend
    <3>2. w \o Append(<<CR>>, NL) = Append(w \o <<CR>>, NL) /\ w \o <<CR>> = Append(w, CR)
      BY <1>1, <2>1, <3>1, AppendMore
    <3>3. QED
      BY <2>1, <3>1, <3>2
  <2>4. NoBreak(w)
    <3>1. ASSUME NEW j \in 1..Len(w) PROVE j \in 1..Len(line) /\ line[j] = w[j]
      BY <1>1, <2>1
    <3>2. QED
      BY <3>1 DEF NoBreak
  <2>5. QED
    BY <1>1, <2>1, <2>2, <2>3, <2>4 DEF Breaks
<1>3. CASE ~EndsInCR(line)
  <2>1. WithoutCR(line) = line /\ BreakOf(line) = <<NL>>
    BY <1>3 DEF WithoutCR, BreakOf
  <2>2. line \o <<NL>> = Append(line, NL)
    BY <1>1
  <2>3. QED
    BY <1>3, <2>1, <2>2 DEF Breaks
<1>4. QED
  BY <1>2, <1>3

(* The lines of a text are lines of that text. *)
LEMMA LinesAre ==
  ASSUME NEW text \in Seq(Int)
  PROVE  Lines(text) \in Seq(Seq(Int)) /\ AreLinesOf(Lines(text), text)
<1> DEFINE N == Len(text)
           g == CHOOSE U : Splitting(U, text)
           T == {n \in 0..N : Cut(g[n], text, n)}
           all == g[N]
<1>1. LinesAndRest(text) = all
  BY DEF LinesAndRest, Splitting
<1>2. Splitting(g, text) /\ N \in Nat
  BY SplittingExists
<1> HIDE DEF g
<1>3. 0 \in T
  <2>1. g[0] = << <<>> >> /\ 0 \in 0..N
    BY <1>2 DEF Splitting
  <2>2. NL \in Int /\ <<>> \in Seq(Int) /\ <<>> \in Seq(Seq(Int)) /\ Append(<<>>, <<>>) = << <<>> >>
    BY DEF NL
  <2>3. Rejoined(<< <<>> >>) = Rejoined(<<>>) \o Append(<<>>, NL) /\ Rejoined(<<>>) = <<>>
    BY <2>2, RejoinedAppend
  <2>4. Append(<<>>, NL) = <<NL>> /\ <<NL>> \in Seq(Int)
    BY <2>2
  <2>5. Rejoined(<< <<>> >>) = Append(<<>>, NL)
    BY <2>3, <2>4, ConcatEmptySeq
  <2>6. SubSeq(text, 1, 0) = <<>>
    BY SubSeqEmpty
  <2>7. \A i \in 1..Len(<< <<>> >>) : NoBreak(<< <<>> >>[i])
    BY DEF NoBreak
  <2>8. << <<>> >> \in Seq(Seq(Int)) /\ << <<>> >> # <<>>
    BY <2>2
  <2>9. Cut(<< <<>> >>, text, 0)
    BY <2>5, <2>6, <2>7, <2>8 DEF Cut
  <2>10. QED
    BY <2>1, <2>9
<1>4. ASSUME NEW n \in 0..(N - 1), n \in T PROVE n + 1 \in T
  <2>1. n + 1 \in 0..N /\ n + 1 # 0 /\ (n + 1) - 1 = n /\ Cut(g[n], text, n)
    BY <1>2, <1>4
  <2>2. g[n + 1] = IF text[n + 1] = NL THEN Append(g[n], <<>>)
                   ELSE Append(Seqs!Front(g[n]), Append(Seqs!Last(g[n]), text[n + 1]))
    BY <1>2, <2>1 DEF Splitting
  <2>3. Cut(IF text[n + 1] = NL THEN Append(g[n], <<>>)
            ELSE Append(Seqs!Front(g[n]), Append(Seqs!Last(g[n]), text[n + 1])), text, n + 1)
    BY <2>1, CutNext
  <2>4. QED
    BY <2>1, <2>2, <2>3
<1>5. Cut(all, text, N)
  <2> HIDE DEF T, N
  <2>1. \A n \in 0..N : n \in T
    BY <1>2, <1>3, <1>4, UpTo
  <2>2. N \in 0..N
    BY <1>2
  <2>3. QED
    BY <2>1, <2>2 DEF T
<1> HIDE DEF all
<1>6. Rejoined(all) = Append(text, NL) /\ all \in Seq(Seq(Int)) /\ all # <<>>
      /\ \A i \in 1..Len(all) : NoBreak(all[i])
  BY <1>5, SubSeqFull DEF Cut
<1> DEFINE f == Seqs!Front(all)
           l == Seqs!Last(all)
<1>7. f \in Seq(Seq(Int)) /\ l \in Seq(Int) /\ Len(f) = Len(all) - 1 /\ all = Append(f, l)
  BY <1>6, FrontAndLast
<1> DEFINE m == Len(f)
           ended == [i \in 1..m |-> WithoutCR(f[i])]
           pieces == [i \in 1..m |-> Append(f[i], NL)]
<1>8. Lines(text) = IF l = <<>> THEN ended ELSE Append(ended, l)
  <2>1. DOMAIN f = 1..m
    BY <1>7
  <2>2. QED
    BY <1>1, <2>1 DEF Lines
<1> HIDE DEF f, l
<1>9. /\ m \in Nat /\ NoBreak(l)
      /\ \A i \in 1..m : f[i] \in Seq(Int) /\ NoBreak(f[i])
  <2>1. Len(all) = m + 1 /\ m \in Nat /\ all[m + 1] = l /\ \A i \in 1..m : all[i] = f[i]
    BY <1>7
  <2>2. \A i \in 1..m : i \in 1..Len(all)
    BY <2>1
  <2>3. m + 1 \in 1..Len(all)
    BY <2>1
  <2>4. QED
    BY <1>6, <1>7, <2>1, <2>2, <2>3
<1>10. ASSUME NEW i \in 1..m
       PROVE  /\ ended[i] \in Seq(Int) /\ NoBreak(ended[i])
              /\ BreakOf(f[i]) \in Breaks /\ ended[i] \o BreakOf(f[i]) = pieces[i]
              /\ BreakOf(f[i]) = <<NL>> => ~EndsInCR(ended[i])
  BY <1>9, BrokenLine
<1>11. /\ ended \in Seq(Seq(Int)) /\ Len(ended) = m
       /\ pieces \in Seq(Seq(Int)) /\ Len(pieces) = m
  <2>1. \A i \in 1..m : Append(f[i], NL) \in Seq(Int)
    BY <1>9 DEF NL
  <2>2. ended \in [1..m -> Seq(Int)] /\ pieces \in [1..m -> Seq(Int)]
    <3> HIDE DEF m
    <3>1. \A i \in 1..m : WithoutCR(f[i]) \in Seq(Int)
      BY <1>10
    <3>2. QED
      BY <2>1, <3>1
  <2> HIDE DEF ended, pieces, m
  <2>3. QED
    BY <1>9, <2>2, ListFrom
<1>12. Seqs!FlattenSeq(pieces) = Rejoined(f) /\ Rejoined(f) \o l = text
  <2>1. pieces = [i \in DOMAIN f |-> Append(f[i], NL)]
    BY <1>7
  <2>2. Rejoined(f) \in Seq(Int) /\ Rejoined(all) = Rejoined(f) \o Append(l, NL) /\ NL \in Int
    BY <1>7, RejoinedAppend DEF NL
  <2>3. Rejoined(f) \o Append(l, NL) = Append(Rejoined(f) \o l, NL) /\ Rejoined(f) \o l \in Seq(Int)
    BY <1>7, <2>2, AppendMore
  <2>4. Append(Rejoined(f) \o l, NL) = Append(text, NL)
    BY <1>6, <2>2, <2>3
  <2>5. \A x \in Seq(Int) : Seqs!Front(Append(x, NL)) = x
    BY <2>2, FrontAndLast
  <2>6. QED
    BY <2>1, <2>3, <2>4, <2>5 DEF Rejoined
<1> HIDE DEF ended, pieces, m
<1>13. ASSUME NEW ls \in Seq(Seq(Int)), NEW breaks \in [1..Len(ls) -> Breaks \cup {<<>>}],
              \A i \in 1..Len(ls) : NoBreak(ls[i]),
              Seqs!FlattenSeq([i \in 1..Len(ls) |-> ls[i] \o breaks[i]]) = text,
              \A i \in 1..Len(ls) :
                /\ breaks[i] = <<NL>> => ~EndsInCR(ls[i])
                /\ breaks[i] = <<>> => i = Len(ls) /\ ls[i] # <<>>
       PROVE  AreLinesOf(ls, text)
  <2>1. DOMAIN ls = 1..Len(ls) /\ \A i \in 1..Len(ls) : DOMAIN ls[i] = 1..Len(ls[i])
    OBVIOUS
  <2>2. \A i \in DOMAIN ls : \A j \in DOMAIN ls[i] : ls[i][j] # NL
    BY <1>13, <2>1 DEF NoBreak
  <2>3. QED
    BY <1>13, <2>1, <2>2 DEF AreLinesOf
<1>14. CASE l = <<>>
  <2> DEFINE breaks == [i \in 1..m |-> BreakOf(f[i])]
  <2>1. breaks \in [1..m -> Breaks \cup {<<>>}] /\ \A i \in 1..m : breaks[i] = BreakOf(f[i])
    BY <1>10
  <2>2. [i \in 1..m |-> ended[i] \o breaks[i]] = pieces
    <3>1. \A i \in 1..m : ended[i] \o breaks[i] = pieces[i]
      BY <1>10, <2>1
    <3>2. pieces = [i \in 1..m |-> pieces[i]]
      BY DEF pieces
    <3>3. QED
      BY <3>1, <3>2
  <2>3. Rejoined(f) = text
    <3>1. Rejoined(f) \in Seq(Int)
      BY <1>7, RejoinedAppend
    <3>2. QED
      BY <1>12, <1>14, <3>1, ConcatEmptySeq
  <2>4. \A i \in 1..m : breaks[i] # <<>>
    BY <1>10, <2>1, BreaksAreNotEmpty
  <2> HIDE DEF breaks
  <2>5. AreLinesOf(ended, text)
    BY <1>10, <1>11, <1>12, <1>13, <2>1, <2>2, <2>3, <2>4
  <2>6. QED
    BY <1>8, <1>11, <1>14, <2>5
<1>15. CASE l # <<>>
  <2> DEFINE ls == Append(ended, l)
             breaks == [i \in 1..(m + 1) |-> IF i = m + 1 THEN <<>> ELSE BreakOf(f[i])]
             broken == [i \in 1..(m + 1) |-> ls[i] \o breaks[i]]
  <2>1. /\ ls \in Seq(Seq(Int)) /\ Len(ls) = m + 1 /\ ls[m + 1] = l
        /\ \A i \in 1..m : ls[i] = ended[i]
    BY <1>7, <1>11, AppendFacts
  <2>2. \A i \in 1..(m + 1) : i = m + 1 \/ i \in 1..m
    BY <1>9
  <2>3. /\ breaks \in [1..(m + 1) -> Breaks \cup {<<>>}] /\ breaks[m + 1] = <<>>
        /\ \A i \in 1..m : breaks[i] = BreakOf(f[i])
    <3>1. m + 1 \in 1..(m + 1) /\ \A i \in 1..m : i \in 1..(m + 1) /\ i # m + 1
      BY <1>9
    <3>2. QED
      BY <1>10, <2>2, <3>1
  <2>4. \A i \in 1..(m + 1) : broken[i] = IF i = m + 1 THEN l ELSE pieces[i]
    <3>1. l \o <<>> = l
      BY <1>7, ConcatEmptySeq
    <3>2. QED
      BY <1>10, <2>1, <2>2, <2>3, <3>1
  <2>5. broken = Append(pieces, l)
    <3> DEFINE want == Append(pieces, l)
    <3>1. /\ want \in Seq(Seq(Int)) /\ Len(want) = m + 1
          /\ \A i \in 1..(m + 1) : want[i] = IF i = m + 1 THEN l ELSE pieces[i]
      <4>1. /\ want \in Seq(Seq(Int)) /\ Len(want) = m + 1 /\ want[m + 1] = l
            /\ \A i \in 1..m : want[i] = pieces[i]
        BY <1>7, <1>11, AppendFacts
      <4> HIDE DEF want
      <4>2. QED
        BY <1>9, <2>2, <4>1
    <3> HIDE DEF want
    <3>3. broken = [i \in 1..(m + 1) |-> want[i]]
      BY <2>4, <3>1
    <3> HIDE DEF broken
    <3>4. want = [i \in 1..(m + 1) |-> want[i]]
      BY <3>1
    <3>5. QED
      BY <3>3, <3>4 DEF want
  <2>6. Seqs!FlattenSeq(broken) = text
    <3>1. Seqs!FlattenSeq(Append(pieces, l)) = Seqs!FlattenSeq(pieces) \o l
      BY <1>7, <1>11, FlattenAppend
    <3>2. QED
      BY <1>12, <2>5, <3>1
  <2>7. \A i \in 1..(m + 1) :
          /\ NoBreak(ls[i])
          /\ breaks[i] = <<NL>> => ~EndsInCR(ls[i])
          /\ breaks[i] = <<>> => i = m + 1 /\ ls[i] # <<>>
    <3>1. ASSUME NEW i \in 1..m
          PROVE  /\ NoBreak(ls[i]) /\ breaks[i] # <<>>
                 /\ breaks[i] = <<NL>> => ~EndsInCR(ls[i])
      <4>1. ls[i] = ended[i] /\ breaks[i] = BreakOf(f[i])
        BY <2>1, <2>3
      <4> HIDE DEF ls, breaks
      <4>2. QED
        BY <1>10, <4>1, BreaksAreNotEmpty
    <3>2. NoBreak(ls[m + 1]) /\ breaks[m + 1] # <<NL>> /\ ls[m + 1] # <<>>
      <4>1. <<NL>> # <<>>
        OBVIOUS
      <4> HIDE DEF ls, breaks
      <4>2. QED
        BY <1>9, <1>15, <2>1, <2>3, <4>1
    <3>3. QED
      BY <2>2, <3>1, <3>2
  <2> HIDE DEF ls, breaks
  <2>8. AreLinesOf(ls, text)
    BY <1>13, <2>1, <2>3, <2>6, <2>7
  <2>9. QED
    BY <1>8, <1>15, <2>1, <2>8 DEF ls
<1>16. QED
  BY <1>14, <1>15

-----------------------------------------------------------------------------
(* What a caller makes of an answer: an error is one, whatever the type,    *)
(* one payload is its value, and the texts of items are their list.         *)
LEMMA GotError ==
  ASSUME NEW type \in {"String", "Vec<String>", "Vec<u8>", "i64"}
  PROVE  Got(type, error_frames) = ResultErr("Error")
<1> DEFINE x == [status |-> "Error", data |-> Textus(<<>>)]
<1>1. error_frames = Append(<<>>, x) /\ <<>> \in Seq({x})
  BY DEF error_frames
<1> HIDE DEF x
<1>2. Seqs!Front(error_frames) = <<>> /\ Seqs!Last(error_frames) = x
  BY <1>1, FrontAndLast
<1>3. x.status = "Error"
  BY DEF x
<1>4. \A k : ~Mismatch(k, <<>>)
  BY DEF Mismatch
<1>5. \A v : Ended("Error", v) = ResultErr("Error")
  BY DEF Ended, terminal_error
<1>6. \A k : OnlyFrame(k, <<>>, "Error") = ResultErr("Error")
  BY DEF OnlyFrame, terminal_error
<1>7. Got(type, error_frames) = Result(try_sermo_materialize_auto(type), <<>>, "Error")
  BY <1>2, <1>3 DEF Got
<1>8. Result("lista", <<>>, "Error") = ResultErr("Error")
  BY <1>4, <1>5 DEF Result, try_sermo_materialize_lista
<1>9. Result("octeti", <<>>, "Error") = ResultErr("Error")
  BY <1>4, <1>5 DEF Result, try_sermo_materialize_octeti
<1>10. Result("textus", <<>>, "Error") = ResultErr("Error")
  BY <1>4, <1>5 DEF Result, try_sermo_materialize_textus
<1>11. Result("scalar", <<>>, "Error") = ResultErr("Error")
  BY <1>6 DEF Result, try_sermo_materialize_scalar
<1>12. try_sermo_materialize_auto(type) \in {"lista", "octeti", "textus", "scalar"}
  BY DEF try_sermo_materialize_auto
<1>13. QED
  BY <1>7, <1>8, <1>9, <1>10, <1>11, <1>12

(* One payload and Done is that payload, for the type it fits. *)
LEMMA GotOne ==
  ASSUME NEW v, NEW what, NEW status
  PROVE  LET frames == << [status |-> status, data |-> [kind |-> what, value |-> v]], DoneFrame >>
         IN  /\ v \in Seq(Int) /\ what = "textus" => Got("String", frames) = ResultOk(v)
             /\ v \in Seq(Int) /\ what \in {"octeti", "bytes"} => Got("Vec<u8>", frames) = ResultOk(v)
             /\ what = "numerus" => Got("i64", frames) = ResultOk(v)
<1> DEFINE x == [status |-> status, data |-> [kind |-> what, value |-> v]]
           frames == <<x, DoneFrame>>
<1>1. frames = Append(<<x>>, DoneFrame) /\ <<x>> \in Seq({x, DoneFrame})
  <2>1. \A p, q : <<p, q>> = Append(<<p>>, q) /\ <<p>> \in Seq({p, q})
    OBVIOUS
  <2> HIDE DEF x
  <2>2. QED
    BY <2>1
<1>2. x.data.kind = what /\ x.data.value = v /\ DoneFrame.status = "Done"
  BY DEF DoneFrame
<1> HIDE DEF x
<1>3. Seqs!Front(frames) = <<x>> /\ Seqs!Last(frames) = DoneFrame
  <2>1. \A S : \A y \in S : <<x>> \in Seq(S) =>
          Seqs!Front(Append(<<x>>, y)) = <<x>> /\ Seqs!Last(Append(<<x>>, y)) = y
    BY FrontAndLast
  <2>2. DoneFrame \in {x, DoneFrame}
    OBVIOUS
  <2> HIDE DEF frames
  <2>3. QED
    BY <1>1, <2>1, <2>2
<1>4. \A type : Got(type, frames) = Result(try_sermo_materialize_auto(type), <<x>>, "Done")
  BY <1>2, <1>3 DEF Got
<1>5. \A k : what \in Fits(k) => ~Mismatch(k, <<x>>)
  <2> HIDE DEF frames
  <2>1. DOMAIN <<x>> = {1} /\ <<x>>[1] = x
    OBVIOUS
  <2>2. QED
    BY <1>2, <2>1 DEF Mismatch
<1>6. Values(<<x>>) = <<v>>
  BY <1>2 DEF Values
<1>7. \A w : Ended("Done", w) = ResultOk(w)
  BY DEF Ended, terminal_error
<1>8. ASSUME v \in Seq(Int), what = "textus" PROVE Got("String", frames) = ResultOk(v)
  <2>1. ~Mismatch("textus", <<x>>)
    BY <1>5, <1>8 DEF Fits
  <2>2. Seqs!FlattenSeq(Values(<<x>>)) = v
    BY <1>6, <1>8, FlattenFew
  <2>3. Result("textus", <<x>>, "Done") = ResultOk(v)
    BY <1>7, <2>1, <2>2 DEF Result, try_sermo_materialize_textus
  <2>4. QED
    BY <1>4, <2>3 DEF try_sermo_materialize_auto
<1>9. ASSUME v \in Seq(Int), what \in {"octeti", "bytes"} PROVE Got("Vec<u8>", frames) = ResultOk(v)
  <2>1. ~Mismatch("octeti", <<x>>)
    BY <1>5, <1>9 DEF Fits
  <2>2. Seqs!FlattenSeq(Values(<<x>>)) = v
    BY <1>6, <1>9, FlattenFew
  <2>3. Result("octeti", <<x>>, "Done") = ResultOk(v)
    BY <1>7, <2>1, <2>2 DEF Result, try_sermo_materialize_octeti
  <2>4. QED
    BY <1>4, <2>3 DEF try_sermo_materialize_auto
<1>10. ASSUME what = "numerus" PROVE Got("i64", frames) = ResultOk(v)
  <2>1. ~Mismatch("scalar", <<x>>)
    BY <1>5, <1>10 DEF Fits
  <2>2. OnlyFrame("scalar", <<x>>, "Done") = ResultOk(v)
    BY <1>2, <2>1 DEF OnlyFrame, terminal_error
  <2>3. Result("scalar", <<x>>, "Done") = ResultOk(v)
    BY <2>2 DEF Result, try_sermo_materialize_scalar
  <2>4. QED
    BY <1>4, <2>3 DEF try_sermo_materialize_auto
<1>11. QED
  BY <1>8, <1>9, <1>10 DEF x

(* Items and Done are the list of their texts. *)
LEMMA GotItems ==
  ASSUME NEW S, NEW values \in Seq(S)
  PROVE  Got("Vec<String>", Items(values)) = ResultOk(values)
<1> DEFINE fs == [i \in DOMAIN values |-> Item(Textus(values[i]))]
           T == {Item(Textus(y)) : y \in S} \cup {DoneFrame}
<1>1. fs \in Seq(T) /\ Len(fs) = Len(values) /\ Len(values) \in Nat
  OBVIOUS
<1>2. DOMAIN fs = 1..Len(values) /\ DOMAIN values = 1..Len(values)
      /\ \A i \in 1..Len(values) : fs[i].data.kind = "textus" /\ fs[i].data.value = values[i]
  BY DEF Item, Textus
<1>3. Items(values) = Append(fs, DoneFrame)
  BY DEF Items
<1>4. DoneFrame \in T /\ DoneFrame.status = "Done"
  BY DEF DoneFrame
<1> HIDE DEF fs, T
<1>5. Seqs!Front(Items(values)) = fs /\ Seqs!Last(Items(values)) = DoneFrame
  BY <1>1, <1>3, <1>4, FrontAndLast
<1>6. Got("Vec<String>", Items(values)) = Result("lista", fs, "Done")
  BY <1>4, <1>5 DEF Got, try_sermo_materialize_auto
<1>7. ~Mismatch("lista", fs)
  BY <1>2 DEF Mismatch, Fits
<1>8. Values(fs) = values
  <2>1. values = [i \in 1..Len(values) |-> values[i]]
    OBVIOUS
  <2>2. QED
    BY <1>2, <2>1 DEF Values
<1>9. QED
  BY <1>6, <1>7, <1>8 DEF Result, try_sermo_materialize_lista, Ended, terminal_error

-----------------------------------------------------------------------------
(* What the reading routes say of a path, in terms of its end.              *)
NodeOf(fs, p) == fs[EndOf(fs, p)]
BytesOf(fs, p) == NodeOf(fs, p).bytes

(* The end of a path, its node, and what a well-formed tree says of it. *)
LEMMA NodesAre ==
  ASSUME WellFormed(files), NEW p \in Path
  PROVE  /\ End(p) = EndOf(files, p) /\ Node(p) = NodeOf(files, p)
         /\ End(p) \in Path /\ Node(p) \in Nodes /\ Node(p).bytes \in Seq(Int)
         /\ Node(p).is = "file" => Len(Node(p).bytes) <= MaxBytes
         /\ files[p].is # "link" => End(p) = p
         /\ files[p] \in Nodes
<1>1. End(p) = EndOf(files, p)
  BY DEF End, EndOf, Hopping
<1>2. EndOf(files, p) \in Path /\ (files[p].is # "link" => EndOf(files, p) = p)
  BY EndIs
<1>3. Node(p) = NodeOf(files, p) /\ Node(p) = files[EndOf(files, p)]
  BY <1>1 DEF Node, NodeOf
<1>4. files \in [Path -> Nodes]
  BY DEF WellFormed
<1>5. Node(p) \in Nodes /\ files[p] \in Nodes
  BY <1>2, <1>3, <1>4
<1>6. Node(p).bytes \in Seq(Int)
  BY <1>5 DEF Nodes
<1>7. Node(p).is = "file" => Len(Node(p).bytes) <= MaxBytes
  BY <1>2, <1>3 DEF WellFormed
<1>8. QED
  BY <1>1, <1>2, <1>3, <1>5, <1>6, <1>7

(* What the routes that test a path answer. *)
LEMMA TruthsAre ==
  ASSUME NEW p
  PROVE  /\ Truth("solum:exstat", p) <=> Exists(p)
         /\ Truth("solum:directoriumne", p) <=> Node(p).is = "dir"
         /\ Truth("solum:regularene", p) <=> Node(p).is = "file"
         /\ Truth("solum:vinculumne", p) <=> files[p].is = "link"
<1> DEFINE said(b) == item_done_frames(Bivalens(b))
<1>1. ASSUME NEW b \in BOOLEAN PROVE (said(b)[1].data.value = <<1>>) <=> b
  <2>1. said(b)[1].data.value = <<IF b THEN 1 ELSE 0>>
    BY DEF item_done_frames, Item, Bivalens
  <2>2. CASE b
    BY <2>1, <2>2
  <2>3. CASE ~b
    <3>1. said(b)[1].data.value = <<0>>
      BY <2>1, <2>3
    <3>2. <<0>> # <<1>>
      <4>1. <<0>>[1] # <<1>>[1]
        OBVIOUS
      <4>2. QED
        BY <4>1
    <3>3. QED
      BY <2>3, <3>1, <3>2
  <2>4. QED
    BY <2>2, <2>3
<1>2. valor_text(Textus(p)) /\ Textus(p).value = p
  BY DEF valor_text, Textus
<1> HIDE DEF said
<1>3. /\ solum_path_bool_frames("solum:exstat", Textus(p), "bool") = said(Exists(p))
      /\ solum_path_bool_frames("solum:directoriumne", Textus(p), "bool") = said(Node(p).is = "dir")
      /\ solum_path_bool_frames("solum:regularene", Textus(p), "bool") = said(Node(p).is = "file")
      /\ solum_path_bool_frames("solum:vinculumne", Textus(p), "bool") = said(files[p].is = "link")
  BY <1>2 DEF solum_path_bool_frames, said
<1>4. Exists(p) \in BOOLEAN
  BY DEF Exists
<1>5. QED
  BY <1>1, <1>3, <1>4 DEF Truth

(* solum:hauri reads the bytes of a file and refuses everything else. *)
LEMMA ContentsAre ==
  ASSUME WellFormed(files), NEW p \in Path
  PROVE  /\ Node(p).is = "file" => Contents(p) = ResultOk(Node(p).bytes)
         /\ Node(p).is # "file" => Contents(p) = ResultErr("Error")
<1>1. valor_text(Textus(p)) /\ Textus(p).value = p
  BY DEF valor_text, Textus
<1>2. ASSUME Node(p).is = "file" PROVE Contents(p) = ResultOk(Node(p).bytes)
  <2> DEFINE b == Node(p).bytes
  <2>1. b \in Seq(Int)
    BY NodesAre
  <2>2. solum_hauri_frames(Textus(p)) = << [status |-> "Byte", data |-> [kind |-> "octeti", value |-> b]], DoneFrame >>
    BY <1>1, <1>2 DEF solum_hauri_frames, bytes_done_frames, Octeti
  <2> HIDE DEF b
  <2>3. Got("Vec<u8>", << [status |-> "Byte", data |-> [kind |-> "octeti", value |-> b]], DoneFrame >>) = ResultOk(b)
    BY <2>1, GotOne
  <2>4. QED
    BY <2>2, <2>3 DEF Contents, b
<1>3. ASSUME Node(p).is # "file" PROVE Contents(p) = ResultErr("Error")
  <2>1. solum_hauri_frames(Textus(p)) = error_frames
    BY <1>1, <1>3 DEF solum_hauri_frames
  <2>2. QED
    BY <2>1, GotError DEF Contents
<1>4. QED
  BY <1>2, <1>3

(* Whole, as text, as bytes or as lines, a file reads the same. *)
LEMMA FilesRead ==
  ASSUME WellFormed(files), NEW p \in Path
  PROVE  FileReads(p)
<1> DEFINE b == Node(p).bytes
           text == Got("String", solum_lege_frames(Textus(p), "String"))
           bytes == Got("Vec<u8>", solum_lege_frames(Textus(p), "Vec<u8>"))
           lines == Got("Vec<String>", solum_carpe_frames(Textus(p)))
           length == Got("i64", solum_mensura_frames(Textus(p), "i64"))
<1>1. valor_text(Textus(p)) /\ Textus(p).value = p
  BY DEF valor_text, Textus
<1>2. b \in Seq(Int) /\ (IsFile(p) <=> Node(p).is = "file")
  BY NodesAre, TruthsAre DEF IsFile
<1>3. solum_carpe_frames(Textus(p)) = solum_line_item_frames(p)
  BY <1>1 DEF solum_carpe_frames
<1>4. solum_lege_frames(Textus(p), "Vec<String>") = solum_line_item_frames(p)
  BY <1>1 DEF solum_lege_frames
<1>5. \A v : ResultOk(v).result = "ok" /\ ResultOk(v).value = v /\ ResultErr("Error").result = "Error"
  BY DEF ResultOk, ResultErr
<1>6. ASSUME Node(p).is = "file"
      PROVE  bytes = ResultOk(b) /\ length = ResultOk(<<Len(b)>>)
  <2>1. /\ solum_lege_frames(Textus(p), "Vec<u8>")
              = << [status |-> "Item", data |-> [kind |-> "bytes", value |-> b]], DoneFrame >>
        /\ solum_mensura_frames(Textus(p), "i64")
              = << [status |-> "Item", data |-> [kind |-> "numerus", value |-> <<Len(b)>>]], DoneFrame >>
    BY <1>1, <1>6 DEF solum_lege_frames, solum_mensura_frames, item_done_frames, Item, Numerus, Exists
  <2> HIDE DEF b
  <2>2. QED
    BY <1>2, <2>1, GotOne
<1>7. ASSUME HoldsText(p)
      PROVE  text = ResultOk(b) /\ lines = ResultOk(Lines(b)) /\ AreLinesOf(Lines(b), b)
  <2>1. solum_lege_frames(Textus(p), "String")
              = << [status |-> "Item", data |-> [kind |-> "textus", value |-> b]], DoneFrame >>
    BY <1>1, <1>7 DEF solum_lege_frames, item_done_frames, Item, Textus
  <2>2. solum_line_item_frames(p) = Items(Lines(b))
    BY <1>7 DEF solum_line_item_frames
  <2> HIDE DEF b
  <2>3. text = ResultOk(b)
    BY <1>2, <2>1, GotOne
  <2>4. Lines(b) \in Seq(Seq(Int)) /\ AreLinesOf(Lines(b), b)
    BY <1>2, LinesAre
  <2>5. Got("Vec<String>", Items(Lines(b))) = ResultOk(Lines(b))
    BY <2>4, GotItems
  <2>6. QED
    BY <1>3, <2>2, <2>3, <2>4, <2>5
<1>8. ASSUME ~HoldsText(p)
      PROVE  text = ResultErr("Error") /\ lines = ResultErr("Error")
  <2>1. solum_lege_frames(Textus(p), "String") = error_frames /\ solum_line_item_frames(p) = error_frames
    BY <1>1, <1>8 DEF solum_lege_frames, solum_line_item_frames
  <2>2. QED
    BY <1>3, <2>1, GotError
<1>9. HoldsText(p) <=> Node(p).is = "file" /\ IsUtf8(b)
  BY DEF HoldsText
<1>10. Got("Vec<String>", solum_lege_frames(Textus(p), "Vec<String>")) = lines
  BY <1>3, <1>4
<1>11. CASE Node(p).is = "file"
  <2>1. Contents(p) = ResultOk(b)
    BY <1>11, ContentsAre
  <2> HIDE DEF b, text, bytes, lines, length
  <2>2. Contents(p).value = b /\ Contents(p).result = "ok"
    BY <1>5, <2>1
  <2>3. bytes = Contents(p) /\ length.value = <<Len(b)>> /\ IsFile(p)
    BY <1>2, <1>5, <1>6, <1>11, <2>1
  <2>4. IF IsUtf8(b) THEN text = Contents(p) /\ lines.result = "ok" /\ AreLinesOf(lines.value, b)
        ELSE text.result = "Error" /\ lines.result = "Error"
    BY <1>5, <1>7, <1>8, <1>9, <1>11, <2>1
  <2>5. QED
    BY <1>10, <2>2, <2>3, <2>4 DEF FileReads, text, bytes, lines, length
<1>12. CASE Node(p).is # "file"
  <2>1. solum_lege_frames(Textus(p), "Vec<u8>") = error_frames
    BY <1>1, <1>12 DEF solum_lege_frames
  <2>2. bytes = ResultErr("Error") /\ Contents(p) = ResultErr("Error")
    BY <1>12, <2>1, GotError, ContentsAre
  <2> HIDE DEF b, text, bytes, lines, length
  <2>3. Contents(p).result = "Error" /\ ~IsFile(p) /\ text.result = "Error" /\ lines.result = "Error"
    BY <1>2, <1>5, <1>8, <1>9, <1>12, <2>2
  <2>4. QED
    BY <1>10, <2>2, <2>3 DEF FileReads, text, bytes, lines, length
<1>13. QED
  BY <1>11, <1>12

-----------------------------------------------------------------------------
(* Windows.  A window of a window is a window, so what the search finds in  *)
(* its own is what solum:partem reads there.                                *)
LEMMA MinsAre ==
  /\ \A a, b \in Int : Min({a, b}) = IF a <= b THEN a ELSE b
  /\ \A T : T \subseteq Nat /\ T # {} => Min(T) \in T /\ \A m \in T : Min(T) <= m
<1>1. ASSUME NEW a \in Int, NEW b \in Int PROVE Min({a, b}) = IF a <= b THEN a ELSE b
  BY DEF Min
<1>2. ASSUME NEW T, T \subseteq Nat, T # {} PROVE Min(T) \in T /\ \A m \in T : Min(T) <= m
  BY <1>2, Least DEF Min
<1>3. QED
  BY <1>1, <1>2

WindowOf(b, s, n) == SubSeq(b, s + 1, Min({s + n, Len(b)}))

Least2(a, b) == IF a <= b THEN a ELSE b

(* A window: its length, and what is at each of its places. *)
LEMMA WindowIs ==
  ASSUME NEW b \in Seq(Int), NEW s \in Nat, NEW n \in Nat
  PROVE  /\ WindowOf(b, s, n) \in Seq(Int)
         /\ Len(WindowOf(b, s, n)) = IF s >= Len(b) THEN 0 ELSE Least2(n, Len(b) - s)
         /\ \A i \in 1..Len(WindowOf(b, s, n)) : WindowOf(b, s, n)[i] = b[s + i] /\ s + i \in 1..Len(b)
<1> DEFINE to == Least2(s + n, Len(b))
           w == SubSeq(b, s + 1, to)
           from == s + 1
<1>1. Len(b) \in Nat /\ to \in Nat /\ to <= Len(b) /\ to <= s + n /\ from \in Nat /\ from >= 1
  BY DEF Least2
<1>2. WindowOf(b, s, n) = w
  <2>1. s + n \in Int /\ Len(b) \in Int
    BY <1>1
  <2>2. Min({s + n, Len(b)}) = to
    BY <2>1, MinsAre DEF Least2
  <2>3. QED
    BY <2>2 DEF WindowOf
<1> HIDE DEF from
<1>3. /\ w \in Seq(Int) /\ Len(w) = IF from <= to THEN to - from + 1 ELSE 0
      /\ \A i \in 1..(to - from + 1) : w[i] = b[from + i - 1]
  <2>1. \A i \in from..to : b[i] \in Int
    BY <1>1
  <2>2. w = SubSeq(b, from, to)
    BY DEF from
  <2> HIDE DEF w, to
  <2>3. QED
    BY <1>1, <2>1, <2>2, SubSeqProperties
<1> HIDE DEF w
<1>4. from = s + 1
  BY DEF from
<1>5. Len(w) = IF s >= Len(b) THEN 0 ELSE Least2(n, Len(b) - s)
  BY <1>1, <1>3, <1>4 DEF Least2
<1>6. ASSUME NEW i \in 1..Len(w) PROVE w[i] = b[s + i] /\ s + i \in 1..Len(b)
  <2> HIDE DEF to
  <2>1. i \in 1..(to - from + 1) /\ from + i - 1 = s + i /\ s + i <= to
    BY <1>1, <1>3, <1>4
  <2>2. w[i] = b[from + i - 1]
    BY <1>3, <2>1
  <2>3. QED
    BY <1>1, <2>1, <2>2
<1>7. QED
  BY <1>2, <1>3, <1>5, <1>6

(* The length alone. *)
LEMMA LenOfWindow ==
  \A b \in Seq(Int), s, n \in Nat :
    /\ WindowOf(b, s, n) \in Seq(Int)
    /\ Len(WindowOf(b, s, n)) = IF s >= Len(b) THEN 0 ELSE Least2(n, Len(b) - s)
<1> TAKE b \in Seq(Int), s, n \in Nat
<1>1. QED
  BY WindowIs

(* A text read up to a place and from there on is the text. *)
LEMMA InTwoParts ==
  ASSUME NEW b \in Seq(Int), NEW s \in Nat, NEW n \in Nat, Len(b) <= n
  PROVE  WindowOf(b, 0, s) \o WindowOf(b, s, n) = b
<1> DEFINE u == WindowOf(b, 0, s)
           v == WindowOf(b, s, n)
<1>1. Len(b) \in Nat
  OBVIOUS
<1>2. /\ u \in Seq(Int) /\ Len(u) = IF 0 >= Len(b) THEN 0 ELSE Least2(s, Len(b) - 0)
      /\ \A i \in 1..Len(u) : u[i] = b[0 + i]
  BY WindowIs
<1>3. /\ v \in Seq(Int) /\ Len(v) = IF s >= Len(b) THEN 0 ELSE Least2(n, Len(b) - s)
      /\ \A i \in 1..Len(v) : v[i] = b[s + i]
  BY WindowIs
<1> HIDE DEF u, v
<1> DEFINE w == u \o v
<1>4. /\ w \in Seq(Int) /\ Len(w) = Len(u) + Len(v)
      /\ \A i \in 1..Len(u) : w[i] = u[i]
      /\ \A i \in 1..Len(v) : w[Len(u) + i] = v[i]
  <2>1. u \in Seq(Int) /\ v \in Seq(Int)
    BY <1>2, <1>3
  <2>2. QED
    BY ONLY <2>1, Concatenated
<1> HIDE DEF w
<1>5. Len(u) = Least2(s, Len(b)) /\ Len(u) \in Nat /\ Len(v) \in Nat /\ Len(u) + Len(v) = Len(b)
      /\ (Len(v) # 0 => Len(u) = s)
  <2>1. Len(u) = Least2(s, Len(b))
    BY <1>1, <1>2 DEF Least2
  <2>2. CASE s >= Len(b)
    BY <1>1, <1>3, <2>1, <2>2 DEF Least2
  <2>3. CASE ~(s >= Len(b))
    <3>1. Len(u) = s /\ Len(v) = Least2(n, Len(b) - s)
      BY <1>1, <1>3, <2>1, <2>3 DEF Least2
    <3>2. Len(v) = Len(b) - s
      BY <1>1, <2>3, <3>1 DEF Least2
    <3>3. QED
      BY <1>1, <2>1, <2>3, <3>1, <3>2
  <2>4. QED
    BY <2>2, <2>3
<1>6. ASSUME NEW i \in 1..Len(b) PROVE w[i] = b[i]
  <2>1. CASE i <= Len(u)
    <3>1. i \in 1..Len(u) /\ 0 + i = i
      BY <1>5, <2>1
    <3>2. QED
      BY <1>2, <1>4, <3>1
  <2>2. CASE ~(i <= Len(u))
    <3> DEFINE j == i - Len(u)
    <3>1. j \in 1..Len(v) /\ Len(u) + j = i /\ s + j = i
      BY <1>5, <2>2
    <3> HIDE DEF j
    <3>2. w[Len(u) + j] = b[s + j]
      BY <1>3, <1>4, <3>1
    <3>3. QED
      BY <3>1, <3>2
  <2>3. QED
    BY <2>1, <2>2
<1>7. w = b
  BY <1>4, <1>5, <1>6, SeqEqual
<1>8. QED
  BY <1>7 DEF w, u, v

(* The same, for all texts and places. *)
LEMMA TwoParts ==
  \A b \in Seq(Int), s, n \in Nat : Len(b) <= n => WindowOf(b, 0, s) \o WindowOf(b, s, n) = b
<1> TAKE b \in Seq(Int), s, n \in Nat
<1>1. QED
  BY InTwoParts

Narrows(b, s, n, i, l) ==
  l # 0 /\ i + l <= Len(WindowOf(b, s, n))
    => SubSeq(WindowOf(b, s, n), i + 1, i + l) = WindowOf(b, s + i, l)

(* A part of a window is the window there. *)
LEMMA WindowOfWindow ==
  ASSUME NEW b \in Seq(Int), NEW s \in Nat, NEW n \in Nat, NEW i \in Nat, NEW l \in Nat
  PROVE  Narrows(b, s, n, i, l)
<1> SUFFICES ASSUME l # 0, i + l <= Len(WindowOf(b, s, n))
    PROVE  SubSeq(WindowOf(b, s, n), i + 1, i + l) = WindowOf(b, s + i, l)
  BY DEF Narrows
<1> DEFINE w == WindowOf(b, s, n)
           from == i + 1
           to == i + l
           t == s + i
           v == WindowOf(b, t, l)
           u == SubSeq(w, from, to)
<1>1. Len(b) \in Nat /\ t \in Nat /\ from \in Nat /\ to \in Nat /\ from <= to /\ to - from + 1 = l /\ from >= 1
  OBVIOUS
<1>2. /\ w \in Seq(Int) /\ Len(w) \in Nat
      /\ Len(w) = IF s >= Len(b) THEN 0 ELSE Least2(n, Len(b) - s)
      /\ \A k \in 1..Len(w) : w[k] = b[s + k] /\ s + k \in 1..Len(b)
  BY WindowIs
<1>3. to <= Len(w) /\ from = i + 1 /\ to = i + l /\ t = s + i
  OBVIOUS
<1>4. /\ v \in Seq(Int) /\ Len(v) = IF t >= Len(b) THEN 0 ELSE Least2(l, Len(b) - t)
      /\ \A k \in 1..Len(v) : v[k] = b[t + k]
  <2>1. b \in Seq(Int) /\ t \in Nat /\ l \in Nat
    BY <1>1
  <2>2. QED
    BY ONLY <2>1, WindowIs
<1> HIDE DEF w, v, from, to, t
<1>5. /\ u \in Seq(Int) /\ Len(u) = l /\ \A k \in 1..l : u[k] = w[from + k - 1]
  <2>1. \A k \in from..to : w[k] \in Int
    BY <1>1, <1>2, <1>3
  <2>2. /\ u \in Seq(Int) /\ Len(u) = IF from <= to THEN to - from + 1 ELSE 0
        /\ \A k \in 1..(to - from + 1) : u[k] = w[from + k - 1]
    BY <1>1, <2>1, SubSeqProperties
  <2>3. QED
    BY <1>1, <2>2
<1>6. Len(v) = l
  <2>1. to = i + l /\ t = s + i
    BY DEF to, t
  <2>2. s < Len(b) /\ Len(w) <= Len(b) - s
    BY <1>1, <1>2, <1>3, <2>1 DEF Least2
  <2>3. l <= Len(b) - t /\ t < Len(b)
    BY <1>1, <1>2, <1>3, <2>1, <2>2
  <2>4. QED
    BY <1>1, <1>4, <2>3 DEF Least2
<1>7. ASSUME NEW k \in 1..l PROVE u[k] = v[k]
  <2>1. from + k - 1 \in 1..Len(w) /\ s + (from + k - 1) = t + k
    BY <1>1, <1>2, <1>3
  <2>2. u[k] = b[s + (from + k - 1)] /\ v[k] = b[t + k]
    BY <1>2, <1>4, <1>5, <1>6, <2>1
  <2>3. QED
    BY <2>1, <2>2
<1> HIDE DEF u
<1>8. u = v
  BY <1>4, <1>5, <1>6, <1>7, SeqEqual
<1>9. QED
  BY <1>8 DEF u, v, w, from, to, t

(* The search and the windows that hold the pattern. *)
LEMMA FindsFirst ==
  ASSUME NEW b \in Seq(Int), NEW s \in Nat, NEW n \in Nat, NEW pattern \in Seq(Int), pattern # <<>>
  PROVE  LET k == FirstIn(s, WindowOf(b, s, n), pattern)
             starts == {t \in s..(s + n - Len(pattern)) : WindowOf(b, t, Len(pattern)) = pattern}
         IN  IF k = -1 THEN starts = {} ELSE k \in starts /\ \A t \in starts : k <= t
<1> DEFINE l == Len(pattern)
           w == WindowOf(b, s, n)
           at == {i \in 0..(Len(w) - l) : SubSeq(w, i + 1, i + l) = pattern}
           starts == {t \in s..(s + n - l) : WindowOf(b, t, l) = pattern}
           k == FirstIn(s, w, pattern)
<1>1. l \in Nat /\ l # 0 /\ Len(b) \in Nat /\ b \in Seq(Int) /\ s \in Nat /\ n \in Nat
  OBVIOUS
<1>2. /\ w \in Seq(Int) /\ Len(w) \in Nat
      /\ Len(w) = IF s >= Len(b) THEN 0 ELSE Least2(n, Len(b) - s)
  BY WindowIs
<1>3. Len(w) <= n /\ (s < Len(b) => Len(w) = Least2(n, Len(b) - s))
  BY <1>1, <1>2 DEF Least2
<1>4. k = IF at = {} THEN -1 ELSE s + Min(at)
  BY DEF FirstIn
<1>5. ASSUME NEW i \in Nat, i + l <= Len(w) PROVE SubSeq(w, i + 1, i + l) = WindowOf(b, s + i, l)
  <2> HIDE DEF l
  <2>1. Narrows(b, s, n, i, l)
    BY <1>1, <1>5, WindowOfWindow
  <2>2. QED
    BY <1>1, <1>5, <2>1 DEF Narrows
<1> HIDE DEF w, l, k
<1>6. ASSUME NEW i \in at PROVE i \in Nat /\ s + i \in starts
  <2>1. i \in Nat /\ i + l <= Len(w) /\ SubSeq(w, i + 1, i + l) = pattern
    BY <1>1, <1>2
  <2>2. s + i \in s..(s + n - l)
    BY <1>1, <1>2, <1>3, <2>1
  <2>3. QED
    BY <1>5, <2>1, <2>2
<1>7. ASSUME NEW t \in starts PROVE t - s \in at
  <2>1. t \in Nat /\ t - s \in Nat /\ s + (t - s) = t /\ t + l <= s + n /\ WindowOf(b, t, l) = pattern
    BY <1>1
  <2>2. Len(pattern) = IF t >= Len(b) THEN 0 ELSE Least2(l, Len(b) - t)
    BY <1>1, <2>1, WindowIs
  <2>3. t < Len(b) /\ l = Least2(l, Len(b) - t)
    BY <1>1, <2>1, <2>2 DEF l
  <2>4. l <= Len(b) - t
    BY <1>1, <2>1, <2>3 DEF Least2
  <2>5. (t - s) + l <= Len(w)
    <3>1. s < Len(b) /\ Len(w) = Least2(n, Len(b) - s)
      BY <1>1, <1>3, <2>1, <2>3
    <3>2. QED
      BY <1>1, <2>1, <2>4, <3>1 DEF Least2
  <2>6. SubSeq(w, (t - s) + 1, (t - s) + l) = pattern
    BY <1>5, <2>1, <2>5
  <2>7. t - s \in 0..(Len(w) - l)
    BY <1>1, <1>2, <2>1, <2>5
  <2>8. QED
    BY <2>6, <2>7
<1>8. at \subseteq Nat
  BY <1>6
<1>9. \A t \in starts : t \in Int
  BY <1>1
<1> HIDE DEF at, starts
<1>10. CASE at = {}
  <2>1. k = -1 /\ starts = {}
    BY <1>4, <1>7, <1>10
  <2>2. QED
    BY <2>1 DEF k, starts, w, l
<1>11. CASE at # {}
  <2> DEFINE m == Min(at)
  <2>1. m \in at /\ \A i \in at : m <= i
    BY <1>8, <1>11, MinsAre
  <2> HIDE DEF m
  <2>2. m \in Nat /\ s + m \in starts
    BY <1>6, <2>1
  <2>3. k = s + m /\ k # -1
    BY <1>4, <1>11, <2>2 DEF m
  <2>4. ASSUME NEW t \in starts PROVE k <= t
    <3>1. m <= t - s /\ t \in Int
      BY <1>7, <1>9, <2>1
    <3>2. QED
      BY <2>2, <2>3, <3>1
  <2>5. k \in starts /\ k # -1 /\ \A t \in starts : k <= t
    BY <2>2, <2>3, <2>4
  <2>6. QED
    BY <2>5 DEF k, starts, w, l
<1>12. QED
  BY <1>10, <1>11

(* solum:partem answers the window. *)
LEMMA PartIs ==
  ASSUME WellFormed(files), NEW p \in Path, Node(p).is = "file", NEW s \in Nat, NEW n \in Nat
  PROVE  Got("Vec<u8>", solum_partem_frames(Lista(<<Textus(p), Numerus(s), Numerus(n)>>), "Vec<u8>")).value
           = WindowOf(Node(p).bytes, s, n)
<1> DEFINE o == Lista(<<Textus(p), Numerus(s), Numerus(n)>>)
           w == WindowOf(Node(p).bytes, s, n)
<1>1. ItemKinds(o) = <<"textus", "numerus", "numerus">>
  BY DEF ItemKinds, Lista, Textus, Numerus
<1>2. Arg(o, 1) = p /\ Arg(o, 2)[1] = s /\ Arg(o, 3)[1] = n
  BY DEF Arg, Lista, Textus, Numerus
<1> HIDE DEF o
<1>3. solum_partem_frames(o, "Vec<u8>") = bytes_done_frames(Window(p, s, n))
  BY <1>1, <1>2 DEF solum_partem_frames, valor_text_range
<1>4. Window(p, s, n) = w /\ w \in Seq(Int)
  <2>1. Node(p).bytes \in Seq(Int)
    BY NodesAre
  <2>2. QED
    BY <2>1, WindowIs DEF Window, WindowOf
<1> HIDE DEF w
<1>5. Got("Vec<u8>", << [status |-> "Byte", data |-> [kind |-> "octeti", value |-> w]], DoneFrame >>) = ResultOk(w)
  BY <1>4, GotOne
<1>6. Got("Vec<u8>", solum_partem_frames(o, "Vec<u8>")) = ResultOk(w)
  BY <1>3, <1>4, <1>5 DEF bytes_done_frames, Octeti
<1>7. QED
  BY <1>6 DEF ResultOk, o, w

(* solum:inveni answers the first place of the pattern in its window. *)
LEMMA FoundIs ==
  ASSUME WellFormed(files), NEW p \in Path, Node(p).is = "file", NEW s \in Nat, NEW n \in Nat
  PROVE  Got("i64", solum_inveni_frames(
             Lista(<<Textus(p), Textus(Pattern), Numerus(s), Numerus(n)>>), "i64")).value[1]
           = IF Pattern = <<>> THEN s ELSE FirstIn(s, WindowOf(Node(p).bytes, s, n), Pattern)
<1> DEFINE o == Lista(<<Textus(p), Textus(Pattern), Numerus(s), Numerus(n)>>)
           k == IF Pattern = <<>> THEN s ELSE FirstIn(s, Window(p, s, n), Pattern)
<1>1. ItemKinds(o) = <<"textus", "textus", "numerus", "numerus">>
  BY DEF ItemKinds, Lista, Textus, Numerus
<1>2. Arg(o, 1) = p /\ Arg(o, 2) = Pattern /\ Arg(o, 3)[1] = s /\ Arg(o, 4)[1] = n
  BY DEF Arg, Lista, Textus, Numerus
<1> HIDE DEF o
<1>3. solum_inveni_frames(o, "i64") = item_done_frames(Numerus(k))
  BY <1>1, <1>2 DEF solum_inveni_frames, valor_text_pattern_range
<1> HIDE DEF k
<1>4. Got("i64", << [status |-> "Item", data |-> [kind |-> "numerus", value |-> <<k>>]], DoneFrame >>) = ResultOk(<<k>>)
  BY GotOne
<1>5. Got("i64", solum_inveni_frames(o, "i64")) = ResultOk(<<k>>)
  BY <1>3, <1>4 DEF item_done_frames, Item, Numerus
<1>6. Got("i64", solum_inveni_frames(o, "i64")).value[1] = k
  BY <1>5 DEF ResultOk
<1>7. Window(p, s, n) = WindowOf(Node(p).bytes, s, n)
  BY DEF Window, WindowOf
<1>8. QED
  BY <1>6, <1>7 DEF o, k

(* What is found is what is read there, and nothing earlier is. *)
LEMMA WindowsRead ==
  ASSUME WellFormed(files), NEW p \in Path
  PROVE  WindowReads(p)
<1>1. SUFFICES ASSUME Node(p).is = "file", NEW start \in 0..MaxBytes, NEW length \in 0..MaxBytes
      PROVE  LET Part(s, n) == Got("Vec<u8>", solum_partem_frames(
                               Lista(<<Textus(p), Numerus(s), Numerus(n)>>), "Vec<u8>")).value
                 k == Got("i64", solum_inveni_frames(
                        Lista(<<Textus(p), Textus(Pattern), Numerus(start), Numerus(length)>>), "i64")).value[1]
                 starts == {s \in start..(start + length - Len(Pattern)) : Part(s, Len(Pattern)) = Pattern}
             IN  /\ Part(0, start) \o Part(start, MaxBytes) = Contents(p).value
                 /\ IF k = -1 THEN starts = {} ELSE k \in starts /\ \A s \in starts : k <= s
  BY TruthsAre DEF WindowReads, IsFile
<1> DEFINE b == Node(p).bytes
           Part(s, n) == Got("Vec<u8>", solum_partem_frames(
                           Lista(<<Textus(p), Numerus(s), Numerus(n)>>), "Vec<u8>")).value
           k == Got("i64", solum_inveni_frames(
                  Lista(<<Textus(p), Textus(Pattern), Numerus(start), Numerus(length)>>), "i64")).value[1]
           l == Len(Pattern)
           starts == {s \in start..(start + length - l) : Part(s, l) = Pattern}
           found == {s \in start..(start + length - l) : WindowOf(b, s, l) = Pattern}
<1>2. /\ b \in Seq(Int) /\ Len(b) <= MaxBytes /\ MaxBytes \in Nat /\ start \in Nat /\ length \in Nat
      /\ Pattern \in Seq(Int) /\ l \in Nat
  BY <1>1, NodesAre, RoutesAssumption
<1>3. ASSUME NEW s \in Nat, NEW n \in Nat PROVE Part(s, n) = WindowOf(b, s, n)
  BY <1>1, PartIs
<1>4. k = IF Pattern = <<>> THEN start ELSE FirstIn(start, WindowOf(b, start, length), Pattern)
  BY <1>1, <1>2, FoundIs
<1>5. Contents(p).value = b
  BY <1>1, ContentsAre DEF ResultOk
<1> HIDE DEF Part, k, b, l
<1>6. starts = found
  <2>1. \A s \in start..(start + length - l) : Part(s, l) = WindowOf(b, s, l)
    BY <1>2, <1>3
  <2>2. QED
    BY <2>1
<1>7. Part(0, start) \o Part(start, MaxBytes) = Contents(p).value
  <2>1. Part(0, start) = WindowOf(b, 0, start) /\ Part(start, MaxBytes) = WindowOf(b, start, MaxBytes)
    BY <1>2, <1>3
  <2>2. WindowOf(b, 0, start) \o WindowOf(b, start, MaxBytes) = b
    BY ONLY <1>2, TwoParts
  <2>3. QED
    BY ONLY <1>5, <2>1, <2>2
<1>8. IF k = -1 THEN found = {} ELSE k \in found /\ \A s \in found : k <= s
  <2>1. CASE Pattern = <<>>
    <3>1. k = start /\ l = 0 /\ k # -1
      BY <1>2, <1>4, <2>1 DEF l
    <3>2. WindowOf(b, start, 0) = Pattern
      <4>1. WindowOf(b, start, 0) \in Seq(Int) /\ Len(WindowOf(b, start, 0)) = 0
        <5>1. 0 \in Nat /\ Len(b) \in Nat
          BY <1>2
        <5>2. /\ WindowOf(b, start, 0) \in Seq(Int)
              /\ Len(WindowOf(b, start, 0)) = IF start >= Len(b) THEN 0 ELSE Least2(0, Len(b) - start)
          BY ONLY <1>2, <5>1, LenOfWindow
        <5>3. QED
          BY <1>2, <5>1, <5>2 DEF Least2
      <4>2. QED
        BY <2>1, <4>1, EmptySeq
    <3>3. start \in found /\ \A s \in found : start <= s
      BY <1>2, <3>1, <3>2
    <3>4. QED
      BY <3>1, <3>3
  <2>2. CASE Pattern # <<>>
    <3>1. k = FirstIn(start, WindowOf(b, start, length), Pattern)
      BY <1>4, <2>2
    <3>2. QED
      BY <1>2, <2>2, <3>1, FindsFirst DEF l
  <2>3. QED
    BY <2>1, <2>2
<1>9. QED
  BY <1>6, <1>7, <1>8 DEF Part, k, l

(* What is there, a file, a directory or a link, is not absent. *)
LEMMA PresentIs ==
  ASSUME WellFormed(files), NEW q \in Path
  PROVE  (Exists(q) \/ files[q].is = "link") <=> files[q].is # "absent"
<1>1. files[q] \in Nodes /\ (files[q].is # "link" => End(q) = q)
  BY NodesAre
<1>2. files[q].is \in {"absent", "file", "dir", "link"}
  BY <1>1 DEF Nodes
<1>3. QED
  BY <1>1, <1>2 DEF Exists, Node

(* A path that is not at the root is its parent and its name. *)
LEMMA ParentAndName ==
  /\ \A q \in Path : q \in Seq(Int) /\ Len(q) \in Nat /\ Seqs!Last(q) \in Int
       /\ (Len(q) > 1 => Seqs!Front(q) \in Path)
       /\ q = Append(Seqs!Front(q), Seqs!Last(q))
  /\ \A p \in Path, x \in Int :
       /\ p \o <<x>> = Append(p, x) /\ Seqs!Front(Append(p, x)) = p
       /\ Seqs!Last(Append(p, x)) = x /\ Len(Append(p, x)) > 1
<1>1. ASSUME NEW q \in Path
      PROVE  q \in Seq(Int) /\ Len(q) \in Nat /\ Seqs!Last(q) \in Int
               /\ (Len(q) > 1 => Seqs!Front(q) \in Path)
               /\ q = Append(Seqs!Front(q), Seqs!Last(q))
  <2>1. q \in Seq(Int) /\ q # <<>> /\ (Len(q) > 1 => Seqs!Front(q) \in Path)
    BY PathAssumption
  <2>2. Seqs!Last(q) \in Int /\ q = Append(Seqs!Front(q), Seqs!Last(q))
    BY <2>1, FrontAndLast
  <2>3. QED
    BY <2>1, <2>2
<1>2. ASSUME NEW p \in Path, NEW x \in Int
      PROVE  /\ p \o <<x>> = Append(p, x) /\ Seqs!Front(Append(p, x)) = p
             /\ Seqs!Last(Append(p, x)) = x /\ Len(Append(p, x)) > 1
  <2>1. p \in Seq(Int) /\ p # <<>>
    BY PathAssumption
  <2>2. p \o <<x>> = Append(p, x)
    BY <2>1, AppendMore
  <2>3. Seqs!Front(Append(p, x)) = p /\ Seqs!Last(Append(p, x)) = x
    BY <2>1, FrontAndLast
  <2>4. Len(Append(p, x)) > 1
    BY <2>1
  <2>5. QED
    BY <2>2, <2>3, <2>4
<1>3. QED
  BY <1>1, <1>2

(* A listing has the last part of each path below that is there. *)
LEMMA ListingIs ==
  ASSUME WellFormed(files), NEW p \in Path, Node(p).is = "dir"
  PROVE  LET listed == Got("Vec<String>", solum_list_dir_frames(Textus(p)))
         IN  /\ listed.result = "ok"
             /\ {listed.value[i] : i \in DOMAIN listed.value} =
                  {<<Seqs!Last(q)>> : q \in {r \in Children(End(p)) : files[r].is # "absent"}}
<1> DEFINE present == {r \in Children(End(p)) : files[r].is # "absent"}
           N == {Seqs!Last(q) : q \in present}
           names == InOrder(N)
           values == [i \in DOMAIN names |-> <<names[i]>>]
<1>1. present \subseteq Path
  BY DEF Children
<1>2. N \subseteq Int /\ IsFiniteSet(N)
  <2>1. N \subseteq Int
    BY <1>1, ParentAndName
  <2>2. IsFiniteSet(present)
    BY <1>1, PathAssumption, FS_Subset
  <2> DEFINE name == [q \in present |-> Seqs!Last(q)]
  <2>3. name \in Surjection(present, N)
    BY DEF Surjection
  <2> HIDE DEF present, name
  <2>30. IsFiniteSet(N)
    BY <2>2, <2>3, FS_Surjection
  <2>4. QED
    BY <2>1, <2>30
<1>3. solum_list_dir_frames(Textus(p)) = Items(values)
  BY DEF solum_list_dir_frames, valor_text, Textus
<1> HIDE DEF N
<1>4. /\ names \in Seq(N) /\ Len(names) = Cardinality(N) /\ Cardinality(N) \in Nat
      /\ \A x \in N : \E k \in 1..Cardinality(N) : names[k] = x
  BY <1>2, InOrderIs, FS_CardinalityType
<1> HIDE DEF names
<1>5. DOMAIN names = 1..Len(names) /\ \A i \in 1..Len(names) : names[i] \in N
  BY <1>4
<1>6. values \in Seq(Seq(Int)) /\ DOMAIN values = 1..Len(names)
  <2>1. \A x \in Int : <<x>> \in Seq(Int)
    OBVIOUS
  <2>2. \A i \in 1..Len(names) : <<names[i]>> \in Seq(Int)
    BY ONLY <1>2, <1>5, <2>1
  <2> DEFINE n == Len(names)
             T == Seq(Int)
  <2>3. n \in Nat /\ DOMAIN names = 1..n
    BY <1>4, <1>5
  <2>4. values = [i \in 1..n |-> <<names[i]>>] /\ \A i \in 1..n : <<names[i]>> \in T
    BY <2>2, <2>3
  <2> HIDE DEF n, T, values
  <2>5. values \in [1..n -> T]
    BY <2>4
  <2>6. values \in Seq(T) /\ DOMAIN values = 1..n
    BY <2>3, <2>5
  <2>7. QED
    BY <2>6 DEF n, T
<1>7. Got("Vec<String>", Items(values)) = ResultOk(values)
  BY <1>6, GotItems
<1>8. {values[i] : i \in DOMAIN values} = {<<x>> : x \in N}
  <2>1. \A i \in 1..Len(names) : values[i] = <<names[i]>>
    BY <1>5
  <2> HIDE DEF values
  <2>2. {values[i] : i \in DOMAIN values} = {values[i] : i \in 1..Len(names)}
    BY <1>6
  <2>3. \A i \in 1..Len(names) : values[i] \in {<<x>> : x \in N}
    BY <1>5, <2>1
  <2>4. ASSUME NEW x \in N PROVE <<x>> \in {values[i] : i \in 1..Len(names)}
    <3>1. PICK k \in 1..Len(names) : names[k] = x
      BY <1>4
    <3>2. values[k] = <<x>>
      BY <2>1, <3>1
    <3>3. QED
      BY <3>2
  <2>5. QED
    BY <2>2, <2>3, <2>4
<1>9. {<<x>> : x \in N} = {<<Seqs!Last(q)>> : q \in present}
  BY DEF N
<1> HIDE DEF values
<1>10. QED
  BY <1>3, <1>7, <1>8, <1>9 DEF ResultOk

(* A path is its directory and its name, and joining them gives it back. *)
LEMMA PathsTellNames ==
  ASSUME NEW q \in Path
  PROVE  /\ Got("String", solum_parent_frames(Textus(q))) = ResultOk(Seqs!Front(q))
         /\ Got("String", solum_file_name_frames(Textus(q))) = ResultOk(<<Seqs!Last(q)>>)
         /\ \A p \in Path : q = Append(p, Seqs!Last(q)) =>
              Got("String", solum_join_frames(Lista(<<Textus(p), Textus(<<Seqs!Last(q)>>)>>))) = ResultOk(q)
<1> DEFINE f == Seqs!Front(q)
           x == Seqs!Last(q)
           Text(v) == << [status |-> "Item", data |-> [kind |-> "textus", value |-> v]], DoneFrame >>
<1>1. q \in Seq(Int) /\ f \in Seq(Int) /\ x \in Int /\ <<x>> \in Seq(Int)
  <2>1. q \in Seq(Int) /\ q # <<>>
    BY PathAssumption
  <2>2. QED
    BY <2>1, FrontAndLast
<1>2. valor_text(Textus(q)) /\ Textus(q).value = q
  BY DEF valor_text, Textus
<1>3. /\ solum_parent_frames(Textus(q)) = Text(f)
      /\ solum_file_name_frames(Textus(q)) = Text(<<x>>)
  BY <1>2 DEF solum_parent_frames, solum_file_name_frames, item_done_frames, Item, Textus
<1>4. ASSUME NEW p \in Path, q = Append(p, x)
      PROVE  solum_join_frames(Lista(<<Textus(p), Textus(<<x>>)>>)) = Text(q)
  <2> DEFINE o == Lista(<<Textus(p), Textus(<<x>>)>>)
             parts == [i \in DOMAIN o.items |-> o.items[i].value]
  <2>1. p \in Seq(Int)
    BY PathAssumption
  <2>2. /\ o.kind = "lista" /\ DOMAIN o.items = 1..2
        /\ o.items[1] = Textus(p) /\ o.items[2] = Textus(<<x>>)
    BY DEF Lista
  <2>3. \A i \in DOMAIN o.items : valor_text(o.items[i])
    BY <2>2 DEF valor_text, Textus
  <2> HIDE DEF o
  <2>4. solum_join_frames(o) = item_done_frames(Textus(Seqs!FlattenSeq(parts)))
    BY <2>2, <2>3 DEF solum_join_frames
  <2>5. parts = Append(<<p>>, <<x>>) /\ <<p>> \in Seq(Seq(Int))
    <3>1. parts = <<p, <<x>>>>
      BY <2>2 DEF Textus
    <3>2. QED
      BY <2>1, <3>1
  <2>6. Seqs!FlattenSeq(parts) = Seqs!FlattenSeq(<<p>>) \o <<x>> /\ Seqs!FlattenSeq(<<p>>) = p
    BY <1>1, <2>1, <2>5, FlattenAppend, FlattenFew
  <2>7. Seqs!FlattenSeq(parts) = q
    BY <1>1, <1>4, <2>6, ParentAndName
  <2>8. QED
    BY <2>4, <2>7 DEF o, item_done_frames, Item, Textus
<1> HIDE DEF f, x
<1>5. Got("String", Text(f)) = ResultOk(f) /\ Got("String", Text(<<x>>)) = ResultOk(<<x>>)
        /\ Got("String", Text(q)) = ResultOk(q)
  BY <1>1, GotOne
<1> HIDE DEF Text
<1>6. QED
  BY <1>3, <1>4, <1>5 DEF f, x

(* Listings, tests, resolved paths and names agree. *)
LEMMA TreesRead ==
  ASSUME WellFormed(files), NEW p \in Path
  PROVE  TreeReads(p)
<1> DEFINE listed == Got("Vec<String>", solum_list_dir_frames(Textus(p)))
           shown == {listed.value[i] : i \in DOMAIN listed.value}
           resolved == solum_canonicalize_frames(Textus(p))[1].data.value
           There(q) == Truth("solum:exstat", q) \/ Truth("solum:vinculumne", q)
           present == {r \in Children(End(p)) : files[r].is # "absent"}
<1>1. valor_text(Textus(p)) /\ Textus(p).value = p
  BY DEF valor_text, Textus
<1>2. ASSUME NEW q \in Path PROVE There(q) <=> files[q].is # "absent"
  BY PresentIs, TruthsAre
<1>3. Truth("solum:directoriumne", p) <=> Node(p).is = "dir"
  BY TruthsAre
<1>4. Node(p).is = "dir" => listed.result = "ok" /\ shown = {<<Seqs!Last(q)>> : q \in present}
  BY ListingIs
<1>5. Node(p).is # "dir" => listed.result # "ok"
  <2>1. Node(p).is # "dir" => solum_list_dir_frames(Textus(p)) = error_frames
    BY <1>1 DEF solum_list_dir_frames
  <2>2. Got("Vec<String>", error_frames).result = "Error"
    BY GotError DEF ResultErr
  <2>3. QED
    BY <2>1, <2>2
<1>6. Children(p) # {} => End(p) = p
  <2>1. Children(p) # {} => p \notin Leaves
    BY DEF Leaves
  <2>2. files[p].is = "link" => p \in Leaves
    BY DEF WellFormed
  <2>3. files[p].is # "link" => End(p) = p
    BY NodesAre
  <2>4. QED
    BY <2>1, <2>2, <2>3
<1>7. ASSUME Node(p).is = "dir", NEW v \in shown, p \o v \in Path PROVE There(p \o v)
  <2>1. PICK q \in present : v = <<Seqs!Last(q)>>
    BY <1>4, <1>7
  <2> DEFINE x == Seqs!Last(q)
             r == Append(p, x)
  <2>2. q \in Path /\ x \in Int /\ Seqs!Front(q) = End(p) /\ files[q].is # "absent"
    BY ParentAndName DEF Children
  <2>3. p \o v = r /\ r \in Path /\ r \in Children(p)
    BY <1>7, <2>1, <2>2, ParentAndName DEF Children
  <2>4. q = r
    <3>1. q = Append(Seqs!Front(q), Seqs!Last(q)) /\ Seqs!Front(q) = p
      BY <1>6, <2>2, <2>3, ParentAndName
    <3>2. QED
      BY <3>1
  <2>5. QED
    BY <1>2, <2>2, <2>3, <2>4
<1>8. ASSUME Truth("solum:exstat", p)
      PROVE  ~Truth("solum:vinculumne", resolved) /\ Contents(resolved) = Contents(p)
  <2>1. Exists(p)
    BY <1>8, TruthsAre
  <2>2. resolved = End(p)
    BY <1>1, <2>1 DEF solum_canonicalize_frames, item_done_frames, Item, Textus
  <2>3. End(p) \in Path /\ files[End(p)].is \in {"file", "dir"} /\ End(End(p)) = End(p)
    BY <2>1, NodesAre DEF Exists, Node
  <2>4. Node(End(p)) = Node(p)
    BY <2>3 DEF Node
  <2>5. Contents(End(p)) = Contents(p)
    BY <2>3, <2>4, ContentsAre
  <2>6. ~Truth("solum:vinculumne", End(p))
    BY <2>3, TruthsAre
  <2>7. QED
    BY <2>2, <2>5, <2>6
<1>9. ASSUME NEW q \in Children(p), There(q)
      PROVE  /\ Got("String", solum_parent_frames(Textus(q))).value = p
             /\ Got("String", solum_file_name_frames(Textus(q))).value \in shown
             /\ Got("String", solum_join_frames(Lista(<<Textus(p), Textus(<<Seqs!Last(q)>>)>>))).value = q
  <2>1. q \in Path /\ Len(q) > 1 /\ Seqs!Front(q) = p /\ q = Append(p, Seqs!Last(q))
    BY ParentAndName DEF Children
  <2>2. files[q].is # "absent"
    BY <1>2, <1>9, <2>1
  <2>3. files[p].is = "dir" /\ End(p) = p
    <3>1. Len(q) = 1 \/ files[Seqs!Front(q)].is = "dir"
      BY <2>1, <2>2 DEF WellFormed
    <3>2. QED
      BY <1>6, <1>9, <2>1, <3>1
  <2>4. Node(p).is = "dir" /\ q \in present
    BY <1>9, <2>2, <2>3 DEF Node
  <2>5. <<Seqs!Last(q)>> \in shown
    BY <1>4, <2>4
  <2>6. /\ Got("String", solum_parent_frames(Textus(q))) = ResultOk(p)
        /\ Got("String", solum_file_name_frames(Textus(q))) = ResultOk(<<Seqs!Last(q)>>)
        /\ Got("String", solum_join_frames(Lista(<<Textus(p), Textus(<<Seqs!Last(q)>>)>>))) = ResultOk(q)
    BY ONLY <2>1, PathsTellNames, p \in Path
  <2>7. QED
    BY <2>5, <2>6 DEF ResultOk
<1>10. {p \o listed.value[i] : i \in DOMAIN listed.value} = {p \o v : v \in shown}
  OBVIOUS
<1> HIDE DEF listed, resolved
<1>11. Truth("solum:directoriumne", p) =>
         {p \o listed.value[i] : i \in DOMAIN listed.value} \cap Path \subseteq {q \in Path : There(q)}
  <2>1. SUFFICES ASSUME Node(p).is = "dir", NEW i \in DOMAIN listed.value, p \o listed.value[i] \in Path
        PROVE  There(p \o listed.value[i])
    BY <1>3
  <2>2. listed.value[i] \in shown
    OBVIOUS
  <2>3. QED
    BY <1>7, <2>1, <2>2
<1>12. (listed.result = "ok") = Truth("solum:directoriumne", p)
  <2>1. Truth("solum:directoriumne", p) \in BOOLEAN
    BY DEF Truth
  <2>2. (listed.result = "ok") <=> Truth("solum:directoriumne", p)
    BY <1>3, <1>4, <1>5
  <2>3. QED
    BY <2>1, <2>2
<1>13. QED
  BY <1>8, <1>9, <1>11, <1>12, Zenon DEF TreeReads, listed, resolved

-----------------------------------------------------------------------------
(* What an integer is drawn from. *)
LEMMA DrawsAre == DrawsInRange
<1> SUFFICES ASSUME NEW a \in (-MaxNumerus - 1)..MaxNumerus, NEW b \in (-MaxNumerus - 1)..MaxNumerus
    PROVE  {Got("i64", aleator_sortire_frames(Lista(<<Numerus(a), Numerus(b)>>), r)).value[1] :
              r \in 0..(2 * MaxNumerus + 1)} = Min({a, b})..Max({a, b})
  BY DEF DrawsInRange
<1> DEFINE o == Lista(<<Numerus(a), Numerus(b)>>)
           lo == Min({a, b})
           hi == Max({a, b})
           Drawn(r) == Got("i64", aleator_sortire_frames(o, r)).value[1]
           width == hi - lo + 1
<1>1. MaxNumerus \in Nat /\ a \in Int /\ b \in Int
  BY RoutesAssumption
<1>2. /\ lo \in Int /\ hi \in Int /\ lo <= hi
      /\ width \in Nat /\ width > 0 /\ width <= 2 * MaxNumerus + 2
  <2>1. lo = IF a <= b THEN a ELSE b
    BY <1>1, MinsAre
  <2>2. hi = IF a <= b THEN b ELSE a
    BY <1>1 DEF Max
  <2> HIDE DEF lo, hi
  <2>3. QED
    BY <1>1, <2>1, <2>2
<1>3. ItemKinds(o) = <<"numerus", "numerus">> /\ Arg(o, 1)[1] = a /\ Arg(o, 2)[1] = b
  BY DEF ItemKinds, Arg, Lista, Numerus
<1> HIDE DEF o
<1>4. ASSUME NEW r PROVE Drawn(r) = lo + (r % width)
  <2>1. aleator_sortire_frames(o, r) = item_done_frames(Numerus(lo + (r % width)))
    <3>1. Seqs!IsPrefix(<<"numerus", "numerus">>, <<"numerus", "numerus">>)
      BY DEF Seqs!IsPrefix
    <3>2. QED
      BY <1>3, <3>1 DEF aleator_sortire_frames
  <2> DEFINE x == lo + (r % width)
  <2> HIDE DEF x
  <2>2. Got("i64", << [status |-> "Item", data |-> [kind |-> "numerus", value |-> <<x>>]], DoneFrame >>) = ResultOk(<<x>>)
    BY GotOne
  <2>3. Got("i64", aleator_sortire_frames(o, r)) = ResultOk(<<x>>)
    BY <2>1, <2>2 DEF item_done_frames, Item, Numerus, x
  <2>4. QED
    BY <2>3 DEF ResultOk, x
<1> HIDE DEF lo, hi, Drawn
<1>5. ASSUME NEW r \in 0..(2 * MaxNumerus + 1) PROVE Drawn(r) \in lo..hi
  <2>1. r \in Nat
    BY <1>1
  <2> HIDE DEF width
  <2>2. r % width \in 0..(width - 1)
    BY <1>2, <2>1
  <2>3. QED
    BY <1>2, <1>4, <2>2 DEF width
<1>6. ASSUME NEW v \in lo..hi PROVE \E r \in 0..(2 * MaxNumerus + 1) : Drawn(r) = v
  <2> DEFINE r == v - lo
  <2>1. r \in Nat /\ r < width /\ r \in 0..(2 * MaxNumerus + 1) /\ lo + r = v
    BY <1>1, <1>2
  <2> HIDE DEF width, r
  <2>2. r % width = r
    BY <1>2, <2>1
  <2>3. QED
    BY <1>4, <2>1, <2>2
<1>7. {Drawn(r) : r \in 0..(2 * MaxNumerus + 1)} = lo..hi
  BY <1>5, <1>6
<1>8. QED
  BY <1>7 DEF Drawn, lo, hi, o

-----------------------------------------------------------------------------
(* Beginnings and ends of texts and of paths. *)
LEMMA PrefixIs ==
  ASSUME NEW s \in Seq(Int), NEW t \in Seq(Int)
  PROVE  Seqs!IsPrefix(s, t) <=> Len(s) <= Len(t) /\ \A i \in 1..Len(s) : s[i] = t[i]
<1> DEFINE n == Len(s)
           x == SubSeq(s, 1, n)
           y == SubSeq(t, 1, n)
<1>1. n \in Nat /\ Len(t) \in Nat
  OBVIOUS
<1>2. x = s
  BY SubSeqFull
<1>3. ASSUME n <= Len(t)
      PROVE  y \in Seq(Int) /\ Len(y) = n /\ \A i \in 1..n : y[i] = t[i]
  <2>1. \A i \in 1..n : t[i] \in Int
    BY <1>1, <1>3
  <2> HIDE DEF n
  <2>2. /\ y \in Seq(Int) /\ Len(y) = IF 1 <= n THEN n - 1 + 1 ELSE 0
        /\ \A i \in 1..(n - 1 + 1) : y[i] = t[1 + i - 1]
    BY <1>1, <2>1, SubSeqProperties
  <2>3. QED
    BY <1>1, <2>2
<1> HIDE DEF y, x
<1>4. ASSUME n <= Len(t) PROVE (s = y) <=> \A i \in 1..n : s[i] = t[i]
  <2>1. s = y => \A i \in 1..n : s[i] = t[i]
    BY <1>3, <1>4
  <2>2. (\A i \in 1..n : s[i] = t[i]) => s = y
    BY <1>3, <1>4, SeqEqual
  <2>3. QED
    BY <2>1, <2>2
<1>5. QED
  BY <1>2, <1>4 DEF Seqs!IsPrefix, x, y

(* A list backwards. *)
LEMMA ReverseIs ==
  ASSUME NEW s \in Seq(Int)
  PROVE  Seqs!Reverse(s) \in Seq(Int) /\ Len(Seqs!Reverse(s)) = Len(s)
         /\ \A i \in 1..Len(s) : Seqs!Reverse(s)[i] = s[(Len(s) - i) + 1]
<1> DEFINE n == Len(s)
<1>1. n \in Nat
  OBVIOUS
<1>2. \A i \in 1..n : s[(n - i) + 1] \in Int
  OBVIOUS
<1> HIDE DEF n
<1>3. [i \in 1..n |-> s[(n - i) + 1]] \in [1..n -> Int]
  BY <1>2
<1>4. Seqs!Reverse(s) = [i \in 1..n |-> s[(n - i) + 1]]
  BY DEF Seqs!Reverse, n
<1>5. QED
  BY <1>1, <1>3, <1>4 DEF n

(* What is appended is an end of the result. *)
LEMMA EndsWith ==
  ASSUME NEW b \in Seq(Int), NEW t \in Seq(Int)
  PROVE  Seqs!IsSuffix(t, b \o t)
<1> DEFINE w == b \o t
           x == Seqs!Reverse(t)
           y == Seqs!Reverse(w)
<1>1. /\ w \in Seq(Int) /\ Len(w) = Len(b) + Len(t) /\ Len(b) \in Nat /\ Len(t) \in Nat
      /\ \A i \in 1..Len(t) : w[Len(b) + i] = t[i]
  OBVIOUS
<1> HIDE DEF w
<1>2. /\ x \in Seq(Int) /\ Len(x) = Len(t)
      /\ \A i \in 1..Len(t) : x[i] = t[(Len(t) - i) + 1]
  BY ReverseIs
<1>3. /\ y \in Seq(Int) /\ Len(y) = Len(w)
      /\ \A i \in 1..Len(w) : y[i] = w[(Len(w) - i) + 1]
  BY <1>1, ReverseIs
<1> HIDE DEF x, y
<1>4. ASSUME NEW i \in 1..Len(t) PROVE x[i] = y[i]
  <2> DEFINE k == (Len(t) - i) + 1
  <2>1. k \in 1..Len(t) /\ (Len(w) - i) + 1 = Len(b) + k /\ i \in 1..Len(w)
    BY <1>1
  <2>2. x[i] = t[k] /\ y[i] = w[Len(b) + k]
    BY <1>2, <1>3, <2>1
  <2>3. QED
    BY <1>1, <2>1, <2>2
<1>5. Seqs!IsPrefix(x, y)
  <2>1. Len(x) <= Len(y)
    BY ONLY <1>1, <1>2, <1>3
  <2>2. \A i \in 1..Len(x) : x[i] = y[i]
    BY ONLY <1>2, <1>4
  <2>3. x \in Seq(Int) /\ y \in Seq(Int)
    BY <1>2, <1>3
  <2>4. QED
    BY ONLY <2>1, <2>2, <2>3, PrefixIs
<1>6. QED
  BY <1>5 DEF Seqs!IsSuffix, x, y, w

(* A path is above itself, and so is its parent. *)
LEMMA AboveAndBelow ==
  ASSUME NEW p \in Path
  PROVE  /\ p \in Above(p) /\ p \in Below(p)
         /\ \A q \in Above(p) : Len(q) > 1 => Seqs!Front(q) \in Above(p)
         /\ \A q \in Path : Len(q) > 1 /\ Seqs!Front(q) \in Below(p) => q \in Below(p)
<1>1. \A q \in Path : q \in Seq(Int)
  BY PathAssumption
<1>2. p \in Above(p) /\ p \in Below(p)
  BY <1>1, PrefixIs DEF Above, Below
<1>3. ASSUME NEW q \in Path, Len(q) > 1
      PROVE  /\ Seqs!Front(q) \in Path /\ Seqs!Front(q) \in Seq(Int)
             /\ Len(Seqs!Front(q)) = Len(q) - 1 /\ Len(q) \in Nat
             /\ \A i \in 1..(Len(q) - 1) : Seqs!Front(q)[i] = q[i]
  <2> DEFINE f == Seqs!Front(q)
  <2>1. q \in Seq(Int) /\ q # <<>> /\ f \in Path
    BY <1>1, <1>3, PathAssumption
  <2>2. f \in Seq(Int) /\ Len(f) = Len(q) - 1 /\ q = Append(f, Seqs!Last(q)) /\ Seqs!Last(q) \in Int
    BY <2>1, FrontAndLast
  <2> HIDE DEF f
  <2>3. \A i \in 1..Len(f) : q[i] = f[i]
    BY <2>2
  <2>4. QED
    BY <2>1, <2>2, <2>3 DEF f
<1>4. ASSUME NEW q \in Above(p), Len(q) > 1 PROVE Seqs!Front(q) \in Above(p)
  <2>1. q \in Path /\ Len(q) <= Len(p) /\ \A i \in 1..Len(q) : q[i] = p[i]
    BY <1>1, PrefixIs DEF Above
  <2> DEFINE f == Seqs!Front(q)
  <2>20. f \in Seq(Int) /\ Len(f) = Len(q) - 1 /\ Len(q) \in Nat /\ \A i \in 1..(Len(q) - 1) : f[i] = q[i]
    BY <1>3, <1>4, <2>1
  <2> HIDE DEF f
  <2>21. p \in Seq(Int) /\ Len(p) \in Nat
    BY <1>1
  <2>22. Len(f) <= Len(p) /\ \A i \in 1..Len(f) : f[i] = p[i]
    BY <2>1, <2>20, <2>21
  <2>2. Seqs!IsPrefix(f, p)
    BY ONLY <2>20, <2>21, <2>22, PrefixIs
  <2>3. QED
    BY <1>3, <1>4, <2>1, <2>2 DEF Above, f
<1>5. ASSUME NEW q \in Path, Len(q) > 1, Seqs!Front(q) \in Below(p) PROVE q \in Below(p)
  <2> DEFINE f == Seqs!Front(q)
  <2>1. f \in Seq(Int) /\ Len(f) = Len(q) - 1 /\ Len(q) \in Nat /\ \A i \in 1..(Len(q) - 1) : f[i] = q[i]
    BY <1>3, <1>5
  <2> HIDE DEF f
  <2>2. Len(p) <= Len(f) /\ \A i \in 1..Len(p) : p[i] = f[i]
    BY <1>1, <1>5, <2>1, PrefixIs DEF Below, f
  <2>3. Len(p) \in Nat
    BY <1>1
  <2>4. Len(p) <= Len(q) /\ \A i \in 1..Len(p) : p[i] = q[i]
    BY <2>1, <2>2, <2>3
  <2>5. QED
    BY <1>1, <2>4, PrefixIs DEF Below
<1>6. QED
  BY <1>2, <1>4, <1>5

-----------------------------------------------------------------------------
(* A path is at the root, or below a path. *)
LEMMA RootOrBelow ==
  ASSUME NEW q \in Path
  PROVE  /\ Len(q) \in Nat /\ (Len(q) = 1 \/ Len(q) > 1)
         /\ Len(q) > 1 => Len(q) # 1 /\ Seqs!Front(q) \in Path
<1>1. q \in Seq(Int) /\ q # <<>> /\ (Len(q) > 1 => Seqs!Front(q) \in Path)
  BY PathAssumption
<1>2. Len(q) \in Nat \ {0}
  BY <1>1, EmptySeq
<1> DEFINE n == Len(q)
<1>3. n \in Nat \ {0} /\ (n > 1 => Seqs!Front(q) \in Path)
  BY <1>1, <1>2
<1> HIDE DEF n
<1>4. n \in Nat /\ (n = 1 \/ n > 1) /\ (n > 1 => n # 1 /\ Seqs!Front(q) \in Path)
  BY <1>3
<1>5. QED
  BY <1>4 DEF n

(* File systems.  One node is replaced, all above a path are made, or all   *)
(* below one are removed.                                                   *)
Put(fs, e, node) == [fs EXCEPT ![e] = node]

CanPut(fs, e, node) ==
  /\ node \in Nodes
  /\ fs[e].is = "dir" => node.is = "dir" \/ e \in Leaves
  /\ node.is # "absent" => Len(e) = 1 \/ fs[Seqs!Front(e)].is = "dir"
  /\ node.is = "link" => node.to \in Path /\ e \in Leaves
  /\ node.is = "file" => Len(node.bytes) <= MaxBytes

(* A node may be put where its directory is, when nothing is lost below   *)
(* it; the tree stays well formed and the other nodes are what they were. *)
LEMMA PutNode ==
  ASSUME NEW fs, WellFormed(fs), NEW e \in Path, NEW node, CanPut(fs, e, node),
         NEW gs, gs = Put(fs, e, node)
  PROVE  /\ WellFormed(gs) /\ gs[e] = node
         /\ \A q \in Path : q # e => gs[q] = fs[q]
<1>1. fs \in [Path -> Nodes] /\ node \in Nodes
  BY DEF WellFormed, CanPut
<1>2. /\ gs \in [Path -> Nodes] /\ gs[e] = node
      /\ \A q \in Path : q # e => gs[q] = fs[q]
  BY <1>1 DEF Put
<1>3. ASSUME NEW q \in Path, Len(q) > 1
      PROVE  /\ Seqs!Front(q) \in Path /\ Seqs!Front(q) # q /\ Len(q) \in Nat
             /\ q \in Children(Seqs!Front(q)) /\ Seqs!Front(q) \notin Leaves
  <2> DEFINE f == Seqs!Front(q)
  <2>1. q \in Seq(Int) /\ q # <<>> /\ f \in Path /\ Len(q) \in Nat
    BY <1>3, PathAssumption
  <2>2. Len(f) = Len(q) - 1
    BY <2>1, FrontAndLast
  <2>3. f # q
    BY <2>1, <2>2
  <2>4. q \in Children(f) /\ f \notin Leaves
    BY <1>3, <2>1 DEF Children, Leaves
  <2>5. QED
    BY <2>1, <2>3, <2>4
<1>4. ASSUME NEW q \in Path PROVE Len(q) = 1 \/ Len(q) > 1
  BY RootOrBelow
<1>5. ASSUME NEW q \in Path, gs[q].is # "absent"
      PROVE  Len(q) = 1 \/ gs[Seqs!Front(q)].is = "dir"
  <2>1. CASE Len(q) = 1
    BY <2>1
  <2>2. CASE Len(q) > 1
    <3> DEFINE f == Seqs!Front(q)
    <3>1. f \in Path /\ f # q /\ f \notin Leaves /\ Len(q) # 1
      <4>1. Len(q) # 1
        BY <2>2, RootOrBelow
      <4>2. QED
        BY <1>3, <2>2, <4>1
    <3>2. fs[f].is = "dir"
      <4>1. CASE q = e
        BY <1>2, <1>5, <3>1, <4>1 DEF CanPut
      <4>2. CASE q # e
        BY <1>2, <1>5, <3>1, <4>2 DEF WellFormed
      <4>3. QED
        BY <4>1, <4>2
    <3> HIDE DEF f
    <3>3. gs[f].is = "dir"
      BY <1>2, <3>1, <3>2 DEF CanPut
    <3>4. QED
      BY <3>3 DEF f
  <2>3. QED
    BY <1>4, <2>1, <2>2
<1>6. ASSUME NEW q \in Path
      PROVE  /\ gs[q].is = "link" => gs[q].to \in Path /\ q \in Leaves
             /\ gs[q].is = "file" => Len(gs[q].bytes) <= MaxBytes
  <2>1. CASE q = e
    BY <1>2, <2>1 DEF CanPut
  <2>2. CASE q # e
    BY <1>2, <2>2 DEF WellFormed
  <2>3. QED
    BY <2>1, <2>2
<1>7. WellFormed(gs)
  BY <1>2, <1>5, <1>6 DEF WellFormed
<1>8. QED
  BY <1>2, <1>7

(* The nodes that the routes make are nodes. *)
LEMMA NodesMade ==
  /\ Absent \in Nodes /\ Directory \in Nodes
  /\ Absent.is = "absent" /\ Directory.is = "dir"
  /\ \A b \in Seq(Int), m \in Modes :
       File(b, m) \in Nodes /\ File(b, m).is = "file" /\ File(b, m).bytes = b
  /\ \A p \in Path : Link(p) \in Nodes /\ Link(p).is = "link" /\ Link(p).to = p
<1>1. <<>> \in Seq(Int) /\ 0 \in Modes /\ 493 \in Modes /\ <<>> \in Path \cup {<<>>}
  BY DEF Modes
<1>2. Absent \in Nodes /\ Absent.is = "absent"
  BY <1>1 DEF Absent, Nodes
<1>3. Directory \in Nodes /\ Directory.is = "dir"
  BY <1>1 DEF Directory, Nodes
<1>4. ASSUME NEW b \in Seq(Int), NEW m \in Modes
      PROVE  File(b, m) \in Nodes /\ File(b, m).is = "file" /\ File(b, m).bytes = b
  BY <1>1 DEF File, Nodes
<1>5. ASSUME NEW p \in Path PROVE Link(p) \in Nodes /\ Link(p).is = "link" /\ Link(p).to = p
  BY <1>1 DEF Link, Nodes
<1>6. QED
  BY <1>2, <1>3, <1>4, <1>5

(* Writing at the end of a path: a file there, or nothing in a directory.   *)
Writable(fs, e) ==
  \/ fs[e].is = "file"
  \/ fs[e].is = "absent" /\ (Len(e) = 1 \/ fs[Seqs!Front(e)].is = "dir")

(* The guard of a write, in terms of the end of its path. *)
LEMMA WritableIs ==
  ASSUME WellFormed(files), NEW p \in Path
  PROVE  CanWrite(p) <=> Writable(files, EndOf(files, p))
<1>1. End(p) = EndOf(files, p) /\ Node(p) = files[EndOf(files, p)]
  BY NodesAre DEF NodeOf
<1>2. QED
  BY <1>1 DEF CanWrite, InDirectory, Writable

Stored(fs, p, b, m) ==
  LET e == EndOf(fs, p)
      gs == Put(fs, e, File(b, m))
  IN  /\ WellFormed(gs) /\ SameLinks(fs, gs)
      /\ NodeOf(gs, p) = File(b, m) /\ gs[e] = File(b, m)
      /\ \A q \in Path : q # e => gs[q] = fs[q]

(* A file written at the end of a path is well formed and read there. *)
LEMMA Writing ==
  ASSUME NEW fs, WellFormed(fs), NEW p \in Path, Writable(fs, EndOf(fs, p)),
         NEW b \in Seq(Int), Len(b) <= MaxBytes, NEW m \in Modes
  PROVE  Stored(fs, p, b, m)
<1> DEFINE e == EndOf(fs, p)
           node == File(b, m)
           gs == Put(fs, e, node)
<1>1. e \in Path
  BY EndIs
<1>2. node \in Nodes /\ node.is = "file" /\ node.bytes = b
  <2>1. b \in Seq(Int) /\ m \in Modes /\ <<>> \in Path \cup {<<>>}
    OBVIOUS
  <2>2. QED
    BY ONLY <2>1 DEF File, Nodes
<1>3. fs[e].is = "file" \/ (fs[e].is = "absent" /\ (Len(e) = 1 \/ fs[Seqs!Front(e)].is = "dir"))
  BY DEF Writable
<1> HIDE DEF e, node
<1>4. fs[e].is # "absent" => Len(e) = 1 \/ fs[Seqs!Front(e)].is = "dir"
  BY <1>1 DEF WellFormed
<1>5. CanPut(fs, e, node)
  BY <1>2, <1>3, <1>4 DEF CanPut
<1> HIDE DEF gs
<1>6. WellFormed(gs) /\ gs[e] = node /\ \A q \in Path : q # e => gs[q] = fs[q]
  BY <1>1, <1>5, PutNode DEF gs
<1>7. SameLinks(fs, gs)
  BY <1>1, <1>2, <1>3, <1>6 DEF SameLinks
<1>8. EndOf(gs, p) = e
  BY <1>6, <1>7, SameEnds DEF e
<1>9. QED
  BY <1>6, <1>7, <1>8 DEF Stored, NodeOf, e, node, gs

(* create_dir_all *)
LEMMA MakingDirectories ==
  ASSUME WellFormed(files), NEW p \in Path,
         \A q \in Above(p) : files[q].is \in {"absent", "dir"},
         NEW gs, gs = [q \in Path |-> IF q \in Above(p) THEN Directory ELSE files[q]]
  PROVE  WellFormed(gs) /\ NodeOf(gs, p).is = "dir"
<1>1. files \in [Path -> Nodes] /\ Directory \in Nodes /\ Directory.is = "dir"
  BY NodesMade DEF WellFormed
<1>2. gs \in [Path -> Nodes] /\ \A q \in Path : gs[q] = IF q \in Above(p) THEN Directory ELSE files[q]
  BY <1>1
<1>3. ASSUME NEW q \in Path
      PROVE  /\ gs[q].is # "absent" => Len(q) = 1 \/ gs[Seqs!Front(q)].is = "dir"
             /\ gs[q].is = "link" => gs[q].to \in Path /\ q \in Leaves
             /\ gs[q].is = "file" => Len(gs[q].bytes) <= MaxBytes
  <2>1. Len(q) = 1 \/ (Len(q) > 1 /\ Seqs!Front(q) \in Path)
    BY RootOrBelow
  <2>2. CASE q \in Above(p)
    <3>1. Len(q) = 1 \/ Seqs!Front(q) \in Above(p)
      BY <2>1, <2>2, AboveAndBelow
    <3>2. Len(q) = 1 \/ gs[Seqs!Front(q)] = Directory
      BY <1>2, <2>1, <3>1
    <3>3. gs[q] = Directory
      BY <1>2, <2>2
    <3>4. QED
      BY <1>1, <3>2, <3>3
  <2>3. CASE q \notin Above(p)
    <3>1. gs[q] = files[q]
      BY <1>2, <2>3
    <3>2. gs[q].is # "absent" => Len(q) = 1 \/ files[Seqs!Front(q)].is = "dir"
      BY <3>1 DEF WellFormed
    <3>3. gs[q].is # "absent" => Len(q) = 1 \/ gs[Seqs!Front(q)].is = "dir"
      BY <1>1, <1>2, <2>1, <3>2
    <3>4. QED
      BY <3>1, <3>3 DEF WellFormed
  <2>4. QED
    BY <2>2, <2>3
<1>4. WellFormed(gs)
  BY <1>2, <1>3 DEF WellFormed
<1>5. gs[p].is = "dir"
  BY <1>1, <1>2, AboveAndBelow
<1>6. EndOf(gs, p) = p
  BY <1>4, <1>5, EndIs
<1>7. QED
  BY <1>4, <1>5, <1>6 DEF NodeOf

(* remove_dir_all *)
LEMMA RemovingDirectories ==
  ASSUME WellFormed(files), NEW p \in Path,
         NEW gs, gs = [q \in Path |-> IF q \in Below(p) THEN Absent ELSE files[q]]
  PROVE  WellFormed(gs) /\ gs[p].is = "absent"
<1>1. files \in [Path -> Nodes] /\ Absent \in Nodes /\ Absent.is = "absent"
  BY NodesMade DEF WellFormed
<1>2. gs \in [Path -> Nodes] /\ \A q \in Path : gs[q] = IF q \in Below(p) THEN Absent ELSE files[q]
  BY <1>1
<1>3. ASSUME NEW q \in Path
      PROVE  /\ gs[q].is # "absent" => Len(q) = 1 \/ gs[Seqs!Front(q)].is = "dir"
             /\ gs[q].is = "link" => gs[q].to \in Path /\ q \in Leaves
             /\ gs[q].is = "file" => Len(gs[q].bytes) <= MaxBytes
  <2>1. Len(q) = 1 \/ (Len(q) > 1 /\ Seqs!Front(q) \in Path)
    BY RootOrBelow
  <2>2. CASE q \in Below(p)
    BY <1>1, <1>2, <2>2
  <2>3. CASE q \notin Below(p)
    <3>1. gs[q] = files[q]
      BY <1>2, <2>3
    <3>2. Len(q) = 1 \/ gs[Seqs!Front(q)] = files[Seqs!Front(q)]
      BY <1>2, <2>1, <2>3, AboveAndBelow
    <3>3. QED
      BY <3>1, <3>2 DEF WellFormed
  <2>4. QED
    BY <2>2, <2>3
<1>4. WellFormed(gs)
  BY <1>2, <1>3 DEF WellFormed
<1>5. QED
  BY <1>1, <1>2, <1>4, AboveAndBelow

-----------------------------------------------------------------------------
(* What a request that was answered Done has brought about, in the nodes.   *)
WritingRoutes ==
  {"solum:scribe", "solum:funde", "solum:appone", "solum:dele", "solum:amputa", "solum:crea",
   "solum:exscribe", "solum:renomina", "solum:vincula", "solum:tange", "solum:modum",
   "processus:scribe"}

Shows(fs, v, request) ==
  LET o == request.opener
      p == Arg(o, 1)
      q == Arg(o, 2)
  IN  /\ request.route \in WritingRoutes
      /\ request.route \in {"solum:scribe", "solum:funde"} =>
           p \in Path /\ NodeOf(fs, p).is = "file" /\ BytesOf(fs, p) = q
      /\ request.route = "solum:appone" =>
           /\ p \in Path /\ NodeOf(fs, p).is = "file"
           /\ q \in Seq(Int) /\ \E b \in Seq(Int) : BytesOf(fs, p) = b \o q
      /\ request.route \in {"solum:dele", "solum:amputa"} =>
           o.value \in Path /\ fs[o.value].is = "absent"
      /\ request.route = "solum:crea" =>
           o.value \in Path /\ NodeOf(fs, o.value).is = "dir"
      /\ request.route = "solum:exscribe" =>
           /\ p \in Path /\ NodeOf(fs, p).is = "file"
           /\ q \in Path /\ NodeOf(fs, q).is = "file" /\ BytesOf(fs, p) = BytesOf(fs, q)
      /\ request.route = "solum:renomina" =>
           p \in Path /\ (p # q => fs[p].is = "absent")
      /\ request.route = "solum:vincula" =>
           p \in Path /\ q \in Path /\ fs[q].is = "link" /\ fs[q].to = p
      /\ request.route = "solum:tange" =>
           o.value \in Path /\ NodeOf(fs, o.value).is \in {"file", "dir"}
      /\ request.route = "solum:modum" =>
           /\ p \in Path /\ NodeOf(fs, p).is \in {"file", "dir"}
           /\ q[1] \in Modes /\ NodeOf(fs, p).mode = q[1]
      /\ request.route = "processus:scribe" => v = q

(* The invariant.  A touch in progress has its path and nothing else:      *)
(* between its calls other requests may change what is there.               *)
RoutesInv ==
  /\ WellFormed(files) /\ variable \in Seq(Int)
  /\ touching = NoTouch \/ touching.path \in Path
  /\ answer = done_frames => Shows(files, variable, asked)

(* A path without a node does not exist and is no link. *)
LEMMA GoneIs ==
  ASSUME WellFormed(files), NEW p \in Path, files[p].is = "absent"
  PROVE  ~Truth("solum:exstat", p) /\ ~Truth("solum:vinculumne", p)
  BY PresentIs, TruthsAre

(* What the nodes show of the last Done, the reads show. *)
LEMMA EffectsShow ==
  ASSUME RoutesInv
  PROVE  EffectShows
<1> SUFFICES ASSUME answer = done_frames PROVE EffectShows
  BY DEF EffectShows
<1> DEFINE o == asked.opener
           p == Arg(o, 1)
           q == Arg(o, 2)
           Text(v) == << [status |-> "Item", data |-> [kind |-> "textus", value |-> v]], DoneFrame >>
<1>1. WellFormed(files) /\ variable \in Seq(Int) /\ Shows(files, variable, asked)
  BY DEF RoutesInv
<1>2. ASSUME NEW r \in Path, NodeOf(files, r).is = "file"
      PROVE  Contents(r) = ResultOk(BytesOf(files, r)) /\ Contents(r).value = BytesOf(files, r)
  BY <1>1, <1>2, NodesAre, ContentsAre DEF BytesOf, ResultOk
<1>3. ASSUME NEW r PROVE valor_text(Textus(r)) /\ Textus(r).value = r
  BY DEF valor_text, Textus
<1>4. CASE asked.route \in {"solum:scribe", "solum:funde"}
  <2>1. p \in Path /\ NodeOf(files, p).is = "file" /\ BytesOf(files, p) = q
    BY <1>1, <1>4 DEF Shows
  <2>2. Contents(p).value = q
    BY <1>2, <2>1
  <2>3. CASE asked.route = "solum:scribe"
    BY <2>2, <2>3 DEF EffectShows
  <2>4. CASE asked.route = "solum:funde"
    BY <2>2, <2>4 DEF EffectShows
  <2>5. QED
    BY <1>4, <2>3, <2>4
<1>5. CASE asked.route = "solum:appone"
  <2>1. /\ p \in Path /\ NodeOf(files, p).is = "file"
        /\ q \in Seq(Int) /\ \E b \in Seq(Int) : BytesOf(files, p) = b \o q
    BY <1>1, <1>5 DEF Shows
  <2>2. Seqs!IsSuffix(q, BytesOf(files, p))
    BY <2>1, EndsWith
  <2>3. Contents(p).value = BytesOf(files, p)
    BY <1>2, <2>1
  <2>4. QED
    BY <1>5, <2>2, <2>3 DEF EffectShows
<1>6. CASE asked.route \in {"solum:dele", "solum:amputa"}
  <2>1. o.value \in Path /\ files[o.value].is = "absent"
    BY <1>1, <1>6 DEF Shows
  <2>2. ~Truth("solum:exstat", o.value) /\ ~Truth("solum:vinculumne", o.value)
    BY <1>1, <2>1, GoneIs
  <2>3. CASE asked.route = "solum:dele"
    BY <2>2, <2>3 DEF EffectShows
  <2>4. CASE asked.route = "solum:amputa"
    BY <2>2, <2>4 DEF EffectShows
  <2>5. QED
    BY <1>6, <2>3, <2>4
<1>7. CASE asked.route = "solum:crea"
  <2>1. o.value \in Path /\ NodeOf(files, o.value).is = "dir"
    BY <1>1, <1>7 DEF Shows
  <2>2. Truth("solum:directoriumne", o.value)
    BY <1>1, <2>1, NodesAre, TruthsAre
  <2>3. QED
    BY <1>7, <2>2 DEF EffectShows
<1>8. CASE asked.route = "solum:exscribe"
  <2>1. /\ p \in Path /\ NodeOf(files, p).is = "file"
        /\ q \in Path /\ NodeOf(files, q).is = "file" /\ BytesOf(files, p) = BytesOf(files, q)
    BY <1>1, <1>8 DEF Shows
  <2>2. Contents(p) = Contents(q)
    BY <1>2, <2>1
  <2>3. QED
    BY <1>8, <2>2 DEF EffectShows
<1>9. CASE asked.route = "solum:renomina"
  <2>1. p \in Path /\ (p # q => files[p].is = "absent")
    BY <1>1, <1>9 DEF Shows
  <2>2. p # q => ~Truth("solum:exstat", p) /\ ~Truth("solum:vinculumne", p)
    BY <1>1, <2>1, GoneIs
  <2>3. QED
    BY <1>9, <2>2 DEF EffectShows
<1>10. CASE asked.route = "solum:vincula"
  <2>1. p \in Path /\ q \in Path /\ files[q].is = "link" /\ files[q].to = p
    BY <1>1, <1>10 DEF Shows
  <2>2. solum_follow_symlink_frames(Textus(q)) = Text(p)
    BY <1>3, <2>1 DEF solum_follow_symlink_frames, item_done_frames, Item, Textus
  <2>3. p \in Seq(Int)
    BY <2>1, PathAssumption
  <2> HIDE DEF p
  <2>30. Got("String", Text(p)) = ResultOk(p)
    BY <2>3, GotOne
  <2>4. Got("String", solum_follow_symlink_frames(Textus(q))).value = p
    BY <2>2, <2>30 DEF ResultOk
  <2>5. QED
    BY <1>10, <2>4 DEF EffectShows, p
<1>11. CASE asked.route = "solum:tange"
  <2>1. o.value \in Path /\ NodeOf(files, o.value).is \in {"file", "dir"}
    BY <1>1, <1>11 DEF Shows
  <2>2. Truth("solum:exstat", o.value)
    BY <1>1, <2>1, NodesAre, TruthsAre DEF Exists
  <2>3. QED
    BY <1>11, <2>2 DEF EffectShows
<1>12. CASE asked.route = "solum:modum"
  <2> DEFINE n == TypeBits[Node(p).is] + Node(p).mode
             m == q[1]
  <2>1. /\ p \in Path /\ Node(p).is \in {"file", "dir"} /\ m \in Modes /\ Node(p).mode = m
    <3>1. /\ p \in Path /\ NodeOf(files, p).is \in {"file", "dir"}
          /\ m \in Modes /\ NodeOf(files, p).mode = m
      BY <1>1, <1>12 DEF Shows
    <3>2. Node(p) = NodeOf(files, p)
      BY <1>1, <3>1, NodesAre
    <3>3. QED
      BY ONLY <3>1, <3>2
  <2>2. solum_get_mode_frames(Textus(p)) = << [status |-> "Item", data |-> [kind |-> "numerus", value |-> <<n>>]], DoneFrame >>
    BY <1>3, <2>1 DEF solum_get_mode_frames, Exists, item_done_frames, Item, Numerus
  <2>3. n % 4096 = m
    <3>1. TypeBits[Node(p).is] \in {32768, 16384}
      BY <2>1 DEF TypeBits
    <3> DEFINE bits == TypeBits[Node(p).is]
    <3>2. n = bits + m /\ bits \in {32768, 16384} /\ m \in Modes
      BY <2>1, <3>1
    <3> HIDE DEF m, bits, n
    <3>3. QED
      BY ONLY <3>2 DEF Modes
  <2> HIDE DEF n
  <2>4. Got("i64", solum_get_mode_frames(Textus(p))) = ResultOk(<<n>>)
    BY <2>2, GotOne
  <2>5. Got("i64", solum_get_mode_frames(Textus(p))).value[1] % 4096 = m
    BY <2>3, <2>4 DEF ResultOk
  <2>6. QED
    BY <1>12, <2>5 DEF EffectShows
<1>13. CASE asked.route = "processus:scribe"
  <2>1. variable = q
    BY <1>1, <1>13 DEF Shows
  <2>2. Got("String", processus_lege_frames(Textus(p))).value = variable
    <3>1. CASE variable = <<>>
      <4>1. processus_lege_frames(Textus(p)) = error_frames
        BY <3>1 DEF processus_lege_frames
      <4>2. QED
        BY <3>1, <4>1, GotError DEF ResultErr
    <3>2. CASE variable # <<>>
      <4>1. processus_lege_frames(Textus(p)) = Text(variable)
        BY <1>3, <3>2 DEF processus_lege_frames, item_done_frames, Item, Textus
      <4>2. Got("String", Text(variable)) = ResultOk(variable)
        BY <1>1, GotOne
      <4>3. QED
        BY <4>1, <4>2 DEF ResultOk
    <3>3. QED
      BY <3>1, <3>2
  <2>3. QED
    BY <1>13, <2>1, <2>2 DEF EffectShows
<1>14. asked.route \in WritingRoutes
  BY <1>1 DEF Shows
<1>15. QED
  BY <1>4, <1>5, <1>6, <1>7, <1>8, <1>9, <1>10, <1>11, <1>12, <1>13, <1>14 DEF WritingRoutes

(* The invariant has everything that the routes are to agree on. *)
LEMMA TheyAgree == RoutesInv => RoutesAgree
<1> SUFFICES ASSUME RoutesInv PROVE RoutesAgree
  OBVIOUS
<1>1. WellFormed(files)
  BY DEF RoutesInv
<1>2. ASSUME NEW p \in Path PROVE FileReads(p) /\ WindowReads(p) /\ TreeReads(p)
  BY <1>1, FilesRead, WindowsRead, TreesRead
<1>3. QED
  BY <1>2, EffectsShow, DrawsAre DEF RoutesAgree

(* A request is answered Done, with what it brought about, or Error. *)
LEMMA Answers ==
  ASSUME RoutesInv, variable' \in Seq(Int), touching' = NoTouch \/ touching'.path \in Path,
         \/ files' = files /\ answer' = error_frames
         \/ WellFormed(files') /\ Shows(files', variable', asked')
  PROVE  RoutesInv'
<1>1. done_frames # error_frames
  <2>1. done_frames[1].status = "Done" /\ error_frames[1].status = "Error"
    BY DEF done_frames, DoneFrame, error_frames
  <2>2. QED
    BY <2>1
<1>2. CASE files' = files /\ answer' = error_frames
  <2>1. WellFormed(files') /\ answer' # done_frames
    BY <1>1, <1>2 DEF RoutesInv
  <2>2. QED
    BY <2>1 DEF RoutesInv
<1>3. CASE WellFormed(files') /\ Shows(files', variable', asked')
  BY <1>3 DEF RoutesInv
<1>4. QED
  BY <1>2, <1>3

(* What the openers hold. *)
LEMMA OpenersAre ==
  /\ \A o \in PathOpeners : valor_text(o) => o.value \in Path
  /\ \A o \in TextOpeners : valor_text_pair(o) =>
       Arg(o, 1) \in Path /\ Arg(o, 2) \in Seq(Int) /\ Len(Arg(o, 2)) <= MaxBytes
  /\ \A o \in ByteOpeners : valor_path_bytes(o) =>
       Arg(o, 1) \in Path /\ Arg(o, 2) \in Seq(Int) /\ Len(Arg(o, 2)) <= MaxBytes
  /\ \A from, to : \A o \in PairOpeners(from, to) : Arg(o, 1) \in from /\ Arg(o, 2) \in to
  /\ \A o \in ModeOpeners : Arg(o, 1) \in Path
<1>1. /\ ~valor_text(Nihil) /\ ~valor_text_pair(Nihil) /\ ~valor_path_bytes(Nihil)
  <2>1. ItemKinds(Nihil) = <<>> /\ Nihil.kind = "nihil"
    BY DEF ItemKinds, Nihil
  <2>2. <<>> # <<"textus", "textus">> /\ <<>> # <<"textus", "octeti">> /\ <<>> # <<"textus", "bytes">>
    OBVIOUS
  <2>3. QED
    BY <2>1, <2>2 DEF valor_text, valor_text_pair, valor_path_bytes
<1>2. \A x, y : Arg(Lista(<<Textus(x), Textus(y)>>), 1) = x /\ Arg(Lista(<<Textus(x), Textus(y)>>), 2) = y
  BY DEF Arg, Lista, Textus
<1>3. \A x, y : Arg(Lista(<<Textus(x), Octeti(y)>>), 1) = x /\ Arg(Lista(<<Textus(x), Octeti(y)>>), 2) = y
  BY DEF Arg, Lista, Textus, Octeti
<1>4. \A x, y : Arg(Lista(<<Textus(x), Numerus(y)>>), 1) = x
  BY DEF Arg, Lista, Textus, Numerus
<1>5. \A t \in Texts \cup Blobs : t \in Seq(Int) /\ Len(t) <= MaxBytes
  BY RoutesAssumption
<1>6. \A o \in PathOpeners : valor_text(o) => o.value \in Path
  BY <1>1 DEF PathOpeners, Textus
<1>7. ASSUME NEW o \in TextOpeners, valor_text_pair(o)
      PROVE  Arg(o, 1) \in Path /\ Arg(o, 2) \in Seq(Int) /\ Len(Arg(o, 2)) <= MaxBytes
  <2>1. PICK p \in Path, t \in Texts : o = Lista(<<Textus(p), Textus(t)>>)
    BY <1>1, <1>7 DEF TextOpeners
  <2>2. QED
    BY <1>2, <1>5, <2>1
<1>8. ASSUME NEW o \in ByteOpeners, valor_path_bytes(o)
      PROVE  Arg(o, 1) \in Path /\ Arg(o, 2) \in Seq(Int) /\ Len(Arg(o, 2)) <= MaxBytes
  <2>1. PICK p \in Path, t \in Blobs : o = Lista(<<Textus(p), Octeti(t)>>)
    BY <1>1, <1>8 DEF ByteOpeners
  <2>2. QED
    BY <1>3, <1>5, <2>1
<1>9. ASSUME NEW from, NEW to, NEW o \in PairOpeners(from, to)
      PROVE  Arg(o, 1) \in from /\ Arg(o, 2) \in to
  <2>1. PICK p \in from, q \in to : o = Lista(<<Textus(p), Textus(q)>>)
    BY DEF PairOpeners
  <2>2. QED
    BY <1>2, <2>1
<1>10. ASSUME NEW o \in ModeOpeners PROVE Arg(o, 1) \in Path
  <2>1. PICK p \in Path, m \in FileModes : o = Lista(<<Textus(p), Numerus(m)>>)
    BY DEF ModeOpeners
  <2>2. QED
    BY <1>4, <2>1
<1>11. QED
  BY <1>6, <1>7, <1>8, <1>9, <1>10

-----------------------------------------------------------------------------
(* The routes that write, one by one. *)
LEMMA ModesAre == NewMode \in Modes /\ \A node \in Nodes : node.mode \in Modes
<1>1. NewMode \in Modes
  BY DEF NewMode, Modes
<1>2. ASSUME NEW node \in Nodes PROVE node.mode \in Modes
  BY DEF Nodes
<1>3. QED
  BY <1>1, <1>2

(* The variable and the touch, where a route leaves them alone. *)
LEMMA Unmoved ==
  ASSUME RoutesInv, UNCHANGED <<variable, touching>>
  PROVE  variable' \in Seq(Int) /\ (touching' = NoTouch \/ touching'.path \in Path)
  BY DEF RoutesInv

(* What is written at the end of a path is what is found there. *)
LEMMA WritesAt ==
  ASSUME WellFormed(files), NEW p \in Path, CanWrite(p), NEW b \in Seq(Int), Len(b) <= MaxBytes
  PROVE  LET gs == Written(p, b)
         IN  WellFormed(gs) /\ NodeOf(gs, p).is = "file" /\ BytesOf(gs, p) = b
<1> DEFINE mode == IF files[End(p)].is = "file" THEN files[End(p)].mode ELSE NewMode
           gs == Written(p, b)
<1>1. /\ files[End(p)] \in Nodes /\ End(p) = EndOf(files, p) /\ Writable(files, EndOf(files, p))
  BY NodesAre, WritableIs DEF Node
<1>2. mode \in Modes
  BY <1>1, ModesAre
<1>3. gs = Put(files, EndOf(files, p), File(b, mode))
  BY <1>1 DEF Written, Put
<1> HIDE DEF gs, mode
<1>4. Stored(files, p, b, mode)
  BY <1>1, <1>2, Writing
<1>5. WellFormed(gs) /\ NodeOf(gs, p) = File(b, mode)
  BY <1>3, <1>4 DEF Stored
<1>6. QED
  BY <1>5 DEF BytesOf, File, gs

(* solum:scribe and solum:appone. *)
LEMMA WritesText ==
  ASSUME RoutesInv, NEW o \in TextOpeners, NEW route \in {"solum:scribe", "solum:appone"},
         solum_write_text_frames(route, o), UNCHANGED <<variable, touching>>
  PROVE  RoutesInv'
<1> DEFINE p == Arg(o, 1)
           add == Arg(o, 2)
           text == IF route = "solum:appone" THEN Node(p).bytes \o add ELSE add
           ok == valor_text_pair(o) /\ CanWrite(p)
           request == [route |-> route, opener |-> o]
<1>1. /\ files' = IF ok THEN Written(p, text) ELSE files
      /\ answer' = IF ok THEN done_frames ELSE error_frames
      /\ asked' = IF ok THEN request ELSE NoRequest
      /\ valor_text_pair(o) => Len(text) <= MaxBytes
  BY DEF solum_write_text_frames, Effect
<1>2. ASSUME ok PROVE WellFormed(files') /\ Shows(files', variable', asked')
  <2>1. WellFormed(files) /\ p \in Path /\ add \in Seq(Int) /\ CanWrite(p) /\ Len(text) <= MaxBytes
    BY <1>1, <1>2, OpenersAre DEF RoutesInv
  <2>2. Node(p).bytes \in Seq(Int)
    BY <2>1, NodesAre
  <2>3. text \in Seq(Int)
    <3>1. \A b, c \in Seq(Int) : b \o c \in Seq(Int)
      OBVIOUS
    <3>2. QED
      BY ONLY <2>1, <2>2, <3>1
  <2>4. files' = Written(p, text) /\ asked' = request
    BY <1>1, <1>2
  <2> HIDE DEF text, ok, p, add
  <2>5. PICK b \in Seq(Int) : b = text
    BY <2>3
  <2>6. files' = Written(p, b) /\ Len(b) <= MaxBytes
    BY <2>1, <2>4, <2>5
  <2>7. WellFormed(files') /\ NodeOf(files', p).is = "file" /\ BytesOf(files', p) = b
    BY <2>1, <2>6, WritesAt
  <2>8. CASE route = "solum:scribe"
    <3>1. b = add
      BY <2>5, <2>8 DEF text
    <3>2. Shows(files', variable', asked')
      BY <2>1, <2>4, <2>7, <2>8, <3>1 DEF Shows, WritingRoutes, p, add
    <3>3. QED
      BY <2>7, <3>2
  <2>9. CASE route = "solum:appone"
    <3>1. \E old \in Seq(Int) : b = old \o add
      <4> DEFINE before == Node(p).bytes
      <4>1. b = before \o add /\ before \in Seq(Int)
        BY <2>2, <2>5, <2>9 DEF text
      <4> HIDE DEF before
      <4>2. QED
        BY ONLY <4>1
    <3>2. Shows(files', variable', asked')
      BY <2>1, <2>4, <2>7, <2>9, <3>1 DEF Shows, WritingRoutes, p, add
    <3>3. QED
      BY <2>7, <3>2
  <2>10. QED
    BY <2>8, <2>9
<1>3. QED
  BY <1>1, <1>2, Unmoved, Answers

(* solum:funde. *)
LEMMA WritesBytes ==
  ASSUME RoutesInv, NEW o \in ByteOpeners,
         solum_write_bytes_frames("solum:funde", o), UNCHANGED <<variable, touching>>
  PROVE  RoutesInv'
<1> DEFINE p == Arg(o, 1)
           b == Arg(o, 2)
           ok == valor_path_bytes(o) /\ CanWrite(p)
           request == [route |-> "solum:funde", opener |-> o]
<1>1. /\ files' = IF ok THEN Written(p, b) ELSE files
      /\ answer' = IF ok THEN done_frames ELSE error_frames
      /\ asked' = IF ok THEN request ELSE NoRequest
  BY DEF solum_write_bytes_frames, Effect
<1>2. ASSUME ok PROVE WellFormed(files') /\ Shows(files', variable', asked')
  <2>1. WellFormed(files) /\ p \in Path /\ b \in Seq(Int) /\ CanWrite(p) /\ Len(b) <= MaxBytes
    BY <1>2, OpenersAre DEF RoutesInv
  <2>2. files' = Written(p, b) /\ asked' = request
    BY <1>1, <1>2
  <2> HIDE DEF p, b
  <2>3. WellFormed(files') /\ NodeOf(files', p).is = "file" /\ BytesOf(files', p) = b
    BY <2>1, <2>2, WritesAt
  <2>4. QED
    BY <2>1, <2>2, <2>3 DEF Shows, WritingRoutes, p, b
<1>3. QED
  BY <1>1, <1>2, Unmoved, Answers

(* solum:dele. *)
LEMMA Deletes ==
  ASSUME RoutesInv, NEW o \in PathOpeners,
         solum_delete_frames("solum:dele", o), UNCHANGED <<variable, touching>>
  PROVE  RoutesInv'
<1> DEFINE p == o.value
           ok == /\ valor_text(o) /\ files[p].is # "dir"
                 /\ Len(p) = 1 \/ files[Seqs!Front(p)].is # "file"
           request == [route |-> "solum:dele", opener |-> o]
<1>1. /\ files' = IF ok THEN Put(files, p, Absent) ELSE files
      /\ answer' = IF ok THEN done_frames ELSE error_frames
      /\ asked' = IF ok THEN request ELSE NoRequest
  BY DEF solum_delete_frames, Effect, Put
<1>2. ASSUME ok PROVE WellFormed(files') /\ Shows(files', variable', asked')
  <2>1. WellFormed(files) /\ p \in Path /\ files[p].is # "dir"
    BY <1>2, OpenersAre DEF RoutesInv
  <2>2. CanPut(files, p, Absent)
    BY <2>1, NodesMade DEF CanPut
  <2>3. files' = Put(files, p, Absent) /\ asked' = request
    BY <1>1, <1>2
  <2>4. WellFormed(files') /\ files'[p] = Absent
    BY <2>1, <2>2, <2>3, PutNode
  <2>5. QED
    BY <2>1, <2>3, <2>4, NodesMade DEF Shows, WritingRoutes
<1>3. QED
  BY <1>1, <1>2, Unmoved, Answers

(* solum:crea makes what is missing above a path, too. *)
LEMMA CreatesDirectories ==
  ASSUME RoutesInv, NEW o \in PathOpeners,
         solum_create_dir_frames("solum:crea", o), UNCHANGED <<variable, touching>>
  PROVE  RoutesInv'
<1> DEFINE p == o.value
           ok == /\ valor_text(o)
                 /\ \/ Node(p).is = "dir"
                    \/ \A q \in Above(p) : files[q].is \in {"absent", "dir"}
           made == [q \in Path |-> IF q \in Above(p) THEN Directory ELSE files[q]]
           request == [route |-> "solum:crea", opener |-> o]
<1>1. /\ files' = IF ok THEN IF Node(p).is = "dir" THEN files ELSE made ELSE files
      /\ answer' = IF ok THEN done_frames ELSE error_frames
      /\ asked' = IF ok THEN request ELSE NoRequest
  BY DEF solum_create_dir_frames, Effect
<1>2. ASSUME ok PROVE WellFormed(files') /\ Shows(files', variable', asked')
  <2>1. WellFormed(files) /\ p \in Path
    BY <1>2, OpenersAre DEF RoutesInv
  <2>2. asked' = request
    BY <1>1, <1>2
  <2>3. WellFormed(files') /\ NodeOf(files', p).is = "dir"
    <3>1. CASE Node(p).is = "dir"
      <4>1. files' = files
        BY <1>1, <1>2, <3>1
      <4>2. Node(p) = NodeOf(files, p)
        BY <2>1, NodesAre
      <4>3. QED
        BY <2>1, <3>1, <4>1, <4>2
    <3>2. CASE Node(p).is # "dir"
      <4>1. files' = made /\ \A q \in Above(p) : files[q].is \in {"absent", "dir"}
        BY <1>1, <1>2, <3>2
      <4>2. QED
        BY <2>1, <4>1, MakingDirectories
    <3>3. QED
      BY <3>1, <3>2
  <2>4. QED
    BY <2>1, <2>2, <2>3 DEF Shows, WritingRoutes
<1>3. QED
  BY <1>1, <1>2, Unmoved, Answers

(* solum:amputa takes everything below a path along. *)
LEMMA RemovesDirectories ==
  ASSUME RoutesInv, NEW o \in PathOpeners,
         solum_remove_dir_frames("solum:amputa", o), UNCHANGED <<variable, touching>>
  PROVE  RoutesInv'
<1> DEFINE p == o.value
           ok == valor_text(o) /\ files[p].is \in {"dir", "link"}
           remains == [q \in Path |-> IF q \in Below(p) THEN Absent ELSE files[q]]
           request == [route |-> "solum:amputa", opener |-> o]
<1>1. /\ files' = IF ok THEN remains ELSE files
      /\ answer' = IF ok THEN done_frames ELSE error_frames
      /\ asked' = IF ok THEN request ELSE NoRequest
  BY DEF solum_remove_dir_frames, Effect
<1>2. ASSUME ok PROVE WellFormed(files') /\ Shows(files', variable', asked')
  <2>1. WellFormed(files) /\ p \in Path
    BY <1>2, OpenersAre DEF RoutesInv
  <2>2. files' = remains /\ asked' = request
    BY <1>1, <1>2
  <2>3. WellFormed(files') /\ files'[p].is = "absent"
    BY <2>1, <2>2, RemovingDirectories
  <2>4. QED
    BY <2>1, <2>2, <2>3 DEF Shows, WritingRoutes
<1>3. QED
  BY <1>1, <1>2, Unmoved, Answers

(* solum:exscribe. *)
LEMMA Copies ==
  ASSUME RoutesInv, NEW o \in PairOpeners(Path, Path),
         solum_copy_frames("solum:exscribe", o), UNCHANGED <<variable, touching>>
  PROVE  RoutesInv'
<1> DEFINE p == Arg(o, 1)
           q == Arg(o, 2)
           bytes == IF End(p) = End(q) THEN <<>> ELSE Node(p).bytes
           ok == valor_text_pair(o) /\ Node(p).is = "file" /\ CanWrite(q)
           request == [route |-> "solum:exscribe", opener |-> o]
<1>1. /\ files' = IF ok THEN Put(files, End(q), File(bytes, Node(p).mode)) ELSE files
      /\ answer' = IF ok THEN done_frames ELSE error_frames
      /\ asked' = IF ok THEN request ELSE NoRequest
  BY DEF solum_copy_frames, Effect, Put
<1>2. ASSUME ok PROVE WellFormed(files') /\ Shows(files', variable', asked')
  <2>1. WellFormed(files) /\ p \in Path /\ q \in Path /\ Node(p).is = "file" /\ CanWrite(q)
    BY <1>2, OpenersAre DEF RoutesInv
  <2>2. files' = Put(files, End(q), File(bytes, Node(p).mode)) /\ asked' = request
    BY <1>1, <1>2
  <2> HIDE DEF p, q, ok
  <2>3. /\ Node(p) \in Nodes /\ Node(p).bytes \in Seq(Int) /\ Len(Node(p).bytes) <= MaxBytes
        /\ End(p) = EndOf(files, p) /\ Node(p) = files[End(p)] /\ End(p) \in Path
    BY <2>1, NodesAre DEF Node
  <2>4. End(q) = EndOf(files, q) /\ Writable(files, EndOf(files, q))
    BY <2>1, NodesAre, WritableIs
  <2>5. Node(p).mode \in Modes
    BY <2>3, ModesAre
  <2>6. bytes \in Seq(Int) /\ Len(bytes) <= MaxBytes
    <3>1. <<>> \in Seq(Int) /\ Len(<<>>) = 0 /\ 0 <= MaxBytes
      BY RoutesAssumption
    <3>2. QED
      BY <2>3, <3>1
  <2> HIDE DEF bytes
  <2>7. Stored(files, q, bytes, Node(p).mode)
    BY <2>1, <2>4, <2>5, <2>6, Writing
  <2> DEFINE node == File(bytes, Node(p).mode)
  <2>8. node.is = "file" /\ node.bytes = bytes
    BY DEF File
  <2>9. /\ WellFormed(files') /\ SameLinks(files, files')
        /\ NodeOf(files', q) = node /\ files'[End(q)] = node
        /\ \A r \in Path : r # End(q) => files'[r] = files[r]
    BY <2>2, <2>4, <2>7 DEF Stored
  <2>10. NodeOf(files', p) = files'[End(p)]
    BY <2>1, <2>3, <2>9, SameEnds DEF NodeOf
  <2> HIDE DEF node
  <2>11. NodeOf(files', p).is = "file" /\ BytesOf(files', p) = BytesOf(files', q)
    <3>1. CASE End(p) = End(q)
      BY <2>8, <2>9, <2>10, <3>1 DEF BytesOf
    <3>2. CASE End(p) # End(q)
      <4>1. NodeOf(files', p) = Node(p)
        BY <2>3, <2>9, <2>10, <3>2
      <4>2. bytes = Node(p).bytes
        BY <3>2 DEF bytes
      <4>3. QED
        BY <2>1, <2>8, <2>9, <4>1, <4>2 DEF BytesOf
    <3>3. QED
      BY <3>1, <3>2
  <2>12. NodeOf(files', q).is = "file"
    BY <2>8, <2>9
  <2>13. Shows(files', variable', asked')
    BY <2>1, <2>2, <2>11, <2>12 DEF Shows, WritingRoutes, p, q
  <2>14. QED
    BY <2>9, <2>13
<1>3. QED
  BY <1>1, <1>2, Unmoved, Answers

(* solum:renomina. *)
LEMMA Renames ==
  ASSUME RoutesInv, NEW o \in PairOpeners(Leaves, Leaves),
         solum_rename_frames("solum:renomina", o), UNCHANGED <<variable, touching>>
  PROVE  RoutesInv'
<1> DEFINE p == Arg(o, 1)
           q == Arg(o, 2)
           like == IF files[p].is = "dir" THEN {"absent", "dir"} ELSE {"absent", "file", "link"}
           ok == valor_text_pair(o) /\ files[p].is # "absent" /\ InDirectory(q) /\ files[q].is \in like
           request == [route |-> "solum:renomina", opener |-> o]
<1>1. /\ files' = IF ok THEN [files EXCEPT ![p] = Absent, ![q] = files[p]] ELSE files
      /\ answer' = IF ok THEN done_frames ELSE error_frames
      /\ asked' = IF ok THEN request ELSE NoRequest
  BY DEF solum_rename_frames, Effect
<1>2. ASSUME ok PROVE WellFormed(files') /\ Shows(files', variable', asked')
  <2>1. /\ WellFormed(files) /\ p \in Leaves /\ q \in Leaves /\ p \in Path /\ q \in Path
        /\ InDirectory(q)
    BY <1>2, OpenersAre DEF RoutesInv, Leaves
  <2>2. files' = [files EXCEPT ![p] = Absent, ![q] = files[p]] /\ asked' = request
    BY <1>1, <1>2
  <2> HIDE DEF p, q, ok
  <2> DEFINE node == files[p]
             gs == Put(files, p, Absent)
  <2>3. files' = Put(gs, q, node)
    BY <2>2 DEF Put
  <2>4. /\ node \in Nodes /\ files \in [Path -> Nodes]
        /\ node.is = "link" => node.to \in Path
        /\ node.is = "file" => Len(node.bytes) <= MaxBytes
    BY <2>1 DEF WellFormed
  <2>5. CanPut(files, p, Absent)
    BY <2>1, NodesMade DEF CanPut
  <2> HIDE DEF node, gs
  <2>6. WellFormed(gs) /\ gs[p] = Absent /\ \A r \in Path : r # p => gs[r] = files[r]
    BY <2>1, <2>5, PutNode DEF gs
  <2>7. Len(q) = 1 \/ gs[Seqs!Front(q)].is = "dir"
    <3>1. CASE Len(q) = 1
      BY <3>1
    <3>2. CASE Len(q) # 1
      <4> DEFINE f == Seqs!Front(q)
      <4>1. Len(q) > 1 /\ f \in Path /\ files[f].is = "dir"
        BY <2>1, <3>2, RootOrBelow DEF InDirectory
      <4>2. q \in Children(f) /\ f \notin Leaves
        BY <2>1, <4>1 DEF Children, Leaves
      <4> HIDE DEF f
      <4>3. gs[f] = files[f]
        BY <2>1, <2>6, <4>1, <4>2
      <4>4. QED
        BY <4>1, <4>3 DEF f
    <3>3. QED
      BY <3>1, <3>2
  <2>8. CanPut(gs, q, node)
    BY <2>1, <2>4, <2>7 DEF CanPut
  <2>9. WellFormed(files') /\ \A r \in Path : r # q => files'[r] = gs[r]
    BY <2>1, <2>3, <2>6, <2>8, PutNode
  <2>10. p # q => files'[p].is = "absent"
    BY <2>1, <2>6, <2>9, NodesMade
  <2>11. Shows(files', variable', asked')
    BY <2>1, <2>2, <2>10 DEF Shows, WritingRoutes, p, q
  <2>12. QED
    BY <2>9, <2>11
<1>3. QED
  BY <1>1, <1>2, Unmoved, Answers

(* solum:vincula. *)
LEMMA Links ==
  ASSUME RoutesInv, NEW o \in PairOpeners(Path, Leaves),
         solum_create_symlink_frames("solum:vincula", o), UNCHANGED <<variable, touching>>
  PROVE  RoutesInv'
<1> DEFINE p == Arg(o, 1)
           q == Arg(o, 2)
           ok == valor_text_pair(o) /\ files[q].is = "absent" /\ InDirectory(q)
           request == [route |-> "solum:vincula", opener |-> o]
<1>1. /\ files' = IF ok THEN Put(files, q, Link(p)) ELSE files
      /\ answer' = IF ok THEN done_frames ELSE error_frames
      /\ asked' = IF ok THEN request ELSE NoRequest
  BY DEF solum_create_symlink_frames, Effect, Put
<1>2. ASSUME ok PROVE WellFormed(files') /\ Shows(files', variable', asked')
  <2>1. /\ WellFormed(files) /\ q \in Leaves /\ p \in Path /\ q \in Path
        /\ files[q].is = "absent" /\ InDirectory(q)
    BY <1>2, OpenersAre DEF RoutesInv, Leaves
  <2>2. files' = Put(files, q, Link(p)) /\ asked' = request
    BY <1>1, <1>2
  <2> HIDE DEF p, q, ok
  <2>3. Link(p) \in Nodes /\ Link(p).is = "link" /\ Link(p).to = p
    BY <2>1, NodesMade
  <2>4. CanPut(files, q, Link(p))
    BY <2>1, <2>3 DEF CanPut, InDirectory
  <2>5. WellFormed(files') /\ files'[q] = Link(p)
    BY <2>1, <2>2, <2>4, PutNode
  <2>6. Shows(files', variable', asked')
    BY <2>1, <2>2, <2>3, <2>5 DEF Shows, WritingRoutes, p, q
  <2>7. QED
    BY <2>5, <2>6
<1>3. QED
  BY <1>1, <1>2, Unmoved, Answers

(* solum:modum. *)
LEMMA SetsModes ==
  ASSUME RoutesInv, NEW o \in ModeOpeners,
         solum_set_mode_frames("solum:modum", o), UNCHANGED <<variable, touching>>
  PROVE  RoutesInv'
<1> DEFINE p == Arg(o, 1)
           m == Arg(o, 2)[1]
           node == [files[End(p)] EXCEPT !.mode = m]
           ok == valor_text_numerus_pair(o) /\ m \in Modes /\ Exists(p)
           request == [route |-> "solum:modum", opener |-> o]
<1>1. /\ files' = IF ok THEN Put(files, End(p), node) ELSE files
      /\ answer' = IF ok THEN done_frames ELSE error_frames
      /\ asked' = IF ok THEN request ELSE NoRequest
  BY DEF solum_set_mode_frames, Effect, Put
<1>2. ASSUME ok PROVE WellFormed(files') /\ Shows(files', variable', asked')
  <2>1. WellFormed(files) /\ p \in Path /\ m \in Modes /\ Exists(p)
    BY <1>2, OpenersAre DEF RoutesInv
  <2>2. files' = Put(files, End(p), node) /\ asked' = request
    BY <1>1, <1>2
  <2> HIDE DEF p, m, ok
  <2> DEFINE e == End(p)
  <2>3. e \in Path /\ files[e] \in Nodes /\ files[e].is \in {"file", "dir"} /\ e = EndOf(files, p)
    BY <2>1, NodesAre DEF Exists, Node
  <2>4. /\ node \in Nodes /\ node.is = files[e].is /\ node.bytes = files[e].bytes
        /\ node.mode = m
    BY <2>1, <2>3 DEF Nodes
  <2> HIDE DEF node, e
  <2>5. CanPut(files, e, node)
    BY <2>1, <2>3, <2>4 DEF CanPut, WellFormed
  <2>6. WellFormed(files') /\ files'[e] = node /\ \A r \in Path : r # e => files'[r] = files[r]
    BY <2>1, <2>2, <2>3, <2>5, PutNode DEF e
  <2>7. SameLinks(files, files')
    BY <2>3, <2>4, <2>6 DEF SameLinks
  <2>8. NodeOf(files', p) = node
    BY <2>1, <2>3, <2>6, <2>7, SameEnds DEF NodeOf
  <2>9. NodeOf(files', p).is \in {"file", "dir"} /\ NodeOf(files', p).mode = m
    BY <2>3, <2>4, <2>8
  <2>10. Shows(files', variable', asked')
    BY <2>1, <2>2, <2>9 DEF Shows, WritingRoutes, p, m
  <2>11. QED
    BY <2>6, <2>10
<1>3. QED
  BY <1>1, <1>2, Unmoved, Answers

(* processus:scribe. *)
LEMMA SetsVariable ==
  ASSUME RoutesInv, NEW t \in Texts,
         processus_scribe_frames("processus:scribe", Lista(<<Textus(t), Textus(t)>>)), UNCHANGED touching
  PROVE  RoutesInv'
<1> DEFINE o == Lista(<<Textus(t), Textus(t)>>)
           request == [route |-> "processus:scribe", opener |-> o]
<1>1. valor_text_pair(o) /\ Arg(o, 2) = t /\ t \in Seq(Int)
  BY RoutesAssumption DEF valor_text_pair, ItemKinds, Lista, Textus, Arg
<1> HIDE DEF o
<1>2. files' = files /\ asked' = request /\ variable' = t
  BY <1>1 DEF processus_scribe_frames, Effect, o
<1>3. WellFormed(files') /\ Shows(files', variable', asked')
  BY <1>1, <1>2 DEF RoutesInv, Shows, WritingRoutes
<1>4. variable' \in Seq(Int) /\ (touching' = NoTouch \/ touching'.path \in Path)
  BY <1>1, <1>2 DEF RoutesInv
<1>5. QED
  BY <1>3, <1>4, Answers

(* solum:tange may find, when it opens the path, that another request has   *)
(* made or removed it since it was looked for.                              *)
LEMMA TestsForTouch ==
  ASSUME RoutesInv, NEW o \in PathOpeners, TouchTests(o)
  PROVE  RoutesInv'
<1>1. variable' = variable
  BY DEF TouchTests
<1>2. CASE /\ valor_text(o)
           /\ touching' = [path |-> o.value, next |-> IF Exists(o.value) THEN "open" ELSE "create"]
           /\ UNCHANGED <<files, asked, answer, requests>>
  <2>1. touching'.path \in Path
    BY <1>2, OpenersAre
  <2>2. QED
    BY <1>1, <1>2, <2>1 DEF RoutesInv
<1>3. CASE Effect("solum:tange", o, FALSE, files) /\ UNCHANGED touching
  <2>1. files' = files /\ answer' = error_frames
    BY <1>3 DEF Effect
  <2>2. variable' \in Seq(Int) /\ (touching' = NoTouch \/ touching'.path \in Path)
    BY <1>1, <1>3 DEF RoutesInv
  <2>3. QED
    BY <2>1, <2>2, Answers
<1>4. QED
  BY <1>2, <1>3 DEF TouchTests

(* A touch that goes on has its path. *)
LEMMA TouchedPath ==
  ASSUME RoutesInv, touching.next # "test"
  PROVE  touching.path \in Path
  BY DEF RoutesInv, NoTouch

LEMMA CreatesForTouch ==
  ASSUME RoutesInv, TouchCreates
  PROVE  RoutesInv'
<1> DEFINE p == touching.path
<1>1. p \in Path /\ WellFormed(files) /\ variable' \in Seq(Int)
  BY TouchedPath DEF RoutesInv, TouchCreates
<1>2. CASE CanWrite(p)
  <2>1. /\ files' = Written(p, <<>>) /\ touching' = [touching EXCEPT !.next = "open"]
        /\ answer' = <<>>
    BY <1>2 DEF TouchCreates
  <2>2. <<>> \in Seq(Int) /\ Len(<<>>) <= MaxBytes
    BY RoutesAssumption
  <2>3. WellFormed(files')
    BY <1>1, <1>2, <2>1, <2>2, WritesAt
  <2>4. touching' = NoTouch \/ touching'.path \in Path
    BY <1>1, <2>1
  <2>5. answer' # done_frames
    <3>1. done_frames = <<DoneFrame>> /\ <<DoneFrame>> # <<>>
      BY DEF done_frames
    <3>2. QED
      BY <2>1, <3>1
  <2>6. QED
    BY <1>1, <2>3, <2>4, <2>5 DEF RoutesInv
<1>3. CASE ~CanWrite(p)
  <2>1. touching' = NoTouch /\ Effect("solum:tange", Textus(p), FALSE, files)
    BY <1>3 DEF TouchCreates
  <2>2. files' = files /\ answer' = error_frames
    BY <2>1 DEF Effect
  <2>3. QED
    BY <1>1, <2>1, <2>2, Answers
<1>4. QED
  BY <1>2, <1>3

(* The last step of solum:tange, whatever happened after the first. *)
LEMMA OpensForTouch ==
  ASSUME RoutesInv, TouchOpens
  PROVE  RoutesInv'
<1>1. /\ WellFormed(files) /\ touching.path \in Path
      /\ variable' = variable /\ variable' \in Seq(Int) /\ touching' = NoTouch
  BY TouchedPath DEF RoutesInv, TouchOpens
<1>2. PICK p \in Path : p = touching.path
  BY <1>1
<1> DEFINE request == [route |-> "solum:tange", opener |-> Textus(p)]
<1>3. request.opener.value = p /\ request.route = "solum:tange"
  BY DEF Textus
<1>4. Effect("solum:tange", Textus(p), Exists(p), files)
  BY <1>2 DEF TouchOpens
<1>5. CASE Exists(p)
  <2>1. files' = files /\ asked' = request
    BY <1>4, <1>5 DEF Effect
  <2>2. NodeOf(files, p).is \in {"file", "dir"}
    BY <1>1, <1>5, NodesAre DEF Exists
  <2> HIDE DEF request
  <2>3. WellFormed(files') /\ Shows(files', variable', asked')
    BY <1>1, <1>3, <2>1, <2>2 DEF Shows, WritingRoutes
  <2>4. QED
    BY <1>1, <2>3, Answers
<1>6. CASE ~Exists(p)
  <2>1. files' = files /\ answer' = error_frames
    BY <1>4, <1>6 DEF Effect
  <2>2. QED
    BY <1>1, <2>1, Answers
<1>7. QED
  BY <1>5, <1>6

(* The invariant holds of every file system the program can be started *)
(* on.                                                                 *)
LEMMA RoutesStart == RouteInit => RoutesInv
<1> SUFFICES ASSUME RouteInit PROVE RoutesInv
  OBVIOUS
<1>1. WellFormed(files) /\ variable \in Seq(Int) /\ touching = NoTouch
  BY RoutesAssumption DEF RouteInit
<1>2. answer # done_frames
  <2>1. answer = <<>> /\ done_frames = <<DoneFrame>>
    BY DEF RouteInit, done_frames
  <2>2. QED
    BY <2>1
<1>3. QED
  BY <1>1, <1>2 DEF RoutesInv

(* Every request, and every step of a touch, keep it. *)
LEMMA RoutesStep == RoutesInv /\ [RouteNext]_routeVars => RoutesInv'
<1> SUFFICES ASSUME RoutesInv, [RouteNext]_routeVars PROVE RoutesInv'
  OBVIOUS
<1>1. CASE UNCHANGED routeVars
  BY <1>1 DEF RoutesInv, routeVars
<1>2. CASE builtin_route_frames /\ UNCHANGED touching
  <2>1. ASSUME NEW o \in TextOpeners, NEW route \in {"solum:scribe", "solum:appone"},
               solum_write_text_frames(route, o), UNCHANGED variable
        PROVE  RoutesInv'
    BY <1>2, <2>1, WritesText
  <2>2. ASSUME NEW o \in ByteOpeners, solum_write_bytes_frames("solum:funde", o), UNCHANGED variable
        PROVE  RoutesInv'
    BY <1>2, <2>2, WritesBytes
  <2>3. ASSUME NEW o \in PathOpeners, solum_delete_frames("solum:dele", o), UNCHANGED variable
        PROVE  RoutesInv'
    BY <1>2, <2>3, Deletes
  <2>4. ASSUME NEW o \in PathOpeners, solum_create_dir_frames("solum:crea", o), UNCHANGED variable
        PROVE  RoutesInv'
    BY <1>2, <2>4, CreatesDirectories
  <2>5. ASSUME NEW o \in PathOpeners, solum_remove_dir_frames("solum:amputa", o), UNCHANGED variable
        PROVE  RoutesInv'
    BY <1>2, <2>5, RemovesDirectories
  <2>6. ASSUME NEW o \in PairOpeners(Path, Path), solum_copy_frames("solum:exscribe", o), UNCHANGED variable
        PROVE  RoutesInv'
    BY <1>2, <2>6, Copies
  <2>7. ASSUME NEW o \in PairOpeners(Leaves, Leaves), solum_rename_frames("solum:renomina", o), UNCHANGED variable
        PROVE  RoutesInv'
    BY <1>2, <2>7, Renames
  <2>8. ASSUME NEW o \in PairOpeners(Path, Leaves), solum_create_symlink_frames("solum:vincula", o), UNCHANGED variable
        PROVE  RoutesInv'
    BY <1>2, <2>8, Links
  <2>9. ASSUME NEW o \in ModeOpeners, solum_set_mode_frames("solum:modum", o), UNCHANGED variable
        PROVE  RoutesInv'
    BY <1>2, <2>9, SetsModes
  <2>10. ASSUME NEW t \in Texts, processus_scribe_frames("processus:scribe", Lista(<<Textus(t), Textus(t)>>))
         PROVE  RoutesInv'
    BY <1>2, <2>10, SetsVariable
  <2>11. QED
    BY <1>2, <2>1, <2>2, <2>3, <2>4, <2>5, <2>6, <2>7, <2>8, <2>9, <2>10 DEF builtin_route_frames
<1>3. CASE \E o \in PathOpeners : TouchTests(o)
  BY <1>3, TestsForTouch
<1>4. CASE TouchCreates
  BY <1>4, CreatesForTouch
<1>5. CASE TouchOpens
  BY <1>5, OpensForTouch
<1>6. QED
  BY <1>1, <1>2, <1>3, <1>4, <1>5 DEF RouteNext

(* The routes agree with each other as callers see them through the        *)
(* materializers, whatever was requested before, whatever links it made and *)
(* wherever a touch stands between its calls: a file reads the same whole,  *)
(* in parts and by search, and as a text and its lines if it is one;        *)
(* directories list what exists;                                            *)
(* what was answered Done shows in the reads; an integer is drawn from its  *)
(* range, and all of it.                                                    *)
THEOREM RoutesDoAgree == RouteSpec => []RoutesAgree
<1>1. RouteInit => RoutesInv
  BY RoutesStart
<1>2. RoutesInv /\ [RouteNext]_routeVars => RoutesInv'
  BY RoutesStep
<1>3. RoutesInv => RoutesAgree
  BY TheyAgree
<1>4. QED
  BY <1>1, <1>2, <1>3, PTL DEF RouteSpec
=============================================================================
