---------------------------- MODULE Conversation ----------------------------
(***************************************************************************)
(* One `ad' conversation (src/src/frame.rs): the Sermo a caller consumes,  *)
(* the response lease its producers write to, and the two mutexes between  *)
(* them.  `lock' is SermoShared.state, `termLock' is                       *)
(* ResponseLease.terminal_sent.  A critical section that cannot block is   *)
(* one action, enabled while the mutex is free; a thread that keeps a      *)
(* mutex while it waits for the other, or while it starts the dispatch, is *)
(* named in it.                                                            *)
(*                                                                         *)
(* A consumer is a thread or a task with its own clone of the Sermo.  Its  *)
(* calls materialize the stream, blocking (sermo_recv) or as a future      *)
(* (sermo_recv_async), or look at it through the non-blocking views        *)
(* (tuus_accipe, tuus_fini).                                               *)
(***************************************************************************)
EXTENDS FiniteSets, Materialize, SequencesExt

CONSTANTS
  Consumer,      \* the threads and tasks that receive
  Roles,         \* the ways to set them up: consumers as "sync", "async", "view"
                 \* or "fini", handles as "producer", or either as "absent"
  Sender,        \* the producers' handles
  First,         \* the one handed to HostDispatch::start
  Quitters,      \* handles that may be dropped without sending a terminal
  Starts,        \* what start may do: "spawn" a producer, "refuse"
  Kinds,         \* the materializers each consumer may call
  Types,         \* the types it may let try_sermo_materialize_auto choose for
  Payloads,      \* the payloads each sender's content frames may have
  MaxContent,    \* bound on the content frames one sender sends
  MaxCalls,      \* bound on the calls of each consumer
  Free, None     \* no mutex holder; no terminal, outcome or kind

ASSUME RoleAssumption ==
  Roles \subseteq [Consumer \cup Sender ->
                   {"sync", "async", "view", "fini", "producer", "absent"}]
ASSUME SenderAssumption == First \in Sender /\ Quitters \subseteq Sender
ASSUME DistinctAssumption ==
  /\ Consumer \cap Sender = {} /\ Free \notin Consumer \cup Sender
  /\ None \notin {"Item", "Done", "Error", "Cancel", "ok"}
ASSUME KindsAssumption == Kinds \in [Consumer -> SUBSET Materializers]

VARIABLES
  role,               \* what each consumer and handle is, the same all along
  lock, termLock,     \* the holders of the two mutexes
  generated,          \* runtime_response_generated
  queue,              \* incoming
  drained, terminal,  \* incoming_drained, incoming_terminal
  token,              \* runtime_cancellation is Some
  waiters,            \* incoming_waiters, the tasks whose waker is registered
  cancelled,          \* the shared Cancellation flag
  termSent, live,     \* terminal_sent, live_senders
  sent,               \* every frame ever enqueued (history)
  pc, kind, got, calls, outcome,  \* where a consumer stands, what it received
  woken,              \* tasks whose waker has been called
  spc, sending, left  \* where a sender stands, what it is sending and has left

streamVars == <<generated, queue, drained, terminal, token, waiters, sent>>
leaseVars == <<cancelled, termSent, live>>
consumerVars == <<pc, kind, got, calls, outcome, woken>>
senderVars == <<spc, sending, left>>
vars == <<role, lock, termLock, streamVars, leaseVars, consumerVars, senderVars>>

Terminals == {"Done", "Error", "Cancel"}
Statuses == Terminals \cup {"Item"}
Payload == {Nihil} \cup UNION {Payloads[s] : s \in Sender}
Frame == [status : Statuses, data : Payload, by : Sender, late : BOOLEAN]
IsContent(f) == f.status \notin Terminals

Init ==
  /\ role \in Roles
  /\ lock = Free /\ termLock = Free
  /\ generated = FALSE /\ queue = <<>> /\ drained = FALSE /\ terminal = None
  /\ token = FALSE /\ waiters = {}
  /\ cancelled = FALSE /\ termSent = FALSE /\ live = 0
  /\ sent = <<>>
  /\ pc = [c \in Consumer |-> "idle"] /\ kind = [c \in Consumer |-> None]
  /\ got = [c \in Consumer |-> <<>>] /\ calls = [c \in Consumer |-> 0]
  /\ outcome = [c \in Consumer |-> None] /\ woken = [c \in Consumer |-> FALSE]
  /\ spc = [s \in Sender |-> "unborn"] /\ sending = [s \in Sender |-> None]
  /\ left = [s \in Sender |-> MaxContent]

----------------------------------------------------------------------------
(* The producers. *)

(* Pushes that lose the wakers they take, and that wake one waiting thread *)
(* only.                                                                   *)
WakersLost(newPc) ==
  /\ waiters' = {} /\ UNCHANGED woken
  /\ pc' = [c \in Consumer |-> IF newPc[c] = "waiting" THEN "recv" ELSE newPc[c]]

WakeOne(newPc) ==
  LET waiting == {c \in Consumer : newPc[c] = "waiting"}
  IN  /\ woken' = [c \in Consumer |-> woken[c] \/ c \in waiters]
      /\ waiters' = {}
      /\ pc' = IF waiting = {} THEN newPc
               ELSE [newPc EXCEPT ![CHOOSE c \in waiting : TRUE] = "recv"]

(* wake_incoming and notify_all: every registered task is woken, and every *)
(* thread in the condition variable's wait goes back to its test.          *)
WakeAll(newPc) ==
  /\ woken' = [c \in Consumer |-> woken[c] \/ c \in waiters]
  /\ waiters' = {}
  /\ pc' = [c \in Consumer |-> IF newPc[c] = "waiting" THEN "recv" ELSE newPc[c]]

StatusUnchecked(status) == status    \* a Done goes through a cancellation

(* A Done sent after a cancellation becomes a Cancel. *)
TerminalStatus(status) == IF status = "Done" /\ cancelled THEN "Cancel" ELSE status

(* send, before any lock: content is refused after a cancellation and a    *)
(* Done becomes a Cancel; an Error or a Cancel goes through.               *)
SendChecks(s) ==
  /\ spc[s] = "idle"
  /\ \/ /\ ~cancelled /\ left[s] > 0
        /\ sending' = [sending EXCEPT ![s] = "Item"]
        /\ left' = [left EXCEPT ![s] = @ - 1]
     \/ /\ \E status \in Terminals :
             sending' = [sending EXCEPT ![s] = TerminalStatus(status)]
        /\ UNCHANGED left
  /\ spc' = [spc EXCEPT ![s] = "checked"]
  /\ UNCHANGED <<lock, termLock, streamVars, leaseVars, consumerVars>>

(* terminal_sent set by a Done only. *)
SentAfterDone(s) == IF sending[s] = "Done" THEN TRUE ELSE termSent

(* A terminal, of any status, closes the lease. *)
SentAfter(s) == IF sending[s] \in Terminals THEN TRUE ELSE termSent

(* send, under terminal_sent: refused once a terminal has been chosen. *)
SendLocks(s) ==
  /\ spc[s] = "checked" /\ termLock = Free
  /\ IF termSent
     THEN /\ spc' = [spc EXCEPT ![s] = IF sending[s] = "Item" THEN "idle" ELSE "spent"]
          /\ sending' = [sending EXCEPT ![s] = None]
          /\ UNCHANGED <<termLock, termSent>>
     ELSE /\ spc' = [spc EXCEPT ![s] = "pushing"]
          /\ termLock' = s
          /\ termSent' = SentAfter(s)
          /\ UNCHANGED sending
  /\ UNCHANGED <<lock, streamVars, cancelled, live, consumerVars, left>>

(* push_response_frame, still under terminal_sent.  `late' marks a frame   *)
(* enqueued after the cancellation.                                        *)
Push(s) ==
  /\ spc[s] \in {"pushing", "closing"} /\ lock = Free
  /\ \E data \in (IF sending[s] = "Item" THEN Payloads[s] ELSE {Nihil}) :
       LET f == [status |-> sending[s], data |-> data, by |-> s, late |-> cancelled]
       IN  queue' = Append(queue, f) /\ sent' = Append(sent, f)
  /\ WakeAll(pc)
  /\ termLock' = Free
  /\ spc' = [spc EXCEPT ![s] = IF @ = "closing" THEN "gone"
                                ELSE IF sending[s] = "Item" THEN "idle" ELSE "spent"]
  /\ sending' = [sending EXCEPT ![s] = None]
  /\ UNCHANGED <<lock, generated, drained, terminal, token, leaseVars, kind,
                 got, calls, outcome, left>>

CloneSender(s) ==
  /\ spc[s] = "idle"
  /\ \E n \in Sender : /\ spc[n] = "unborn" /\ role[n] # "absent"
                       /\ spc' = [spc EXCEPT ![n] = "idle"]
  /\ live' = live + 1
  /\ UNCHANGED <<lock, termLock, streamVars, cancelled, termSent, consumerVars, sending, left>>

(* A drop that takes the count for the one before it. *)
DropsLate(s) ==
  /\ spc[s] = "spent" \/ (spc[s] = "idle" /\ s \in Quitters)
  /\ live' = live - 1
  /\ spc' = [spc EXCEPT ![s] = IF live = 0 THEN "last" ELSE "gone"]
  /\ UNCHANGED <<lock, termLock, streamVars, cancelled, termSent, consumerVars, sending, left>>

(* drop: the last handle closes the stream. *)
DropSender(s) ==
  /\ spc[s] = "spent" \/ (spc[s] = "idle" /\ s \in Quitters)
  /\ live' = live - 1
  /\ spc' = [spc EXCEPT ![s] = IF live = 1 THEN "last" ELSE "gone"]
  /\ UNCHANGED <<lock, termLock, streamVars, cancelled, termSent, consumerVars, sending, left>>

(* The terminal of a stream whose last handle was dropped. *)
ClosingStatus == IF cancelled THEN "Cancel" ELSE "Error"

DropLocks(s) ==
  /\ spc[s] = "last" /\ termLock = Free
  /\ IF termSent
     THEN /\ spc' = [spc EXCEPT ![s] = "gone"]
          /\ UNCHANGED <<termLock, termSent, sending>>
     ELSE /\ termLock' = s /\ termSent' = TRUE
          /\ sending' = [sending EXCEPT ![s] = ClosingStatus]
          /\ spc' = [spc EXCEPT ![s] = "closing"]
  /\ UNCHANGED <<lock, streamVars, cancelled, live, consumerVars, left>>

(* The host cancels through its own clone of the Cancellation. *)
HostCancels ==
  /\ generated /\ ~cancelled
  /\ cancelled' = TRUE
  /\ UNCHANGED <<lock, termLock, streamVars, termSent, live, consumerVars, senderVars>>

----------------------------------------------------------------------------
(* The consumers. *)

RecordDone(status) == terminal' = "Done" /\ drained' = TRUE /\ token' = FALSE

(* record_incoming_terminal *)
Record(status) == terminal' = status /\ drained' = TRUE /\ token' = FALSE

Return(c, result) ==
  /\ outcome' = [outcome EXCEPT ![c] = result]
  /\ pc' = [pc EXCEPT ![c] = "idle"]

(* A frame at the head of the queue is received and the loop goes on, or   *)
(* it is a terminal and the call returns.                                  *)
TakeFrame(c, again) ==
  LET f == Head(queue)
  IN  /\ queue # <<>> /\ queue' = Tail(queue)
      /\ \/ /\ IsContent(f)
            /\ got' = [got EXCEPT ![c] = Append(@, f)]
            /\ pc' = [pc EXCEPT ![c] = again]
            /\ UNCHANGED <<drained, terminal, token, outcome>>
         \/ /\ ~IsContent(f)
            /\ Record(f.status)
            /\ Return(c, Result(kind[c], got[c], f.status).result)
            /\ UNCHANGED got
      /\ UNCHANGED <<generated, waiters, sent, woken>>

(* sermo_recv after the start: wait on the condition variable, which gives *)
(* the mutex back, or take a frame, or see that the stream is drained.     *)
RecvBody(c) ==
  \/ TakeFrame(c, "recv")
  \/ /\ queue = <<>> /\ ~drained
     /\ pc' = [pc EXCEPT ![c] = "waiting"]
     /\ UNCHANGED <<streamVars, got, outcome, woken>>
  \/ /\ queue = <<>> /\ drained
     /\ Return(c, Result(kind[c], got[c], None).result)
     /\ UNCHANGED <<streamVars, got, woken>>

(* sermo_recv_ready, the first half of a poll. *)
ReadyBody(c) ==
  \/ TakeFrame(c, "poll")
  \/ /\ queue = <<>>
     /\ pc' = [pc EXCEPT ![c] = "polled"]
     /\ UNCHANGED <<streamVars, got, outcome, woken>>

(* tuus_fini after the start: content is thrown away up to the terminal,   *)
(* and a queue without one counts as Done.                                 *)
FiniBody(c) ==
  /\ \/ /\ \A i \in DOMAIN queue : IsContent(queue[i])
        /\ queue' = <<>>
        /\ Record("Done") /\ Return(c, "Done")
     \/ \E i \in DOMAIN queue :
          /\ ~IsContent(queue[i]) /\ \A j \in 1..(i - 1) : IsContent(queue[j])
          /\ queue' = SubSeq(queue, i + 1, Len(queue))
          /\ Record(queue[i].status) /\ Return(c, queue[i].status)
  /\ UNCHANGED <<generated, waiters, sent, got, woken>>

Body(c) ==
  \/ role[c] = "sync" /\ RecvBody(c)
  \/ role[c] = "async" /\ ReadyBody(c)
  \/ role[c] = "fini" /\ FiniBody(c)

Entry(c) == IF role[c] = "async" THEN "poll" ELSE "recv"

(* A call: a materializer, blocking or awaited, or one of the views. *)
Call(c) ==
  /\ pc[c] = "idle" /\ calls[c] < MaxCalls[c] /\ role[c] # "absent"
  /\ \/ /\ role[c] \in {"sync", "async"}
        /\ \E k \in Kinds[c] \cup {try_sermo_materialize_auto(t) : t \in Types[c]} :
             kind' = [kind EXCEPT ![c] = k]
     \/ /\ role[c] \notin {"sync", "async"}
        /\ kind' = [kind EXCEPT ![c] = None]
  /\ calls' = [calls EXCEPT ![c] = @ + 1]
  /\ got' = [got EXCEPT ![c] = <<>>] /\ outcome' = [outcome EXCEPT ![c] = None]
  /\ pc' = [pc EXCEPT ![c] = Entry(c)]
  /\ UNCHANGED <<lock, termLock, streamVars, leaseVars, woken, senderVars>>

(* ensure_runtime_response_started: the first receive starts the dispatch  *)
(* with the state mutex held.  A spawned producer runs from here on; a     *)
(* refusal is answered by reject_start_error, which takes terminal_sent    *)
(* and then asks for the state mutex this thread is holding.               *)
MustStart(c) ==
  /\ ~generated
  /\ pc[c] \in {"recv", "poll"} /\ role[c] # "view"

Start(c) ==
  /\ MustStart(c) /\ lock = Free
  /\ lock' = c /\ generated' = TRUE /\ token' = TRUE
  /\ \/ /\ "spawn" \in Starts
        /\ live' = 2
        /\ spc' = [spc EXCEPT ![First] = "idle"]
        /\ pc' = [pc EXCEPT ![c] = "starting"]
        /\ UNCHANGED <<termLock, termSent>>
     \/ /\ "refuse" \in Starts /\ termLock = Free
        /\ live' = 1
        /\ termLock' = c /\ termSent' = TRUE
        /\ pc' = [pc EXCEPT ![c] = "refused"]
        /\ UNCHANGED spc
  /\ UNCHANGED <<queue, drained, terminal, waiters, sent, cancelled, kind, got,
                 calls, outcome, woken, sending, left>>

(* The starter drops its own handle and goes on with its receive, in the   *)
(* same critical section or, where the materializer starts the dispatch    *)
(* for its target type first, in the next one.  If the handle is the last  *)
(* one and no terminal was sent, its drop asks for the state mutex this    *)
(* thread is holding.                                                      *)
StartsFirst == {"textus", "octeti", "lista", "scalar", "instans"}

FinishStart(c) ==
  /\ pc[c] = "starting"
  /\ live' = live - 1
  /\ \/ /\ live = 1 /\ ~termSent
        /\ termLock = Free /\ termLock' = c /\ termSent' = TRUE
        /\ pc' = [pc EXCEPT ![c] = "blocked"]
        /\ UNCHANGED <<lock, streamVars, got, outcome, woken>>
     \/ /\ live # 1 \/ termSent
        /\ lock' = Free
        /\ \/ kind[c] \notin StartsFirst /\ Body(c)
           \/ /\ kind[c] \in StartsFirst /\ pc' = [pc EXCEPT ![c] = Entry(c)]
              /\ UNCHANGED <<streamVars, got, outcome, woken>>
        /\ UNCHANGED <<termLock, termSent>>
  /\ UNCHANGED <<cancelled, kind, calls, senderVars>>

(* A receive on a conversation that has been started. *)
Receive(c) ==
  /\ pc[c] = "recv" /\ role[c] \in {"sync", "fini"} /\ lock = Free /\ ~MustStart(c)
  /\ IF role[c] = "fini" /\ drained
     THEN /\ Return(c, terminal)
          /\ UNCHANGED <<streamVars, got, woken>>
     ELSE Body(c)
  /\ UNCHANGED <<lock, termLock, leaseVars, kind, calls, senderVars>>

(* tuus_accipe and the cursor: one frame, never waiting, never starting.   *)
Accipe(c) ==
  /\ pc[c] = "recv" /\ role[c] = "view" /\ lock = Free
  /\ IF drained \/ queue = <<>>
     THEN /\ Return(c, "nihil")
          /\ UNCHANGED <<streamVars, got, woken>>
     ELSE TakeFrame(c, "idle")
  /\ UNCHANGED <<lock, termLock, leaseVars, kind, calls, senderVars>>

(* SermoRecvFuture::poll *)
Poll(c) ==
  /\ pc[c] = "poll" /\ lock = Free /\ ~MustStart(c)
  /\ ReadyBody(c)
  /\ UNCHANGED <<lock, termLock, leaseVars, kind, calls, senderVars>>

PollRegisters(c) ==
  /\ pc[c] = "polled" /\ lock = Free
  /\ \/ /\ drained
        /\ Return(c, Result(kind[c], got[c], None).result)
        /\ UNCHANGED waiters
     \/ /\ ~drained /\ queue # <<>>
        /\ pc' = [pc EXCEPT ![c] = "retry"]
        /\ UNCHANGED <<waiters, outcome>>
     \/ /\ ~drained /\ queue = <<>>
        /\ waiters' = waiters \cup {c}
        /\ pc' = [pc EXCEPT ![c] = "pending"]
        /\ UNCHANGED outcome
  /\ UNCHANGED <<lock, termLock, generated, queue, drained, terminal, token,
                 sent, leaseVars, kind, got, calls, woken, senderVars>>

PollRetries(c) ==
  /\ pc[c] = "retry" /\ lock = Free
  /\ \/ TakeFrame(c, "poll")
     \/ /\ queue = <<>>
        /\ pc' = [pc EXCEPT ![c] = "pending"]
        /\ UNCHANGED <<streamVars, got, outcome, woken>>
  /\ UNCHANGED <<lock, termLock, leaseVars, kind, calls, senderVars>>

(* The executor polls a task again once its waker was called. *)
Repoll(c) ==
  /\ pc[c] = "pending" /\ woken[c]
  /\ woken' = [woken EXCEPT ![c] = FALSE]
  /\ pc' = [pc EXCEPT ![c] = "poll"]
  /\ UNCHANGED <<lock, termLock, streamVars, leaseVars, kind, got, calls,
                 outcome, senderVars>>

(* Dropping a pending future cancels the response, once. *)
DropFuture(c) ==
  /\ pc[c] = "pending" /\ lock = Free
  /\ LET abandoned == [pc EXCEPT ![c] = "idle"]
     IN  IF token
         THEN /\ token' = FALSE /\ cancelled' = TRUE
              /\ WakeAll(abandoned)
         ELSE /\ pc' = abandoned
              /\ UNCHANGED <<token, cancelled, waiters, woken>>
  /\ outcome' = [outcome EXCEPT ![c] = "dropped"]
  /\ UNCHANGED <<lock, termLock, generated, queue, drained, terminal, sent,
                 termSent, live, kind, got, calls, senderVars>>

SenderStep(s) ==
  /\ SendChecks(s) \/ SendLocks(s) \/ Push(s) \/ DropSender(s) \/ DropLocks(s)
  /\ UNCHANGED role

ConsumerStep(c) ==
  /\ \/ Start(c) \/ FinishStart(c) \/ Receive(c) \/ Accipe(c)
     \/ Poll(c) \/ PollRegisters(c) \/ PollRetries(c) \/ Repoll(c)
  /\ UNCHANGED role

(* What nobody has to do. *)
OptionalStep ==
  /\ \/ \E s \in Sender : CloneSender(s)
     \/ \E c \in Consumer : Call(c) \/ DropFuture(c)
     \/ HostCancels
  /\ UNCHANGED role

Next ==
  \/ \E s \in Sender : SenderStep(s)
  \/ \E c \in Consumer : ConsumerStep(c)
  \/ OptionalStep

Spec == Init /\ [][Next]_vars

(* The producers run, the threads get the mutexes they wait for and the    *)
(* executor polls a task that was woken; nobody has to make another call,  *)
(* to drop a future or to cancel.                                          *)
Fairness ==
  /\ \A s \in Sender : WF_vars(SenderStep(s))
  /\ \A c \in Consumer : WF_vars(ConsumerStep(c))

FairSpec == Spec /\ Fairness

----------------------------------------------------------------------------
SenderPlaces == {"unborn", "idle", "checked", "pushing", "spent", "last", "closing", "gone"}
ConsumerPlaces == {"idle", "recv", "waiting", "poll", "polled", "retry", "pending",
                   "starting", "refused", "blocked"}

(* Every variable has its type. *)
TypeOK ==
  /\ lock \in Consumer \cup {Free} /\ termLock \in Consumer \cup Sender \cup {Free}
  /\ generated \in BOOLEAN /\ drained \in BOOLEAN /\ token \in BOOLEAN
  /\ cancelled \in BOOLEAN /\ termSent \in BOOLEAN
  /\ live \in Int /\ terminal \in Terminals \cup {None}
  /\ waiters \subseteq Consumer
  /\ sent \in Seq(Frame) /\ queue \in Seq(Frame) /\ got \in [Consumer -> Seq(Frame)]
  /\ pc \in [Consumer -> ConsumerPlaces] /\ woken \in [Consumer -> BOOLEAN]
  /\ spc \in [Sender -> SenderPlaces]
  /\ sending \in [Sender -> Statuses \cup {None}]

(* Whatever its producers and their clones do, a conversation gets at most *)
(* one terminal frame and nothing after it.                                *)
TerminalIsLast ==
  \A i \in DOMAIN sent : ~IsContent(sent[i]) => i = Len(sent)

(* live_senders counts the handles: a producer that is still alive is      *)
(* never taken for a dropped one, so the stream is not closed under it.    *)
LiveIsCounted ==
  live = Cardinality({s \in Sender : spc[s] \in {"idle", "checked", "pushing", "spent"}})
         + Cardinality({c \in Consumer : pc[c] \in {"starting", "refused"}})

(* Once a consumer has seen the stream drained nothing is left in it and   *)
(* nothing more will come, and the recorded terminal is the producers'     *)
(* (unless tuus_fini, which does not wait for theirs, recorded it).        *)
DrainedIsFinal ==
  drained /\ (\A c \in Consumer : role[c] # "fini") =>
             /\ queue = <<>> /\ termSent
             /\ sent # <<>> /\ Last(sent).status = terminal

(* A conversation of one consumer. *)
Own(c) == \A d \in Consumer \ {c} : role[d] = "absent"

(* Every frame has a payload of the target's type, where it has one. *)
InItsType(k, frames) ==
  k \in {"textus", "octeti", "lista", "instans", "scalar"} =>
    \A i \in DOMAIN frames : frames[i].data.kind \in Fits(k)

(* A materializer that succeeds on a conversation of its own has the whole *)
(* answer: the producers ended with Done, its frames are all they sent     *)
(* before, in their order, and none had a payload the target's type cannot *)
(* hold.                                                                   *)
SuccessIsComplete ==
  \A c \in Consumer :
    outcome[c] = "ok" /\ kind[c] # "frames" /\ calls[c] = 1 /\ Own(c) =>
      /\ Last(sent).status = "Done" /\ got[c] = Front(sent)
      /\ InItsType(kind[c], got[c])

(* Cancellation bites: of each sender at most one frame that is not an     *)
(* Error or a Cancel, the one already past its check, is enqueued after it. *)
CancellationBites ==
  \A s \in Sender :
    Cardinality({i \in DOMAIN sent : /\ sent[i].by = s /\ sent[i].late
                                     /\ sent[i].status \in {"Item", "Done"}}) <= 1

(* Sender handles keep their contract under races: none is missed by the   *)
(* count that closes the stream, and none gets more than one frame past a  *)
(* cancellation.                                                           *)
SendersSound == LiveIsCounted /\ CancellationBites

(* A receive future that returned Pending will be polled again: its waker  *)
(* is registered, or has been called.                                      *)
PendingIsRegistered ==
  \A c \in Consumer : pc[c] = "pending" => c \in waiters \/ woken[c]

(* No receive blocks for ever. *)
ReceiveReturns == \A c \in Consumer : pc[c] # "idle" ~> pc[c] = "idle"

(* The producers have ended the stream. *)
StreamEnded == \E i \in DOMAIN sent : ~IsContent(sent[i])

(* A conversation whose dispatch could be started, the starter having left *)
(* the critical section it starts it in, gets its terminal frame, in       *)
(* whatever order its handles are cloned, send and are dropped: the one    *)
(* whose drop ends it is not missed, and ends it although others race it.  *)
OpenConversationEnds == generated /\ lock = Free ~> StreamEnded

(* Any conversation that was started gets its terminal frame, also when    *)
(* the dispatch is refused, or when the producer is gone before the        *)
(* starter drops its own handle (push_response_frame is what ends a stream *)
(* in both cases).                                                         *)
StartedConversationEnds == generated ~> StreamEnded
=============================================================================
