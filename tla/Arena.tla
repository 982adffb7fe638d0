------------------------------- MODULE Arena -------------------------------
(***************************************************************************)
(* The generational arena (src/src/arena.rs): slots that are reused        *)
(* through a free list threaded in the slots themselves, and handles that  *)
(* pair a slot with the generation it had when they were given out.        *)
(* Generations wrap around: the code's are 32 bits wide, here there are    *)
(* `Generations' of them.                                                  *)
(*                                                                         *)
(* Slots are numbered from 1, and 0 stands for the code's None.  `issued'  *)
(* is the history of the handles ever given out.                           *)
(***************************************************************************)
EXTENDS Integers, Sequences, FiniteSets

CONSTANTS
  Value,         \* payloads
  Generations,   \* how many generations a slot has before they wrap
  MaxInserts     \* bound on the insertions

ASSUME BoundsAssumption == Generations \in Nat \ {0} /\ MaxInserts \in Nat

VARIABLES slots, freeHead, liveCount, issued, inserts
vars == <<slots, freeHead, liveCount, issued, inserts>>

None == 0
Generation == 0..(Generations - 1)
Live(g, v) == [live |-> TRUE, generation |-> g, value |-> v]
Freed(g, n) == [live |-> FALSE, generation |-> g, next |-> n]

Slot == [live : {TRUE}, generation : Generation, value : Value]
        \cup [live : {FALSE}, generation : Generation, next : Nat]
Handle == [index : 1..MaxInserts, generation : Generation]

(* contains, and the test of get, get_mut and remove. *)
Contains(h) ==
  /\ h.index \in DOMAIN slots
  /\ slots[h.index].live /\ slots[h.index].generation = h.generation

Init ==
  /\ slots = <<>> /\ freeHead = None /\ liveCount = 0
  /\ issued = {} /\ inserts = 0

(* An insertion that forgets to unlink the slot it takes. *)
InsertKeepsHead(v) ==
  /\ freeHead # None
  /\ LET g == slots[freeHead].generation
     IN  /\ slots' = [slots EXCEPT ![freeHead] = Live(g, v)]
         /\ issued' = issued \cup {[index |-> freeHead, generation |-> g]}
  /\ UNCHANGED freeHead

(* insert takes the head of the free list, with the generation its slot    *)
(* was left at, and only grows the arena when the list is empty.           *)
InsertReused(v) ==
  /\ freeHead # None
  /\ LET g == slots[freeHead].generation
     IN  /\ slots' = [slots EXCEPT ![freeHead] = Live(g, v)]
         /\ issued' = issued \cup {[index |-> freeHead, generation |-> g]}
  /\ freeHead' = slots[freeHead].next

InsertFresh(v) ==
  /\ freeHead = None
  /\ slots' = Append(slots, Live(0, v))
  /\ issued' = issued \cup {[index |-> Len(slots) + 1, generation |-> 0]}
  /\ UNCHANGED freeHead

Insert(v) ==
  /\ inserts < MaxInserts /\ inserts' = inserts + 1
  /\ InsertReused(v) \/ InsertFresh(v)
  /\ liveCount' = liveCount + 1

(* A removal that leaves the generation as it was. *)
SameGeneration(g) == g

(* remove bumps the generation and pushes the slot on the free list. *)
NextGeneration(g) == (g + 1) % Generations
FreeLink == freeHead
SaturatingDecrement(n) == IF n > 0 THEN n - 1 ELSE 0

Remove(h) ==
  /\ Contains(h)
  /\ slots' = [slots EXCEPT ![h.index] =
                 Freed(NextGeneration(slots[h.index].generation), FreeLink)]
  /\ freeHead' = h.index
  /\ liveCount' = SaturatingDecrement(liveCount)
  /\ UNCHANGED <<issued, inserts>>

(* A write through get_mut. *)
Write(h, v) ==
  /\ Contains(h)
  /\ slots' = [slots EXCEPT ![h.index] = Live(h.generation, v)]
  /\ UNCHANGED <<freeHead, liveCount, issued, inserts>>

(* Users hold the handles they were given, for ever: the live ones and the *)
(* stale ones.                                                             *)
Next ==
  \/ \E v \in Value : Insert(v)
  \/ \E h \in issued : Remove(h)
  \/ \E h \in issued, v \in Value : Write(h, v)

Spec == Init /\ [][Next]_vars

----------------------------------------------------------------------------
FreeSlots == {i \in DOMAIN slots : ~slots[i].live}

(* Every variable has its type. *)
TypeOK ==
  /\ slots \in Seq(Slot) /\ freeHead \in Nat /\ liveCount \in Nat
  /\ issued \subseteq Handle /\ inserts \in Nat

(* The free list never leads insert to a live slot: the head and every     *)
(* link name free slots, and no slot is named twice.                       *)
FreeListSound ==
  /\ freeHead # None => freeHead \in FreeSlots
  /\ \A i \in FreeSlots : slots[i].next # None =>
       /\ slots[i].next \in FreeSlots /\ slots[i].next # freeHead
       /\ \A j \in FreeSlots : slots[j].next = slots[i].next => i = j

(* No slot is lost: following the links from the head visits every free    *)
(* one, so the arena only grows when every slot is live, and len() is the  *)
(* number of the others.                                                   *)
Walk[n \in Nat] ==
  IF n = 0 THEN freeHead
  ELSE IF Walk[n - 1] = None THEN None ELSE slots[Walk[n - 1]].next

NoSlotLost ==
  /\ FreeSlots = {Walk[n] : n \in 0..Len(slots)} \ {None}
  /\ liveCount = Cardinality(DOMAIN slots \ FreeSlots)

(* The free list holds exactly the free slots, each once: insert never     *)
(* finds a live one, and never grows the arena while one is free.          *)
FreeListExact == FreeListSound /\ NoSlotLost

(* The arena keeps the handle store's promise: no handle is given out      *)
(* twice, a live one names its own value and a stale one nothing.          *)
Store == INSTANCE HandleStore WITH
  store <- [h \in {g \in issued : Contains(g)} |-> slots[h.index].value]

KeepsHandlesApart == Store!Spec

(* A removed handle is permanently stale: once a handle has lost its slot  *)
(* it never finds one again.                                               *)
StaleForever ==
  [][\A h \in issued : ~Contains(h) => ~Contains(h)']_vars
=============================================================================
