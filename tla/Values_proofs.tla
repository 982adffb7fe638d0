--------------------------- MODULE Values_proofs ---------------------------
(***************************************************************************)
(* Proofs about the values a program computes with.                        *)
(* Arena: for any set of payloads and any number of generations.  That the *)
(* free list is sound and exact needs nothing else; that a removed handle  *)
(* stays stale, and that the arena implements the handle store, is proved  *)
(* for fewer insertions than there are generations, and is false beyond.   *)
(* Intervallum: for any integer types, the algebra of the intervals is     *)
(* that of their points, and the lazy walk is the list.                    *)
(* Sparsa: for any shapes and writes, a sparse tensor is the dense one     *)
(* that was written, because row-major order numbers the coordinates and   *)
(* the walk over them takes the numbers in turn.                           *)
(* Tensor, Autograd: for any inputs, shapes, axes, ranges and stages, and  *)
(* any prime, every view covers a range of its buffer, none shares it with *)
(* a saved value, and the tape replays the values the program read.        *)
(***************************************************************************)
EXTENDS Arena, Autograd, Intervallum, Sparsa, Lists_proofs, SequenceTheorems

(* The arena grows by insertions only, and handles point into it. *)
Bounded ==
  /\ Len(slots) <= inserts /\ inserts <= MaxInserts
  /\ \A h \in issued : h.index \in 1..Len(slots)

IInv == TypeOK /\ FreeListSound /\ Bounded

LEMMA InitIInv == Init => IInv
  BY BoundsAssumption DEF Init, IInv, TypeOK, FreeListSound, FreeSlots, Bounded, None

(* Popping the head: no link names it, so none names a live slot after. *)
LEMMA InsertReusedKeepsIInv ==
  ASSUME IInv, NEW v \in Value, Insert(v), InsertReused(v)
  PROVE  IInv'
<1> USE DEF IInv
<1> DEFINE g == slots[freeHead].generation
<1>1. freeHead \in FreeSlots
  BY DEF InsertReused, FreeListSound
<1>2. /\ freeHead \in 1..Len(slots) /\ slots[freeHead] \in Slot /\ ~slots[freeHead].live
      /\ slots \in Seq(Slot) /\ Len(slots) \in Nat
  BY <1>1 DEF FreeSlots, TypeOK
<1>3. g \in Generation /\ slots[freeHead].next \in Nat
  BY <1>2 DEF Slot
<1>4. Live(g, v) \in Slot
  BY <1>3 DEF Live, Slot
<1>5. /\ slots' = [slots EXCEPT ![freeHead] = Live(g, v)]
      /\ freeHead' = slots[freeHead].next
      /\ issued' = issued \cup {[index |-> freeHead, generation |-> g]}
      /\ inserts' = inserts + 1 /\ inserts < MaxInserts /\ liveCount' = liveCount + 1
  BY DEF Insert, InsertReused
<1>6. /\ slots' \in Seq(Slot) /\ Len(slots') = Len(slots)
      /\ \A i \in 1..Len(slots) : slots'[i] = IF i = freeHead THEN Live(g, v) ELSE slots[i]
  BY <1>2, <1>4, <1>5
<1>7. TypeOK'
  BY <1>2, <1>3, <1>5, <1>6, BoundsAssumption DEF TypeOK, Handle, Bounded
<1>8. Bounded'
  BY <1>2, <1>5, <1>6, BoundsAssumption DEF Bounded, TypeOK
<1>9. FreeSlots' = FreeSlots \ {freeHead}
  BY <1>2, <1>6 DEF FreeSlots, Live
<1>10. \A i \in FreeSlots' : slots'[i] = slots[i]
  BY <1>2, <1>6, <1>9 DEF FreeSlots
<1>11. FreeListSound'
  <2>1. freeHead' # None => freeHead' \in FreeSlots'
    BY <1>1, <1>5, <1>9 DEF FreeListSound
  <2>2. ASSUME NEW i \in FreeSlots', slots'[i].next # None
        PROVE  /\ slots'[i].next \in FreeSlots' /\ slots'[i].next # freeHead'
               /\ \A j \in FreeSlots' : slots'[j].next = slots'[i].next => i = j
    BY <1>1, <1>5, <1>9, <1>10, <2>2 DEF FreeListSound
  <2>3. QED
    BY <2>1, <2>2 DEF FreeListSound
<1>12. QED
  BY <1>7, <1>8, <1>11

(* Growing: the new slot is live and the list is empty. *)
LEMMA InsertFreshKeepsIInv ==
  ASSUME IInv, NEW v \in Value, Insert(v), InsertFresh(v)
  PROVE  IInv'
<1> USE DEF IInv
<1>1. slots \in Seq(Slot) /\ Len(slots) \in Nat
  BY DEF TypeOK
<1>2. Live(0, v) \in Slot /\ 0 \in Generation
  BY BoundsAssumption DEF Live, Slot, Generation
<1>3. /\ slots' = Append(slots, Live(0, v)) /\ freeHead' = freeHead /\ freeHead = None
      /\ issued' = issued \cup {[index |-> Len(slots) + 1, generation |-> 0]}
      /\ inserts' = inserts + 1 /\ inserts < MaxInserts /\ liveCount' = liveCount + 1
  BY DEF Insert, InsertFresh
<1>4. /\ slots' \in Seq(Slot) /\ Len(slots') = Len(slots) + 1
      /\ \A i \in 1..Len(slots) : slots'[i] = slots[i]
      /\ slots'[Len(slots) + 1] = Live(0, v)
  BY <1>1, <1>2, <1>3
<1>5. TypeOK'
  BY <1>1, <1>2, <1>3, <1>4, BoundsAssumption DEF TypeOK, Handle, Bounded
<1>6. Bounded'
  BY <1>1, <1>3, <1>4, BoundsAssumption DEF Bounded, TypeOK
<1>7. FreeSlots' = FreeSlots
  <2>1. DOMAIN slots = 1..Len(slots) /\ DOMAIN slots' = 1..(Len(slots) + 1)
    BY <1>1, <1>4
  <2>2. Live(0, v).live
    BY DEF Live
  <2>3. QED
    BY <1>1, <1>4, <2>1, <2>2 DEF FreeSlots
<1>8. \A i \in FreeSlots : slots'[i] = slots[i]
  BY <1>1, <1>4 DEF FreeSlots
<1>9. FreeListSound'
  <2>1. ASSUME NEW i \in FreeSlots', slots'[i].next # None
        PROVE  /\ slots'[i].next \in FreeSlots' /\ slots'[i].next # freeHead'
               /\ \A j \in FreeSlots' : slots'[j].next = slots'[i].next => i = j
    <3>1. i \in FreeSlots /\ slots[i].next # None /\ slots'[i] = slots[i]
      BY <1>7, <1>8, <2>1
    <3>2. /\ slots[i].next \in FreeSlots /\ slots[i].next # freeHead
          /\ \A j \in FreeSlots : slots[j].next = slots[i].next => i = j
      BY <3>1 DEF FreeListSound
    <3>3. QED
      BY <1>3, <1>7, <1>8, <3>1, <3>2
  <2>2. QED
    BY <1>3, <2>1 DEF FreeListSound
<1>10. QED
  BY <1>5, <1>6, <1>9

(* Pushing a slot: it was live, so nothing named it. *)
LEMMA RemoveKeepsIInv ==
  ASSUME IInv, NEW h \in issued, Remove(h)
  PROVE  IInv'
<1> USE DEF IInv
<1> DEFINE f == Freed(NextGeneration(slots[h.index].generation), freeHead)
<1>1. /\ slots \in Seq(Slot) /\ Len(slots) \in Nat /\ freeHead \in Nat
      /\ h.index \in 1..Len(slots) /\ slots[h.index].live /\ h.index # None
  <2>1. slots \in Seq(Slot) /\ Len(slots) \in Nat /\ freeHead \in Nat
    BY DEF TypeOK
  <2>2. h.index \in 1..Len(slots) /\ slots[h.index].live
    BY <2>1 DEF Remove, Contains
  <2>3. QED
    BY <2>1, <2>2 DEF None
<1>2. slots[h.index].generation \in Generation
  <2>1. slots[h.index] \in Slot
    BY <1>1
  <2>2. QED
    BY <2>1 DEF Slot
<1>3. NextGeneration(slots[h.index].generation) \in Generation
  BY <1>2, BoundsAssumption DEF NextGeneration, Generation
<1>4. f \in Slot /\ f.live = FALSE /\ f.next = freeHead
  BY <1>1, <1>3 DEF Freed, Slot
<1>5. /\ slots' = [slots EXCEPT ![h.index] = f] /\ freeHead' = h.index
      /\ liveCount' \in Nat /\ UNCHANGED <<issued, inserts>>
  BY DEF Remove, FreeLink, SaturatingDecrement, TypeOK
<1> HIDE DEF f
<1>6. /\ slots' \in Seq(Slot) /\ Len(slots') = Len(slots)
      /\ \A i \in 1..Len(slots) : slots'[i] = IF i = h.index THEN f ELSE slots[i]
  BY <1>1, <1>4, <1>5
<1>7. TypeOK' /\ Bounded'
  BY <1>1, <1>5, <1>6 DEF TypeOK, Bounded
<1>8. h.index \notin FreeSlots /\ FreeSlots' = FreeSlots \cup {h.index}
  BY <1>1, <1>4, <1>6 DEF FreeSlots
<1>9. /\ slots'[h.index].next = freeHead
      /\ \A i \in FreeSlots : slots'[i] = slots[i]
  BY <1>1, <1>4, <1>6, <1>8 DEF FreeSlots
<1>10. FreeListSound'
  <2>1. ASSUME NEW i \in FreeSlots', slots'[i].next # None
        PROVE  /\ slots'[i].next \in FreeSlots' /\ slots'[i].next # freeHead'
               /\ \A j \in FreeSlots' : slots'[j].next = slots'[i].next => i = j
    <3>1. CASE i = h.index
      BY <1>5, <1>8, <1>9, <2>1, <3>1 DEF FreeListSound
    <3>2. CASE i # h.index
      BY <1>5, <1>8, <1>9, <2>1, <3>2 DEF FreeListSound
    <3>3. QED
      BY <3>1, <3>2
  <2>2. QED
    BY <1>5, <1>8, <2>1 DEF FreeListSound
<1>11. QED
  BY <1>7, <1>10

LEMMA WriteKeepsIInv ==
  ASSUME IInv, NEW h \in issued, NEW v \in Value, Write(h, v)
  PROVE  IInv'
<1> USE DEF IInv
<1>1. /\ slots \in Seq(Slot) /\ Len(slots) \in Nat
      /\ h.index \in 1..Len(slots) /\ slots[h.index].live /\ h.generation \in Generation
  BY DEF TypeOK, Write, Contains, Handle
<1>2. Live(h.generation, v) \in Slot /\ Live(h.generation, v).live
  BY <1>1 DEF Live, Slot
<1>3. /\ slots' = [slots EXCEPT ![h.index] = Live(h.generation, v)]
      /\ UNCHANGED <<freeHead, liveCount, issued, inserts>>
  BY DEF Write
<1>4. /\ slots' \in Seq(Slot) /\ Len(slots') = Len(slots)
      /\ \A i \in 1..Len(slots) : i # h.index => slots'[i] = slots[i]
      /\ slots'[h.index].live
  BY <1>1, <1>2, <1>3
<1>5. TypeOK' /\ Bounded'
  BY <1>3, <1>4 DEF TypeOK, Bounded
<1>6. FreeSlots' = FreeSlots /\ \A i \in FreeSlots : slots'[i] = slots[i]
  BY <1>1, <1>4 DEF FreeSlots
<1>7. FreeListSound'
  BY <1>3, <1>6 DEF FreeListSound
<1>8. QED
  BY <1>5, <1>7

LEMMA NextKeepsIInv == IInv /\ [Next]_vars => IInv'
<1> SUFFICES ASSUME IInv, [Next]_vars PROVE IInv'
  OBVIOUS
<1>1. CASE UNCHANGED vars
  BY <1>1 DEF vars, IInv, TypeOK, FreeListSound, FreeSlots, Bounded
<1>2. ASSUME NEW v \in Value, Insert(v)
      PROVE  IInv'
  BY <1>2, InsertReusedKeepsIInv, InsertFreshKeepsIInv DEF Insert
<1>3. QED
  BY <1>1, <1>2, RemoveKeepsIInv, WriteKeepsIInv DEF Next

(* The inductive invariant holds in every reachable state. *)
THEOREM IInvInvariant == Spec => []IInv
  BY InitIInv, NextKeepsIInv, PTL DEF Spec

(* insert's "free list pointed at live slot" is unreachable: the head and  *)
(* the links of the free list name free slots, each at most once.          *)
THEOREM FreeListIsSound == Spec => []FreeListSound
<1>1. IInv => FreeListSound
  BY DEF IInv
<1>2. QED
  BY <1>1, IInvInvariant, PTL

----------------------------------------------------------------------------
(* With fewer insertions than generations none wraps: a slot's generation  *)
(* counts its removals, and tells every handle given out before from the   *)
(* next one.                                                               *)
GenerationsTell ==
  /\ \A i \in 1..Len(slots) :
       slots[i].generation + (IF slots[i].live THEN 1 ELSE 0) <= inserts
  /\ \A h \in issued :
       /\ h.generation <= slots[h.index].generation
       /\ ~slots[h.index].live => h.generation < slots[h.index].generation

(* A step keeps GenerationsTell, and a stale handle stale. *)
StaysStale == \A h \in issued : ~Contains(h) => ~Contains(h)'

LEMMA SlotTypes ==
  ASSUME TypeOK, Bounded
  PROVE  /\ Len(slots) \in Nat /\ slots \in Seq(Slot) /\ DOMAIN slots = 1..Len(slots)
         /\ \A i \in 1..Len(slots) : slots[i].generation \in Nat
         /\ \A h \in issued : h.generation \in Nat /\ h.index \in 1..Len(slots)
         /\ inserts \in Nat
<1>1. Len(slots) \in Nat /\ slots \in Seq(Slot) /\ DOMAIN slots = 1..Len(slots) /\ inserts \in Nat
  BY DEF TypeOK
<1>2. \A i \in 1..Len(slots) : slots[i] \in Slot
  BY <1>1
<1>3. \A h \in issued : h.generation \in Nat /\ h.index \in 1..Len(slots)
  BY DEF TypeOK, Bounded, Handle, Generation
<1>4. \A s \in Slot : s.generation \in Nat
  <2>1. \A s \in Slot : s.generation \in Generation
    BY DEF Slot
  <2>2. QED
    BY <2>1, BoundsAssumption DEF Generation
<1>5. QED
  BY <1>1, <1>2, <1>3, <1>4

(* Reusing a slot: its generation is past every handle given out for it. *)
LEMMA InsertReusedTells ==
  ASSUME IInv, GenerationsTell, NEW v \in Value, Insert(v), InsertReused(v)
  PROVE  GenerationsTell' /\ StaysStale
<1> DEFINE g == slots[freeHead].generation
<1>1. freeHead \in 1..Len(slots) /\ ~slots[freeHead].live
  BY SlotTypes DEF InsertReused, IInv, FreeListSound, FreeSlots
<1>2. /\ slots' = [slots EXCEPT ![freeHead] = Live(g, v)]
      /\ issued' = issued \cup {[index |-> freeHead, generation |-> g]}
      /\ inserts' = inserts + 1
  BY DEF Insert, InsertReused
<1>3. /\ Len(slots') = Len(slots) /\ DOMAIN slots' = DOMAIN slots
      /\ slots'[freeHead].live /\ slots'[freeHead].generation = g
      /\ \A i \in 1..Len(slots) : i # freeHead => slots'[i] = slots[i]
  BY <1>1, <1>2, SlotTypes DEF IInv, Live
<1>4. \A h \in issued : h.index = freeHead => h.generation < g
  BY <1>1 DEF GenerationsTell
<1>5. StaysStale
  BY <1>1, <1>3, <1>4, SlotTypes DEF StaysStale, Contains, IInv
<1>6. \A i \in 1..Len(slots') :
        slots'[i].generation + (IF slots'[i].live THEN 1 ELSE 0) <= inserts'
  <2>1. ASSUME NEW i \in 1..Len(slots)
        PROVE  slots'[i].generation + (IF slots'[i].live THEN 1 ELSE 0) <= inserts'
    <3>1. slots[i].generation + (IF slots[i].live THEN 1 ELSE 0) <= inserts
      BY DEF GenerationsTell
    <3>2. QED
      BY <1>1, <1>2, <1>3, <3>1, SlotTypes DEF IInv
  <2>2. QED
    BY <1>3, <2>1
<1>7. ASSUME NEW h \in issued'
      PROVE  /\ h.generation <= slots'[h.index].generation
             /\ ~slots'[h.index].live => h.generation < slots'[h.index].generation
  <2>1. CASE h \in issued /\ h.index # freeHead
    BY <1>3, <2>1, SlotTypes DEF GenerationsTell, IInv
  <2>2. CASE h \in issued /\ h.index = freeHead
    BY <1>1, <1>3, <1>4, <2>2, SlotTypes DEF IInv
  <2>3. CASE h = [index |-> freeHead, generation |-> g]
    BY <1>1, <1>3, <2>3, SlotTypes DEF IInv
  <2>4. QED
    BY <1>2, <2>1, <2>2, <2>3
<1>8. QED
  BY <1>5, <1>6, <1>7 DEF GenerationsTell

LEMMA InsertFreshTells ==
  ASSUME IInv, GenerationsTell, NEW v \in Value, Insert(v), InsertFresh(v)
  PROVE  GenerationsTell' /\ StaysStale
<1>1. /\ slots' = Append(slots, Live(0, v))
      /\ issued' = issued \cup {[index |-> Len(slots) + 1, generation |-> 0]}
      /\ inserts' = inserts + 1
  BY DEF Insert, InsertFresh
<1>2. /\ Len(slots') = Len(slots) + 1 /\ DOMAIN slots' = 1..(Len(slots) + 1)
      /\ \A i \in 1..Len(slots) : slots'[i] = slots[i]
      /\ slots'[Len(slots) + 1].live /\ slots'[Len(slots) + 1].generation = 0
  BY <1>1, SlotTypes DEF IInv, Live
<1>3. StaysStale
  BY <1>2, SlotTypes DEF StaysStale, Contains, IInv
<1>4. \A i \in 1..Len(slots') :
        slots'[i].generation + (IF slots'[i].live THEN 1 ELSE 0) <= inserts'
  <2>1. ASSUME NEW i \in 1..Len(slots)
        PROVE  slots'[i].generation + (IF slots'[i].live THEN 1 ELSE 0) <= inserts'
    <3>1. slots[i].generation + (IF slots[i].live THEN 1 ELSE 0) <= inserts
      BY DEF GenerationsTell
    <3>2. QED
      BY <1>1, <1>2, <3>1, SlotTypes DEF IInv
  <2>2. QED
    BY <1>1, <1>2, <2>1, SlotTypes DEF IInv
<1>5. ASSUME NEW h \in issued'
      PROVE  /\ h.generation <= slots'[h.index].generation
             /\ ~slots'[h.index].live => h.generation < slots'[h.index].generation
  <2>1. CASE h \in issued
    BY <1>2, <2>1, SlotTypes DEF GenerationsTell, IInv
  <2>2. CASE h = [index |-> Len(slots) + 1, generation |-> 0]
    BY <1>2, <2>2
  <2>3. QED
    BY <1>1, <2>1, <2>2
<1>6. QED
  BY <1>3, <1>4, <1>5 DEF GenerationsTell

(* Removing: the generation is bumped and does not wrap. *)
LEMMA RemoveTells ==
  ASSUME IInv, GenerationsTell, MaxInserts < Generations, NEW h \in issued, Remove(h)
  PROVE  GenerationsTell' /\ StaysStale
<1> DEFINE g == slots[h.index].generation
           f == Freed(NextGeneration(g), freeHead)
<1>1. h.index \in 1..Len(slots) /\ slots[h.index].live
  BY SlotTypes DEF Remove, Contains, IInv
<1>2. g + 1 <= inserts /\ g \in Nat
  BY <1>1, SlotTypes DEF GenerationsTell, IInv
<1>3. inserts <= MaxInserts /\ inserts \in Nat
  BY DEF IInv, Bounded, TypeOK
<1>4. NextGeneration(g) = g + 1
  BY <1>2, <1>3, BoundsAssumption DEF NextGeneration
<1>5. slots' = [slots EXCEPT ![h.index] = f] /\ UNCHANGED <<issued, inserts>>
  BY DEF Remove, FreeLink
<1>6. ~f.live /\ f.generation = g + 1
  BY <1>4 DEF Freed
<1> HIDE DEF f
<1>7. /\ Len(slots') = Len(slots) /\ DOMAIN slots' = DOMAIN slots
      /\ ~slots'[h.index].live /\ slots'[h.index].generation = g + 1
      /\ \A i \in 1..Len(slots) : i # h.index => slots'[i] = slots[i]
  BY <1>1, <1>5, <1>6, SlotTypes DEF IInv
<1>8. StaysStale
  BY <1>1, <1>7, SlotTypes DEF StaysStale, Contains, IInv
<1>9. \A i \in 1..Len(slots') :
        slots'[i].generation + (IF slots'[i].live THEN 1 ELSE 0) <= inserts'
  <2>1. ASSUME NEW i \in 1..Len(slots)
        PROVE  slots'[i].generation + (IF slots'[i].live THEN 1 ELSE 0) <= inserts'
    <3>1. slots[i].generation + (IF slots[i].live THEN 1 ELSE 0) <= inserts
      BY DEF GenerationsTell
    <3>2. QED
      BY <1>2, <1>5, <1>7, <3>1, SlotTypes DEF IInv
  <2>2. QED
    BY <1>7, <2>1
<1>10. ASSUME NEW k \in issued'
       PROVE  /\ k.generation <= slots'[k.index].generation
              /\ ~slots'[k.index].live => k.generation < slots'[k.index].generation
  <2>1. k \in issued /\ k.index \in 1..Len(slots) /\ k.generation \in Nat
    BY <1>5, SlotTypes DEF IInv
  <2>2. k.generation <= slots[k.index].generation
    BY <2>1 DEF GenerationsTell
  <2>3. CASE k.index = h.index
    BY <1>2, <1>7, <2>1, <2>2, <2>3
  <2>4. CASE k.index # h.index
    BY <1>7, <2>1, <2>4 DEF GenerationsTell
  <2>5. QED
    BY <2>3, <2>4
<1>11. QED
  BY <1>8, <1>9, <1>10 DEF GenerationsTell

LEMMA WriteTells ==
  ASSUME IInv, GenerationsTell, NEW h \in issued, NEW v \in Value, Write(h, v)
  PROVE  GenerationsTell' /\ StaysStale
<1>1. h.index \in 1..Len(slots) /\ slots[h.index].live /\ slots[h.index].generation = h.generation
  BY SlotTypes DEF Write, Contains, IInv
<1>2. slots' = [slots EXCEPT ![h.index] = Live(h.generation, v)] /\ UNCHANGED <<issued, inserts>>
  BY DEF Write
<1>3. /\ Len(slots') = Len(slots) /\ DOMAIN slots' = DOMAIN slots
      /\ slots'[h.index].live /\ slots'[h.index].generation = h.generation
      /\ \A i \in 1..Len(slots) : i # h.index => slots'[i] = slots[i]
  BY <1>1, <1>2, SlotTypes DEF IInv, Live
<1>4. StaysStale
  BY <1>1, <1>2, <1>3, SlotTypes DEF StaysStale, Contains, IInv
<1>5. \A i \in 1..Len(slots') :
        slots'[i].generation + (IF slots'[i].live THEN 1 ELSE 0) <= inserts'
  <2>1. ASSUME NEW i \in 1..Len(slots)
        PROVE  slots'[i].generation + (IF slots'[i].live THEN 1 ELSE 0) <= inserts'
    <3>1. slots[i].generation + (IF slots[i].live THEN 1 ELSE 0) <= inserts
      BY DEF GenerationsTell
    <3>2. QED
      BY <1>1, <1>2, <1>3, <3>1, SlotTypes DEF IInv
  <2>2. QED
    BY <1>3, <2>1
<1>6. ASSUME NEW k \in issued'
      PROVE  /\ k.generation <= slots'[k.index].generation
             /\ ~slots'[k.index].live => k.generation < slots'[k.index].generation
  <2>1. k \in issued /\ k.index \in 1..Len(slots)
    BY <1>2, SlotTypes DEF IInv
  <2>2. k.generation <= slots[k.index].generation
    BY <2>1 DEF GenerationsTell
  <2>3. CASE k.index = h.index
    BY <1>1, <1>3, <2>2, <2>3
  <2>4. CASE k.index # h.index
    BY <1>3, <2>1, <2>4 DEF GenerationsTell
  <2>5. QED
    BY <2>3, <2>4
<1>7. QED
  BY <1>4, <1>5, <1>6 DEF GenerationsTell

LEMMA NextTells ==
  ASSUME MaxInserts < Generations, IInv, GenerationsTell, [Next]_vars
  PROVE  GenerationsTell' /\ StaysStale
<1>1. CASE UNCHANGED vars
  BY <1>1 DEF vars, GenerationsTell, StaysStale, Contains
<1>2. ASSUME NEW v \in Value, Insert(v)
      PROVE  GenerationsTell' /\ StaysStale
  BY <1>2, InsertReusedTells, InsertFreshTells DEF Insert
<1>3. QED
  BY <1>1, <1>2, RemoveTells, WriteTells DEF Next

(* A removed handle is permanently stale, as remove's comment says, as     *)
(* long as fewer values are inserted than a slot has generations.          *)
THEOREM RemovedStaysStale ==
  ASSUME MaxInserts < Generations
  PROVE  Spec => StaleForever
<1>1. Init => GenerationsTell
  BY DEF Init, GenerationsTell
<1>2. IInv /\ GenerationsTell /\ [Next]_vars => GenerationsTell'
  BY NextTells
<1>3. IInv /\ GenerationsTell /\ [Next]_vars =>
        [\A h \in issued : ~Contains(h) => ~Contains(h)']_vars
  BY NextTells DEF StaysStale
<1>4. QED
  BY <1>1, <1>2, <1>3, IInvInvariant, PTL DEF Spec, StaleForever

----------------------------------------------------------------------------
(***************************************************************************)
(* No slot is lost.  The free list as a whole: a path of free slots that   *)
(* starts at the head, follows the links, ends where there is none, and    *)
(* passes every free slot once.                                            *)
(***************************************************************************)
Path(p, k) ==
  /\ p \in [1..k -> FreeSlots]
  /\ \A i, j \in 1..k : p[i] = p[j] => i = j
  /\ \A s \in FreeSlots : \E i \in 1..k : p[i] = s
  /\ IF k = 0 THEN freeHead = None ELSE freeHead = p[1] /\ slots[p[k]].next = None
  /\ \A i \in 1..(k - 1) : slots[p[i]].next = p[i + 1]

LiveCounted == liveCount = Cardinality(DOMAIN slots \ FreeSlots)

Threaded == \E k \in Nat : \E p \in [1..k -> FreeSlots] : Path(p, k)

LInv == Threaded /\ LiveCounted

(* The live slots are finitely many. *)
LEMMA LiveFinite ==
  ASSUME TypeOK
  PROVE  /\ IsFiniteSet(DOMAIN slots \ FreeSlots)
         /\ Cardinality(DOMAIN slots \ FreeSlots) \in Nat
<1>1. DOMAIN slots = 1..Len(slots) /\ Len(slots) \in Nat
  BY DEF TypeOK
<1>2. IsFiniteSet(1..Len(slots))
  BY <1>1, FS_Interval
<1>3. IsFiniteSet(DOMAIN slots \ FreeSlots)
  BY <1>1, <1>2, FS_Subset
<1>4. QED
  BY <1>3, FS_CardinalityType

(* Popping the head leaves the rest of the path. *)
LEMMA InsertReusedThreads ==
  ASSUME IInv, LInv, NEW v \in Value, Insert(v), InsertReused(v)
  PROVE  LInv'
<1> USE DEF None
<1> DEFINE g == slots[freeHead].generation
<1>0. PICK k \in Nat : \E p \in [1..k -> FreeSlots] : Path(p, k)
  BY DEF LInv, Threaded
<1>1. PICK p \in [1..k -> FreeSlots] : Path(p, k)
  BY <1>0
<1>2. /\ freeHead # 0 /\ freeHead' = slots[freeHead].next
      /\ slots' = [slots EXCEPT ![freeHead] = Live(g, v)]
      /\ liveCount' = liveCount + 1
  BY DEF Insert, InsertReused
<1>3. k # 0 /\ freeHead = p[1] /\ 1 \in 1..k /\ freeHead \in FreeSlots
  <2>1. k # 0 /\ freeHead = p[1]
    BY <1>1, <1>2 DEF Path
  <2>2. QED
    BY <1>1, <2>1
<1>4. /\ slots \in Seq(Slot) /\ DOMAIN slots = 1..Len(slots) /\ Len(slots) \in Nat
      /\ freeHead \in DOMAIN slots
  BY <1>3 DEF IInv, TypeOK, FreeSlots
<1>5. /\ DOMAIN slots' = DOMAIN slots
      /\ \A i \in DOMAIN slots : i # freeHead => slots'[i] = slots[i]
      /\ slots'[freeHead].live
  BY <1>2, <1>4 DEF Live
<1>6. FreeSlots' = FreeSlots \ {freeHead}
  BY <1>4, <1>5 DEF FreeSlots
<1>7. \A s \in FreeSlots' : slots'[s] = slots[s]
  BY <1>4, <1>5, <1>6 DEF FreeSlots
<1> DEFINE m == k - 1
           q == [i \in 1..m |-> p[i + 1]]
<1>8. m \in Nat /\ \A i \in 1..m : i + 1 \in 1..k /\ q[i] = p[i + 1] /\ p[i + 1] # freeHead
  <2>1. m \in Nat /\ \A i \in 1..m : i + 1 \in 1..k /\ q[i] = p[i + 1] /\ i + 1 # 1
    BY <1>3
  <2>2. QED
    BY <1>1, <1>3, <2>1 DEF Path
<1>9. q \in [1..m -> FreeSlots']
  <2>1. \A i \in 1..m : q[i] \in FreeSlots'
    BY <1>1, <1>6, <1>8
  <2>2. QED
    BY <2>1
<1>10. \A i, j \in 1..m : q[i] = q[j] => i = j
  <2>1. ASSUME NEW i \in 1..m, NEW j \in 1..m, q[i] = q[j]
        PROVE  i = j
    <3>1. i + 1 = j + 1
      BY <1>1, <1>8, <2>1 DEF Path
    <3>2. QED
      BY <3>1
  <2>2. QED
    BY <2>1
<1>11. \A s \in FreeSlots' : \E i \in 1..m : q[i] = s
  <2>1. ASSUME NEW s \in FreeSlots' PROVE \E i \in 1..m : q[i] = s
    <3>1. PICK j \in 1..k : p[j] = s
      BY <1>1, <1>6 DEF Path
    <3>2. j # 1
      BY <1>3, <1>6, <3>1
    <3>3. j - 1 \in 1..m /\ (j - 1) + 1 = j
      BY <3>2, <1>3
    <3>4. q[j - 1] = s
      BY <3>1, <3>3
    <3>5. QED
      BY <3>3, <3>4
  <2>2. QED
    BY <2>1
<1>12. \A i \in 1..(m - 1) : slots'[q[i]].next = q[i + 1]
  <2>1. ASSUME NEW i \in 1..(m - 1)
        PROVE  slots'[q[i]].next = q[i + 1]
    <3>1. i \in 1..m /\ i + 1 \in 1..m /\ i + 1 \in 1..(k - 1)
      BY <1>3
    <3>2. slots'[q[i]] = slots[p[i + 1]] /\ q[i + 1] = p[(i + 1) + 1]
      BY <1>7, <1>8, <1>9, <3>1
    <3>3. slots[p[i + 1]].next = p[(i + 1) + 1]
      BY <1>1, <3>1 DEF Path
    <3>4. QED
      BY <3>2, <3>3
  <2>2. QED
    BY <2>1
<1>13. IF m = 0 THEN freeHead' = 0
       ELSE freeHead' = q[1] /\ slots'[q[m]].next = 0
  <2>1. CASE m = 0
    BY <1>1, <1>2, <1>3, <2>1 DEF Path
  <2>2. CASE m # 0
    <3>1. 1 \in 1..(k - 1) /\ 1 \in 1..m /\ m \in 1..m /\ m + 1 = k /\ 1 + 1 = 2
      BY <1>3, <2>2
    <3>2. freeHead' = p[2] /\ q[1] = p[2]
      BY <1>1, <1>2, <1>3, <3>1 DEF Path
    <3>3. q[m] = p[k] /\ slots'[q[m]] = slots[p[k]]
      BY <1>7, <1>8, <1>9, <3>1
    <3>4. slots[p[k]].next = 0
      BY <1>1, <1>3 DEF Path
    <3>5. QED
      BY <2>2, <3>2, <3>3, <3>4
  <2>3. QED
    BY <2>1, <2>2
<1> HIDE DEF m, q
<1>14. Threaded'
  BY <1>8, <1>9, <1>10, <1>11, <1>12, <1>13 DEF Threaded, Path
<1>15. LiveCounted'
  <2>1. DOMAIN slots' \ FreeSlots' = (DOMAIN slots \ FreeSlots) \cup {freeHead}
    BY <1>3, <1>4, <1>5, <1>6
  <2>2. freeHead \notin DOMAIN slots \ FreeSlots
    BY <1>3
  <2>3. /\ IsFiniteSet(DOMAIN slots \ FreeSlots)
    BY LiveFinite DEF IInv
  <2>4. Cardinality((DOMAIN slots \ FreeSlots) \cup {freeHead}) =
          Cardinality(DOMAIN slots \ FreeSlots) + 1
    BY <2>2, <2>3, FS_AddElement
  <2>5. QED
    BY <1>2, <2>1, <2>4 DEF LInv, LiveCounted
<1>16. QED
  BY <1>14, <1>15 DEF LInv

(* What is free, and how it is linked, settles the path. *)
LEMMA SameThread ==
  ASSUME Threaded, freeHead' = freeHead, FreeSlots' = FreeSlots,
         \A i \in FreeSlots : slots'[i].next = slots[i].next
  PROVE  Threaded'
<1>1. PICK k \in Nat : \E p \in [1..k -> FreeSlots] : Path(p, k)
  BY DEF Threaded
<1>2. PICK p \in [1..k -> FreeSlots] : Path(p, k)
  BY <1>1
<1>3. /\ p \in [1..k -> FreeSlots']
      /\ \A i, j \in 1..k : p[i] = p[j] => i = j
      /\ \A s \in FreeSlots' : \E i \in 1..k : p[i] = s
  BY <1>2 DEF Path
<1>4. \A i \in 1..(k - 1) : slots'[p[i]].next = p[i + 1]
  <2>1. \A i \in 1..(k - 1) : i \in 1..k
    BY <1>1
  <2>2. QED
    BY <1>2, <2>1 DEF Path
<1>5. IF k = 0 THEN freeHead' = None
      ELSE freeHead' = p[1] /\ slots'[p[k]].next = None
  <2>1. k # 0 => k \in 1..k
    BY <1>1
  <2>2. QED
    BY <1>2, <2>1 DEF Path
<1>6. Path(p, k)'
  BY <1>3, <1>4, <1>5 DEF Path
<1>7. QED
  BY <1>1, <1>3, <1>6 DEF Threaded

(* Growing adds a live slot. *)
LEMMA InsertFreshThreads ==
  ASSUME IInv, LInv, NEW v \in Value, Insert(v), InsertFresh(v)
  PROVE  LInv'
<1> DEFINE n == Len(slots) + 1
<1>1. /\ slots \in Seq(Slot) /\ DOMAIN slots = 1..Len(slots) /\ Len(slots) \in Nat
      /\ slots' = Append(slots, Live(0, v)) /\ freeHead' = freeHead
      /\ liveCount' = liveCount + 1
  BY DEF Insert, InsertFresh, IInv, TypeOK
<1>2. /\ DOMAIN slots' = DOMAIN slots \cup {n} /\ n \notin DOMAIN slots
      /\ \A i \in DOMAIN slots : slots'[i] = slots[i]
      /\ slots'[n].live
  <2>1. DOMAIN slots' = 1..(Len(slots) + 1) /\ slots'[n] = Live(0, v)
        /\ \A i \in 1..Len(slots) : slots'[i] = slots[i]
    BY <1>1
  <2>2. QED
    BY <1>1, <2>1 DEF Live
<1> HIDE DEF n
<1>3. FreeSlots' = FreeSlots /\ \A i \in FreeSlots : slots'[i] = slots[i]
  BY <1>2 DEF FreeSlots
<1>4. Threaded'
  BY <1>1, <1>3, SameThread DEF LInv
<1>5. LiveCounted'
  <2>1. /\ DOMAIN slots' \ FreeSlots' = (DOMAIN slots \ FreeSlots) \cup {n}
        /\ n \notin DOMAIN slots \ FreeSlots
    BY <1>2, <1>3 DEF FreeSlots
  <2>2. IsFiniteSet(DOMAIN slots \ FreeSlots)
    BY LiveFinite DEF IInv
  <2>3. Cardinality((DOMAIN slots \ FreeSlots) \cup {n}) =
          Cardinality(DOMAIN slots \ FreeSlots) + 1
    BY <2>1, <2>2, FS_AddElement
  <2>4. QED
    BY <1>1, <2>1, <2>3 DEF LInv, LiveCounted
<1>6. QED
  BY <1>4, <1>5 DEF LInv

(* A write touches a live slot. *)
LEMMA WriteThreads ==
  ASSUME IInv, LInv, NEW h \in issued, NEW v \in Value, Write(h, v)
  PROVE  LInv'
<1>1. /\ slots \in Seq(Slot) /\ DOMAIN slots = 1..Len(slots)
      /\ h.index \in DOMAIN slots /\ slots[h.index].live
      /\ slots' = [slots EXCEPT ![h.index] = Live(h.generation, v)]
      /\ freeHead' = freeHead /\ liveCount' = liveCount
  BY DEF Write, Contains, IInv, TypeOK
<1>2. /\ DOMAIN slots' = DOMAIN slots /\ slots'[h.index].live
      /\ \A i \in DOMAIN slots : i # h.index => slots'[i] = slots[i]
  BY <1>1 DEF Live
<1>3. FreeSlots' = FreeSlots /\ \A i \in FreeSlots : slots'[i] = slots[i]
  BY <1>1, <1>2 DEF FreeSlots
<1>4. Threaded'
  BY <1>1, <1>3, SameThread DEF LInv
<1>5. LiveCounted'
  BY <1>1, <1>2, <1>3 DEF LInv, LiveCounted
<1>6. QED
  BY <1>4, <1>5 DEF LInv

(* A removal puts its slot in front of the path. *)
LEMMA RemoveThreads ==
  ASSUME IInv, LInv, NEW h \in issued, Remove(h)
  PROVE  LInv'
<1> DEFINE f == Freed(NextGeneration(slots[h.index].generation), freeHead)
           x == h.index
<1>1. PICK k \in Nat : \E p \in [1..k -> FreeSlots] : Path(p, k)
  BY DEF LInv, Threaded
<1>2. PICK p \in [1..k -> FreeSlots] : Path(p, k)
  BY <1>1
<1>3. /\ slots \in Seq(Slot) /\ DOMAIN slots = 1..Len(slots) /\ Len(slots) \in Nat
      /\ x \in DOMAIN slots /\ slots[x].live
      /\ slots' = [slots EXCEPT ![x] = f] /\ freeHead' = x
      /\ liveCount' = SaturatingDecrement(liveCount)
  BY DEF Remove, Contains, FreeLink, IInv, TypeOK
<1>4. ~f.live /\ f.next = freeHead
  BY DEF Freed
<1> HIDE DEF f, x
<1>5. /\ DOMAIN slots' = DOMAIN slots /\ slots'[x] = f
      /\ \A i \in DOMAIN slots : i # x => slots'[i] = slots[i]
  BY <1>3
<1>6. /\ FreeSlots' = FreeSlots \cup {x} /\ x \notin FreeSlots
      /\ \A i \in FreeSlots : slots'[i] = slots[i]
  BY <1>3, <1>4, <1>5 DEF FreeSlots
<1> DEFINE m == k + 1
           q == [i \in 1..m |-> IF i = 1 THEN x ELSE p[i - 1]]
<1>7. /\ m \in Nat /\ m # 0 /\ 1 \in 1..m /\ q[1] = x
      /\ \A i \in 1..k : i + 1 \in 1..m /\ q[i + 1] = p[i]
      /\ \A i \in 1..m : i = 1 \/ (i - 1 \in 1..k /\ q[i] = p[i - 1])
  <2>1. /\ m \in Nat /\ m # 0 /\ 1 \in 1..m
        /\ \A i \in 1..k : i + 1 \in 1..m /\ i + 1 # 1 /\ (i + 1) - 1 = i
        /\ \A i \in 1..m : i = 1 \/ i - 1 \in 1..k
    BY <1>1
  <2>2. QED
    BY <2>1
<1>8. q \in [1..m -> FreeSlots']
  <2>1. \A i \in 1..m : q[i] \in FreeSlots'
    BY <1>2, <1>6, <1>7
  <2>2. QED
    BY <2>1
<1> HIDE DEF m, q
<1>9. \A i, j \in 1..m : q[i] = q[j] => i = j
  <2>1. ASSUME NEW i \in 1..m, NEW j \in 1..m, q[i] = q[j]
        PROVE  i = j
    <3>1. \A l \in 1..k : p[l] # x
      BY <1>2, <1>6
    <3>2. CASE i = 1 \/ j = 1
      BY <2>1, <1>7, <3>1, <3>2
    <3>3. CASE i # 1 /\ j # 1
      <4>1. i - 1 = j - 1
        BY <1>2, <1>7, <2>1, <3>3 DEF Path
      <4>2. QED
        BY <4>1, <1>7
    <3>4. QED
      BY <3>2, <3>3
  <2>2. QED
    BY <2>1
<1>10. \A s \in FreeSlots' : \E i \in 1..m : q[i] = s
  <2>1. ASSUME NEW s \in FreeSlots' PROVE \E i \in 1..m : q[i] = s
    <3>1. CASE s = x
      BY <1>7, <3>1
    <3>2. CASE s # x
      <4>1. PICK i \in 1..k : p[i] = s
        BY <1>2, <1>6, <3>2 DEF Path
      <4>2. QED
        BY <1>7, <4>1
    <3>3. QED
      BY <3>1, <3>2
  <2>2. QED
    BY <2>1
<1>11. IF m = 0 THEN freeHead' = None
       ELSE freeHead' = q[1] /\ slots'[q[m]].next = None
  <2>1. CASE k = 0
    <3>1. q[m] = x /\ freeHead = None
      BY <1>2, <1>7, <2>1 DEF Path, m
    <3>2. QED
      BY <1>3, <1>4, <1>5, <1>7, <3>1
  <2>2. CASE k # 0
    <3>1. k \in 1..k
      BY <1>1, <2>2
    <3>2. q[m] = p[k] /\ p[k] \in FreeSlots
      BY <1>2, <1>7, <3>1 DEF m
    <3>3. slots[p[k]].next = None
      BY <1>2, <2>2 DEF Path
    <3>4. QED
      BY <1>3, <1>6, <1>7, <3>2, <3>3
  <2>3. QED
    BY <2>1, <2>2
<1>12. \A i \in 1..(m - 1) : slots'[q[i]].next = q[i + 1]
  <2>1. ASSUME NEW i \in 1..(m - 1) PROVE slots'[q[i]].next = q[i + 1]
    <3>1. i \in 1..k
      BY <1>1 DEF m
    <3>2. q[i + 1] = p[i]
      BY <1>7, <3>1
    <3>3. CASE i = 1
      <4>1. freeHead = p[1]
        BY <1>2, <3>1, <3>3 DEF Path
      <4>2. QED
        BY <1>4, <1>5, <1>7, <3>2, <3>3, <4>1
    <3>4. CASE i # 1
      <4>1. i - 1 \in 1..(k - 1) /\ i - 1 \in 1..k /\ (i - 1) + 1 = i
        BY <3>1, <3>4
      <4>2. q[i] = p[i - 1] /\ p[i - 1] \in FreeSlots
        <5>1. i \in 1..m
          BY <1>1, <3>1 DEF m
        <5>2. QED
          BY <1>2, <1>7, <3>4, <4>1, <5>1
      <4>3. slots[p[i - 1]].next = p[i]
        BY <1>2, <4>1 DEF Path
      <4>4. QED
        BY <1>6, <3>2, <4>2, <4>3
    <3>5. QED
      BY <3>3, <3>4
  <2>2. QED
    BY <2>1
<1>13. Threaded'
  <2>1. Path(q, m)'
    BY <1>8, <1>9, <1>10, <1>11, <1>12 DEF Path
  <2>2. m \in Nat
    BY <1>7
  <2>3. QED
    BY <1>8, <2>1, <2>2 DEF Threaded
<1>14. LiveCounted'
  <2>1. DOMAIN slots' \ FreeSlots' = (DOMAIN slots \ FreeSlots) \ {x}
    BY <1>5, <1>6
  <2>2. x \in DOMAIN slots \ FreeSlots
    BY <1>3, <1>6
  <2>3. /\ IsFiniteSet(DOMAIN slots \ FreeSlots)
        /\ Cardinality(DOMAIN slots \ FreeSlots) \in Nat
    BY LiveFinite DEF IInv
  <2>4. Cardinality((DOMAIN slots \ FreeSlots) \ {x}) =
          Cardinality(DOMAIN slots \ FreeSlots) - 1
    BY <2>2, <2>3, FS_RemoveElement
  <2>5. Cardinality(DOMAIN slots \ FreeSlots) > 0
    <3>1. Cardinality(DOMAIN slots \ FreeSlots) # 0
      BY <2>2, <2>3, FS_EmptySet
    <3>2. QED
      BY <2>3, <3>1
  <2>6. QED
    BY <1>3, <2>1, <2>4, <2>5 DEF LInv, LiveCounted, SaturatingDecrement
<1>15. QED
  BY <1>13, <1>14 DEF LInv

(* Hence the path is there in every reachable state. *)
LEMMA AlwaysThreaded == Spec => []LInv
<1>1. Init => LInv
  <2> SUFFICES ASSUME Init PROVE LInv
    OBVIOUS
  <2>1. FreeSlots = {} /\ DOMAIN slots \ FreeSlots = {}
    BY DEF Init, FreeSlots
  <2>2. LiveCounted
    BY <2>1, FS_EmptySet DEF Init, LiveCounted
  <2> DEFINE p == [i \in 1..0 |-> 0]
  <2>3. p \in [1..0 -> FreeSlots]
    OBVIOUS
  <2>4. Path(p, 0)
    BY <2>1, <2>3 DEF Path, Init
  <2>5. Threaded
    BY <2>3, <2>4 DEF Threaded
  <2>6. QED
    BY <2>2, <2>5 DEF LInv
<1>2. IInv /\ LInv /\ [Next]_vars => LInv'
  <2> SUFFICES ASSUME IInv, LInv, [Next]_vars PROVE LInv'
    OBVIOUS
  <2>1. CASE UNCHANGED vars
    <3>1. FreeSlots' = FreeSlots
      BY <2>1 DEF vars, FreeSlots
    <3>2. Threaded'
      BY <2>1, <3>1, SameThread DEF vars, LInv
    <3>3. QED
      BY <2>1, <3>1, <3>2 DEF vars, LInv, LiveCounted
  <2>2. ASSUME NEW v \in Value, Insert(v) PROVE LInv'
    BY <2>2, InsertReusedThreads, InsertFreshThreads DEF Insert
  <2>3. QED
    BY <2>1, <2>2, RemoveThreads, WriteThreads DEF Next
<1>3. QED
  BY <1>1, <1>2, IInvInvariant, PTL DEF Spec

(* What a walk along the links is. *)
Walks(w) ==
  w = [n \in Nat |-> IF n = 0 THEN freeHead
                     ELSE IF w[n - 1] = None THEN None ELSE slots[w[n - 1]].next]

(* There is one walk. *)
LEMMA WalksAgree ==
  ASSUME NEW v, NEW w, Walks(v), Walks(w)
  PROVE  v = w
<1>1. /\ DOMAIN v = Nat /\ DOMAIN w = Nat
      /\ v = [n \in Nat |-> v[n]] /\ w = [n \in Nat |-> w[n]]
  BY DEF Walks
<1>2. /\ \A n \in Nat : v[n] = IF n = 0 THEN freeHead
           ELSE IF v[n - 1] = None THEN None ELSE slots[v[n - 1]].next
      /\ \A n \in Nat : w[n] = IF n = 0 THEN freeHead
           ELSE IF w[n - 1] = None THEN None ELSE slots[w[n - 1]].next
  BY DEF Walks
<1> DEFINE Bad == {n \in Nat : v[n] # w[n]}
<1>3. Bad = {}
  <2> SUFFICES ASSUME Bad # {} PROVE FALSE
    OBVIOUS
  <2>1. PICK n \in Bad : \A m \in Bad : n <= m
    <3>1. Bad \subseteq Nat
      OBVIOUS
    <3> HIDE DEF Bad
    <3>2. QED
      BY <3>1, Least
  <2>2. n \in Nat /\ v[n] # w[n]
    OBVIOUS
  <2>3. n # 0
    BY <1>2, <2>2
  <2>4. n - 1 \in Nat /\ ~(n <= n - 1)
    BY <2>2, <2>3
  <2>5. n - 1 \notin Bad
    <3> HIDE DEF Bad
    <3>1. QED
      BY <2>1, <2>4
  <2>6. v[n - 1] = w[n - 1]
    BY <2>4, <2>5
  <2>7. QED
    BY <1>2, <2>2, <2>3, <2>6
<1>4. \A n \in Nat : v[n] = w[n]
  BY <1>3
<1>5. QED
  BY <1>1, <1>4

(* It follows the path, and stays at the end of the list once there. *)
LEMMA WalkFollows ==
  ASSUME TypeOK, NEW k \in Nat, NEW p \in [1..k -> FreeSlots], Path(p, k)
  PROVE  \A n \in Nat : Walk[n] = IF n < k THEN p[n + 1] ELSE None
<1> DEFINE w == [n \in Nat |-> IF n < k THEN p[n + 1] ELSE None]
<1>1. \A n \in Nat : w[n] = IF n < k THEN p[n + 1] ELSE None
  OBVIOUS
<1>2. \A i \in 1..k : p[i] # None
  BY DEF FreeSlots, TypeOK, None
<1>3. ASSUME NEW n \in Nat
      PROVE  w[n] = IF n = 0 THEN freeHead
                    ELSE IF w[n - 1] = None THEN None ELSE slots[w[n - 1]].next
  <2>1. CASE n = 0
    <3>1. 0 < k \/ k = 0
      OBVIOUS
    <3>2. w[n] = freeHead
      BY <1>1, <2>1, <3>1 DEF Path
    <3>3. QED
      BY <2>1, <3>2
  <2>2. CASE n # 0
    <3>1. n - 1 \in Nat /\ (n - 1) + 1 = n
      BY <2>2
    <3>2. CASE n < k
      <4>1. n \in 1..(k - 1) /\ n \in 1..k /\ n - 1 < k
        BY <2>2, <3>2
      <4>2. w[n - 1] = p[n] /\ w[n] = p[n + 1] /\ p[n] # None
        BY <1>1, <1>2, <3>1, <3>2, <4>1
      <4>3. slots[p[n]].next = p[n + 1]
        BY <4>1 DEF Path
      <4>4. QED
        BY <2>2, <4>2, <4>3
    <3>3. CASE n = k
      <4>1. n \in 1..k /\ n - 1 < k /\ ~(n < k)
        BY <2>2, <3>3
      <4>2. w[n - 1] = p[k] /\ w[n] = None /\ p[k] # None
        BY <1>1, <1>2, <3>1, <3>3, <4>1
      <4>3. slots[p[k]].next = None
        BY <2>2, <3>3 DEF Path
      <4>4. QED
        BY <2>2, <4>2, <4>3
    <3>4. CASE n > k
      <4>1. ~(n - 1 < k) /\ ~(n < k)
        BY <3>4
      <4>2. w[n - 1] = None /\ w[n] = None
        BY <1>1, <3>1, <4>1
      <4>3. QED
        BY <2>2, <4>2
    <3>5. QED
      BY <3>2, <3>3, <3>4
  <2>3. QED
    BY <2>1, <2>2
<1>4. Walks(w)
  <2> DEFINE u == [n \in Nat |-> IF n = 0 THEN freeHead
                     ELSE IF w[n - 1] = None THEN None ELSE slots[w[n - 1]].next]
  <2>1. DOMAIN w = Nat /\ w = [n \in Nat |-> w[n]]
    OBVIOUS
  <2> HIDE DEF w
  <2>2. \A n \in Nat : w[n] = u[n]
    BY <1>3
  <2>3. u = [n \in Nat |-> u[n]]
    OBVIOUS
  <2> HIDE DEF u
  <2>4. w = u
    BY <2>1, <2>2, <2>3
  <2>5. QED
    BY <2>4 DEF Walks, u
<1> HIDE DEF w
<1>5. Walk = CHOOSE v : Walks(v)
  BY DEF Walk, Walks
<1>6. Walks(Walk)
  BY <1>4, <1>5
<1>7. Walk = w
  BY <1>4, <1>6, WalksAgree
<1>8. QED
  BY <1>1, <1>7

(* A path is no longer than the arena has slots. *)
LEMMA PathIsShort ==
  ASSUME TypeOK, NEW k \in Nat, NEW p \in [1..k -> FreeSlots], Path(p, k)
  PROVE  k <= Len(slots)
<1>1. DOMAIN slots = 1..Len(slots) /\ Len(slots) \in Nat
  BY DEF TypeOK
<1>2. p \in Injection(1..k, 1..Len(slots))
  BY <1>1 DEF Path, Injection, IsInjective, FreeSlots
<1>3. ASSUME NEW n \in Nat
      PROVE  IsFiniteSet(1..n) /\ Cardinality(1..n) = n
  BY FS_Interval
<1>4. /\ IsFiniteSet(1..Len(slots)) /\ Cardinality(1..Len(slots)) = Len(slots)
      /\ Cardinality(1..k) = k
  BY <1>1, <1>3
<1>5. Cardinality(1..k) <= Cardinality(1..Len(slots))
  BY <1>2, <1>4, FS_Injection
<1>6. QED
  BY <1>4, <1>5

(* insert grows the arena only when every slot is live, and len() is the   *)
(* number of live ones: the walk from the free head visits every free      *)
(* slot, whatever was inserted and removed and however generations wrapped.*)
THEOREM FreeListIsExact == Spec => []FreeListExact
<1>1. IInv /\ LInv => FreeListExact
  <2> SUFFICES ASSUME IInv, LInv PROVE FreeListExact
    OBVIOUS
  <2>1. PICK k \in Nat : \E p \in [1..k -> FreeSlots] : Path(p, k)
    BY DEF LInv, Threaded
  <2>2. PICK p \in [1..k -> FreeSlots] : Path(p, k)
    BY <2>1
  <2>3. \A n \in Nat : Walk[n] = IF n < k THEN p[n + 1] ELSE None
    BY <2>1, <2>2, WalkFollows DEF IInv
  <2>4. k <= Len(slots) /\ Len(slots) \in Nat
    BY <2>1, <2>2, PathIsShort DEF IInv, TypeOK
  <2> DEFINE Visited == {Walk[n] : n \in 0..Len(slots)}
  <2>5. ASSUME NEW s \in FreeSlots PROVE s \in Visited \ {None}
    <3>1. PICK i \in 1..k : p[i] = s
      BY <2>2 DEF Path
    <3>2. i - 1 \in 0..Len(slots) /\ i - 1 < k /\ i - 1 \in Nat /\ (i - 1) + 1 = i
      BY <2>1, <2>4
    <3>3. Walk[i - 1] = s
      BY <2>3, <3>1, <3>2
    <3>4. s # None
      BY DEF FreeSlots, IInv, TypeOK, None
    <3>5. QED
      BY <3>2, <3>3, <3>4
  <2>6. ASSUME NEW s \in Visited \ {None} PROVE s \in FreeSlots
    <3>1. PICK n \in 0..Len(slots) : s = Walk[n]
      OBVIOUS
    <3>2. n \in Nat /\ n < k
      BY <2>3, <2>4, <2>6, <3>1
    <3>3. n + 1 \in 1..k /\ s = p[n + 1]
      BY <2>3, <3>1, <3>2
    <3>4. QED
      BY <2>2, <3>3
  <2>7. NoSlotLost
    BY <2>5, <2>6 DEF NoSlotLost, LInv, LiveCounted
  <2>8. QED
    BY <2>7 DEF FreeListExact, IInv
<1>2. QED
  BY <1>1, IInvInvariant, AlwaysThreaded, PTL

----------------------------------------------------------------------------
(***************************************************************************)
(* The arena implements the handle store: with fewer insertions than there *)
(* are generations, so that no handle is given out twice.                  *)
(***************************************************************************)
Held == {g \in issued : Contains(g)}
Named == [h \in Held |-> slots[h.index].value]

(* Handles are told apart by slot and generation, so a slot is held by one.*)
LEMMA OneHolder ==
  ASSUME IInv, NEW h \in Held, NEW k \in Held, h.index = k.index
  PROVE  h = k
<1>1. h \in Handle /\ k \in Handle /\ h.generation = k.generation
  BY DEF Held, Contains, IInv, TypeOK
<1>2. QED
  BY <1>1 DEF Handle

(* Insertions give out a handle that was not given out before. *)
LEMMA InsertImplements ==
  ASSUME IInv, GenerationsTell, NEW v \in Value, Insert(v)
  PROVE  Store!Insert
<1> DEFINE i == IF freeHead # None THEN freeHead ELSE Len(slots) + 1
           g == IF freeHead # None THEN slots[freeHead].generation ELSE 0
           h == [index |-> i, generation |-> g]
<1>1. /\ issued' = issued \cup {h}
      /\ i \in DOMAIN slots' /\ slots'[i] = Live(g, v)
      /\ \A j \in DOMAIN slots' : j # i => j \in DOMAIN slots /\ slots'[j] = slots[j]
      /\ DOMAIN slots \subseteq DOMAIN slots'
      /\ i \in DOMAIN slots => ~slots[i].live
      /\ h \notin issued
  <2>1. CASE InsertReused(v)
    <3>1. /\ freeHead \in 1..Len(slots) /\ ~slots[freeHead].live /\ freeHead # None
      BY <2>1, SlotTypes DEF InsertReused, IInv, FreeListSound, FreeSlots
    <3>2. /\ issued' = issued \cup {h} /\ i = freeHead
          /\ slots' = [slots EXCEPT ![i] = Live(g, v)]
      BY <2>1, <3>1 DEF InsertReused
    <3>3. /\ DOMAIN slots = 1..Len(slots) /\ DOMAIN slots' = DOMAIN slots
          /\ slots'[i] = Live(g, v)
          /\ \A j \in DOMAIN slots : j # i => slots'[j] = slots[j]
      BY <3>1, <3>2, SlotTypes DEF IInv
    <3>4. h \notin issued
      <4>1. g = slots[i].generation /\ g \in Nat
        BY <3>1, <3>2, SlotTypes DEF IInv
      <4>2. \A k \in issued : k.index = i => k.generation < g
        BY <3>1, <3>2, <4>1 DEF GenerationsTell
      <4>3. QED
        BY <4>1, <4>2
    <3>5. QED
      BY <3>1, <3>2, <3>3, <3>4
  <2>2. CASE InsertFresh(v)
    <3>1. /\ freeHead = None /\ i = Len(slots) + 1 /\ g = 0
          /\ issued' = issued \cup {h} /\ slots' = Append(slots, Live(g, v))
      BY <2>2 DEF InsertFresh
    <3>2. /\ DOMAIN slots = 1..Len(slots) /\ DOMAIN slots' = 1..(Len(slots) + 1)
          /\ slots'[i] = Live(g, v) /\ Len(slots) \in Nat
          /\ \A j \in DOMAIN slots : slots'[j] = slots[j]
      BY <3>1, SlotTypes DEF IInv
    <3>3. h \notin issued
      <4>1. \A k \in issued : k.index \in 1..Len(slots)
        BY SlotTypes DEF IInv
      <4>2. QED
        BY <3>1, <3>2, <4>1
    <3>4. QED
      BY <3>1, <3>2, <3>3
  <2>3. QED
    BY <2>1, <2>2 DEF Insert
<1>2. h \in Handle
  <2>1. IInv'
    BY NextKeepsIInv DEF Next
  <2>2. QED
    BY <1>1, <2>1 DEF IInv, TypeOK
<1>3. h.index = i /\ h.generation = g
  OBVIOUS
<1> HIDE DEF i, g, h
<1>4. Live(g, v).live /\ Live(g, v).generation = g /\ Live(g, v).value = v
  BY DEF Live
<1>5. h \in Held' /\ slots'[h.index].value = v
  BY <1>1, <1>3, <1>4 DEF Held, Contains
<1>6. \A k \in Held : k \in Held' /\ k # h /\ slots'[k.index] = slots[k.index]
  BY <1>1 DEF Held, Contains
<1>7. \A k \in Held' : k = h \/ k \in Held
  <2> SUFFICES ASSUME NEW k \in Held', k # h PROVE k \in Held
    OBVIOUS
  <2>1. k \in issued /\ k \in Handle
    BY <1>1 DEF Held, IInv, TypeOK
  <2>2. k.index \in DOMAIN slots' /\ slots'[k.index].live
        /\ slots'[k.index].generation = k.generation
    BY DEF Held, Contains
  <2>3. k.index # i
    BY <1>1, <1>2, <1>3, <1>4, <2>1, <2>2 DEF Handle
  <2>4. QED
    BY <1>1, <2>1, <2>2, <2>3 DEF Held, Contains
<1>8. Held' = Held \cup {h}
  BY <1>5, <1>6, <1>7
<1>9. Named' = [k \in Held \cup {h} |-> IF k = h THEN v ELSE Named[k]]
  BY <1>5, <1>6, <1>8 DEF Named
<1>10. DOMAIN Named = Held
  BY DEF Named
<1>11. QED
  BY <1>1, <1>2, <1>9, <1>10 DEF Store!Insert, Named, Held

(* A write through a handle changes what it names, and nothing else. *)
LEMMA WriteImplements ==
  ASSUME IInv, NEW h \in issued, NEW v \in Value, Write(h, v)
  PROVE  Store!Write
<1>1. /\ h \in Held /\ h.index \in DOMAIN slots
      /\ slots' = [slots EXCEPT ![h.index] = Live(h.generation, v)]
      /\ issued' = issued
  BY DEF Write, Held, Contains
<1>2. /\ DOMAIN slots' = DOMAIN slots
      /\ \A j \in DOMAIN slots : j # h.index => slots'[j] = slots[j]
      /\ slots'[h.index].live /\ slots'[h.index].value = v
      /\ slots'[h.index].generation = h.generation
      /\ slots[h.index].generation = h.generation /\ slots[h.index].live
  BY <1>1, SlotTypes DEF IInv, Live, Held, Contains
<1>3. Held' = Held
  BY <1>1, <1>2 DEF Held, Contains
<1>4. \A k \in Held : k # h => slots'[k.index] = slots[k.index]
  BY <1>1, <1>2, OneHolder DEF Held, Contains
<1>5. Named' = [Named EXCEPT ![h] = v]
  <2>1. Named' = [k \in Held |-> slots'[k.index].value]
    BY <1>3 DEF Named
  <2>2. [Named EXCEPT ![h] = v] = [k \in Held |-> IF k = h THEN v
                                                  ELSE slots[k.index].value]
    BY <1>1 DEF Named
  <2>3. \A k \in Held : slots'[k.index].value = IF k = h THEN v
                                                ELSE slots[k.index].value
    BY <1>2, <1>4
  <2>4. QED
    BY <2>1, <2>2, <2>3
<1>6. DOMAIN Named = Held
  BY DEF Named
<1>7. QED
  BY <1>1, <1>5, <1>6 DEF Store!Write, Named, Held

(* A removal takes away the handle it is given, and no other. *)
LEMMA RemoveImplements ==
  ASSUME IInv, NEW h \in issued, Remove(h)
  PROVE  Store!Remove
<1> DEFINE f == Freed(NextGeneration(slots[h.index].generation), freeHead)
<1>1. /\ h \in Held /\ h.index \in DOMAIN slots /\ issued' = issued
      /\ slots' = [slots EXCEPT ![h.index] = f] /\ ~f.live
  BY DEF Remove, FreeLink, Freed, Held, Contains
<1> HIDE DEF f
<1>2. /\ DOMAIN slots' = DOMAIN slots /\ ~slots'[h.index].live
      /\ \A j \in DOMAIN slots : j # h.index => slots'[j] = slots[j]
  BY <1>1, SlotTypes DEF IInv
<1>3. \A k \in Held : k # h => k \in Held' /\ slots'[k.index] = slots[k.index]
  BY <1>1, <1>2, OneHolder DEF Held, Contains
<1>4. \A k \in Held' : k \in Held /\ k # h
  BY <1>1, <1>2 DEF Held, Contains
<1>5. Held' = Held \ {h}
  BY <1>3, <1>4
<1>6. Named' = [k \in Held \ {h} |-> Named[k]]
  BY <1>3, <1>5 DEF Named
<1>7. DOMAIN Named = Held
  BY DEF Named
<1>8. QED
  BY <1>1, <1>6, <1>7 DEF Store!Remove, Named, Held

(* Every behaviour of the arena is one of the handle store: a handle is    *)
(* given out once, names its own value while it is live and nothing after, *)
(* as arena.rs promises, as long as fewer values are inserted than a slot  *)
(* has generations.                                                        *)
THEOREM ArenaKeepsHandlesApart ==
  ASSUME MaxInserts < Generations
  PROVE  Spec => KeepsHandlesApart
<1>1. Init => GenerationsTell
  BY DEF Init, GenerationsTell
<1>2. IInv /\ GenerationsTell /\ [Next]_vars => GenerationsTell'
  BY NextTells
<1>3. Init => Store!Init
  <2> SUFFICES ASSUME Init PROVE Store!Init
    OBVIOUS
  <2>1. issued = {} /\ Held = {}
    BY DEF Init, Held
  <2>2. Named = [h \in {} |-> 0]
    BY <2>1 DEF Named
  <2>3. QED
    BY <2>1, <2>2 DEF Store!Init, Named, Held
<1>4. IInv /\ GenerationsTell /\ [Next]_vars =>
        [Store!Next]_<<issued, [h \in {g \in issued : Contains(g)}
                                 |-> slots[h.index].value]>>
  <2> SUFFICES ASSUME IInv, GenerationsTell, [Next]_vars
               PROVE  [Store!Next]_<<issued, Named>>
    BY DEF Named, Held
  <2>1. CASE UNCHANGED vars
    BY <2>1 DEF vars, Named, Held, Contains
  <2>2. CASE Next
    <3>1. Store!Next
      BY <2>2, InsertImplements, WriteImplements, RemoveImplements DEF Next, Store!Next
    <3>2. QED
      BY <3>1
  <2>3. QED
    BY <2>1, <2>2
<1>5. QED
  BY <1>1, <1>2, <1>3, <1>4, IInvInvariant, PTL DEF Spec, KeepsHandlesApart, Store!Spec

-----------------------------------------------------------------------------
(* Intervallum.  The points of an interval are those between two ends, and *)
(* every operation of the algebra is arithmetic on the ends.               *)
IsType(ty) == ty.min \in Int /\ ty.max \in Int /\ ty.min <= ty.max

Lowest(i) == IF Ascending(i) THEN i.initium ELSE IF i.inclusive THEN i.finis ELSE i.finis + 1
Highest(i) == IF ~Ascending(i) THEN i.initium ELSE IF i.inclusive THEN i.finis ELSE i.finis - 1

LEMMA IntervalType ==
  ASSUME NEW ty, IsType(ty), NEW i \in Interval(ty)
  PROVE  /\ i.initium \in Int /\ i.finis \in Int /\ i.inclusive \in BOOLEAN
         /\ ty.min <= i.initium /\ i.initium <= ty.max /\ ty.min <= i.finis /\ i.finis <= ty.max
BY DEF Interval, IsType

(* Contained, between the ends, in terms of them. *)
LEMMA Ends ==
  ASSUME NEW ty, IsType(ty), NEW i \in Interval(ty)
  PROVE  /\ Lowest(i) \in ty.min..ty.max /\ Highest(i) \in (ty.min - 1)..ty.max
         /\ Highest(i) >= Lowest(i) - 1
         /\ Lo(i) \in ty.min..ty.max /\ Hi(i) \in ty.min..ty.max
         /\ \A x \in Int : continet(i, x) <=> Lowest(i) <= x /\ x <= Highest(i)
         /\ \/ Lowest(i) = Lo(i) /\ Highest(i) = Hi(i)
            \/ Lowest(i) = Lo(i) + 1 /\ Highest(i) = Hi(i)
            \/ Lowest(i) = Lo(i) /\ Highest(i) = Hi(i) - 1
<1> DEFINE p == i.initium
           q == i.finis
           e == i.inclusive
<1>1. /\ p \in Int /\ q \in Int /\ e \in BOOLEAN /\ ty.min \in Int /\ ty.max \in Int
      /\ ty.min <= p /\ p <= ty.max /\ ty.min <= q /\ q <= ty.max
  BY IntervalType DEF IsType
<1>2. CASE p <= q /\ e
  BY <1>1, <1>2 DEF Lowest, Highest, Lo, Hi, continet, Ascending
<1>3. CASE p <= q /\ ~e
  BY <1>1, <1>3 DEF Lowest, Highest, Lo, Hi, continet, Ascending
<1>4. CASE ~(p <= q) /\ e
  BY <1>1, <1>4 DEF Lowest, Highest, Lo, Hi, continet, Ascending
<1>5. CASE ~(p <= q) /\ ~e
  BY <1>1, <1>5 DEF Lowest, Highest, Lo, Hi, continet, Ascending
<1>6. QED
  BY <1>1, <1>2, <1>3, <1>4, <1>5

LEMMA PointsAre ==
  ASSUME NEW ty, IsType(ty), NEW i \in Interval(ty)
  PROVE  Points(ty, i) = Lowest(i)..Highest(i)
<1>1. ty.min \in Int /\ ty.max \in Int /\ Lowest(i) \in ty.min..ty.max
      /\ Highest(i) \in (ty.min - 1)..ty.max
  BY Ends DEF IsType
<1>2. \A x \in Int : continet(i, x) <=> Lowest(i) <= x /\ x <= Highest(i)
  BY Ends
<1>3. QED
  BY <1>1, <1>2 DEF Points

(* The ends of a run of integers are its minimum and its maximum. *)
LEMMA EndsOfRun ==
  ASSUME NEW lo \in Int, NEW hi \in Int, lo <= hi
  PROVE  Min(lo..hi) = lo /\ Max(lo..hi) = hi
<1>1. lo \in lo..hi /\ \A y \in lo..hi : lo <= y
  OBVIOUS
<1>2. hi \in lo..hi /\ \A y \in lo..hi : hi >= y
  OBVIOUS
<1>3. \A x \in lo..hi : (\A y \in lo..hi : x <= y) => x = lo
  BY <1>1
<1>4. \A x \in lo..hi : (\A y \in lo..hi : x >= y) => x = hi
  BY <1>2
<1>5. (CHOOSE x \in lo..hi : \A y \in lo..hi : x <= y) = lo
  BY <1>1, <1>3
<1>6. (CHOOSE x \in lo..hi : \A y \in lo..hi : x >= y) = hi
  BY <1>2, <1>4
<1>7. QED
  BY <1>5, <1>6 DEF Min, Max

LEMMA RunsAreContiguous ==
  ASSUME NEW lo \in Int, NEW hi \in Int
  PROVE  Contiguous(lo..hi)
<1>1. CASE lo <= hi
  <2>1. lo..hi = Min(lo..hi)..Max(lo..hi)
    BY <1>1, EndsOfRun
  <2>2. QED
    BY <2>1 DEF Contiguous
<1>2. CASE ~(lo <= hi)
  <2>1. lo..hi = {}
    BY <1>2
  <2>2. QED
    BY <2>1 DEF Contiguous
<1>3. QED
  BY <1>1, <1>2

(* The greater and the lesser of two. *)
LEMMA OfTwo ==
  ASSUME NEW x \in Int, NEW y \in Int
  PROVE  /\ Max({x, y}) = IF x >= y THEN x ELSE y
         /\ Min({x, y}) = IF x <= y THEN x ELSE y
<1> DEFINE m == IF x >= y THEN x ELSE y
           n == IF x <= y THEN x ELSE y
<1>1. m \in {x, y} /\ (\A u \in {x, y} : m >= u) /\ (\A v \in {x, y} : (\A u \in {x, y} : v >= u) => v = m)
  OBVIOUS
<1>2. n \in {x, y} /\ (\A u \in {x, y} : n <= u) /\ (\A v \in {x, y} : (\A u \in {x, y} : v <= u) => v = n)
  OBVIOUS
<1> HIDE DEF m, n
<1>3. (CHOOSE v \in {x, y} : \A u \in {x, y} : v >= u) = m
  BY <1>1
<1>4. (CHOOSE v \in {x, y} : \A u \in {x, y} : v <= u) = n
  BY <1>2
<1>5. QED
  BY <1>3, <1>4 DEF Max, Min, m, n

(* What an intersection or a union is made of. *)
LEMMA InclusivePoints ==
  ASSUME NEW ty, IsType(ty), NEW a \in Interval(ty), NEW lo \in ty.min..ty.max,
         NEW hi \in lo..ty.max
  PROVE  /\ Inclusive(a, lo, hi) \in Interval(ty) /\ Inclusive(a, lo, hi) # NoInterval
         /\ Inclusive(a, lo, hi) # Hangs
         /\ Points(ty, Inclusive(a, lo, hi)) = lo..hi
<1> DEFINE i == Inclusive(a, lo, hi)
<1>1. /\ lo \in Int /\ hi \in Int /\ ty.min \in Int /\ ty.max \in Int /\ hi \in ty.min..ty.max
      /\ lo <= hi /\ a.initium \in Int /\ a.finis \in Int
  BY IntervalType DEF IsType
<1>2. i = [initium |-> i.initium, finis |-> i.finis, inclusive |-> TRUE]
  BY DEF Inclusive
<1>3. \/ (i.initium = lo /\ i.finis = hi)
      \/ (i.initium = hi /\ i.finis = lo)
  BY <1>1 DEF Inclusive
<1>4. i.inclusive = TRUE
  BY DEF Inclusive
<1> HIDE DEF i
<1>5. i \in Interval(ty)
  <2>1. i.initium \in ty.min..ty.max /\ i.finis \in ty.min..ty.max
    BY <1>1, <1>3
  <2>2. QED
    <3>1. ASSUME NEW p \in ty.min..ty.max, NEW q \in ty.min..ty.max
          PROVE  [initium |-> p, finis |-> q, inclusive |-> TRUE] \in Interval(ty)
      BY DEF Interval
    <3>2. QED
      BY <1>2, <2>1, <3>1
<1>6. Lowest(i) = lo /\ Highest(i) = hi
  BY <1>1, <1>3, <1>4 DEF Lowest, Highest, Ascending
<1>7. Points(ty, i) = lo..hi
  BY <1>5, <1>6, PointsAre
<1>8. i # NoInterval /\ i # Hangs
  BY <1>2 DEF NoInterval, Hangs
<1>9. QED
  BY <1>5, <1>7, <1>8 DEF i

(* inter.  The overlap is what both contain. *)
LEMMA InterIs ==
  ASSUME NEW ty, IsType(ty), NEW a \in Interval(ty), NEW b \in Interval(ty)
  PROVE  LET lo == IF Lowest(a) >= Lowest(b) THEN Lowest(a) ELSE Lowest(b)
             hi == IF Highest(a) <= Highest(b) THEN Highest(a) ELSE Highest(b)
         IN  /\ Points(ty, a) \cap Points(ty, b) = lo..hi
             /\ inter(a, b) = IF lo <= hi THEN Inclusive(a, lo, hi) ELSE NoInterval
             /\ lo \in ty.min..ty.max /\ hi \in (ty.min - 1)..ty.max
<1> DEFINE la == Lowest(a)
           ha == Highest(a)
           lb == Lowest(b)
           hb == Highest(b)
           lo == IF la >= lb THEN la ELSE lb
           hi == IF ha <= hb THEN ha ELSE hb
           wlo == Max({Lo(a), Lo(b)})
           whi == Min({Hi(a), Hi(b)})
           both == {x \in wlo..whi : continet(a, x) /\ continet(b, x)}
<1>1. /\ ty.min \in Int /\ ty.max \in Int
      /\ la \in ty.min..ty.max /\ ha \in (ty.min - 1)..ty.max
      /\ lb \in ty.min..ty.max /\ hb \in (ty.min - 1)..ty.max
      /\ Lo(a) \in Int /\ Hi(a) \in Int /\ Lo(b) \in Int /\ Hi(b) \in Int
      /\ Lo(a) <= la /\ ha <= Hi(a) /\ Lo(b) <= lb /\ hb <= Hi(b)
  BY Ends DEF IsType
<1>2. /\ \A x \in Int : continet(a, x) <=> la <= x /\ x <= ha
      /\ \A x \in Int : continet(b, x) <=> lb <= x /\ x <= hb
  BY Ends
<1>3. /\ wlo = (IF Lo(a) >= Lo(b) THEN Lo(a) ELSE Lo(b))
      /\ whi = (IF Hi(a) <= Hi(b) THEN Hi(a) ELSE Hi(b))
  BY <1>1, OfTwo
<1>4. inter(a, b) = IF both = {} THEN NoInterval ELSE Inclusive(a, Min(both), Max(both))
  BY DEF inter
<1>5. Points(ty, a) = la..ha /\ Points(ty, b) = lb..hb
  BY PointsAre
<1> HIDE DEF la, ha, lb, hb, wlo, whi
<1>6. both = lo..hi
  BY <1>1, <1>2, <1>3
<1>7. lo \in ty.min..ty.max /\ hi \in (ty.min - 1)..ty.max /\ lo \in Int /\ hi \in Int
  BY <1>1
<1>8. (la..ha) \cap (lb..hb) = lo..hi
  BY <1>1
<1> HIDE DEF both, lo, hi
<1>9. CASE lo <= hi
  <2>1. Min(lo..hi) = lo /\ Max(lo..hi) = hi
    BY ONLY <1>7, <1>9, EndsOfRun
  <2>2. lo \in lo..hi
    BY <1>7, <1>9
  <2>3. both # {} /\ Min(both) = lo /\ Max(both) = hi
    BY ONLY <1>6, <2>1, <2>2
  <2>4. QED
    BY <1>4, <1>5, <1>7, <1>8, <1>9, <2>3 DEF lo, hi, la, ha, lb, hb
<1>10. CASE ~(lo <= hi)
  <2>1. both = {}
    BY <1>6, <1>7, <1>10
  <2>2. QED
    BY <1>4, <1>5, <1>7, <1>8, <1>10, <2>1 DEF lo, hi, la, ha, lb, hb
<1>11. QED
  BY <1>9, <1>10

LEMMA MinMaxAre ==
  ASSUME NEW S, S \subseteq Int, NEW m \in S, NEW n \in S, \A y \in S : m <= y /\ y <= n
  PROVE  Min(S) = m /\ Max(S) = n
<1>1. \A x \in S : (\A y \in S : x <= y) => x = m
  OBVIOUS
<1>2. \A x \in S : (\A y \in S : x >= y) => x = n
  OBVIOUS
<1>3. (CHOOSE x \in S : \A y \in S : x <= y) = m
  BY <1>1
<1>4. (CHOOSE x \in S : \A y \in S : x >= y) = n
  BY <1>2
<1>5. QED
  BY <1>3, <1>4 DEF Min, Max

(* touches, of two intervals that have points but none in common.          *)
LEMMA ActualEnds ==
  ASSUME NEW ty, IsType(ty), NEW i \in Interval(ty), Lowest(i) <= Highest(i)
  PROVE  /\ ActualHi(ty, i) = Highest(i) /\ ActualLo(ty, i) = Lowest(i)
         /\ continet(i, i.initium)
         /\ i.initium = Lowest(i) \/ i.initium = Highest(i)
         /\ continet(i, i.finis) <=> i.inclusive
         /\ i.initium = Lowest(i) => i.finis = Highest(i) \/ i.finis = Highest(i) + 1 \/ i.finis = Lowest(i) - 1
         /\ i.initium = Highest(i) => i.finis = Lowest(i) \/ i.finis = Lowest(i) - 1 \/ i.finis = Highest(i) + 1
<1> DEFINE p == i.initium
           q == i.finis
           e == i.inclusive
<1>1. /\ p \in Int /\ q \in Int /\ e \in BOOLEAN /\ ty.min \in Int /\ ty.max \in Int
      /\ ty.min <= p /\ p <= ty.max /\ ty.min <= q /\ q <= ty.max
  BY IntervalType DEF IsType
<1> USE DEF Lowest, Highest, Lo, Hi, continet, Ascending, ActualHi, ActualLo,
            saturating_add, saturating_sub
<1>2. CASE p <= q /\ e
  BY <1>1, <1>2
<1>3. CASE p <= q /\ ~e
  BY <1>1, <1>3
<1>4. CASE ~(p <= q) /\ e
  BY <1>1, <1>4
<1>5. CASE ~(p <= q) /\ ~e
  BY <1>1, <1>5
<1>6. QED
  BY <1>1, <1>2, <1>3, <1>4, <1>5

LEMMA TouchesIs ==
  ASSUME NEW ty, IsType(ty), NEW a \in Interval(ty), NEW b \in Interval(ty),
         Lowest(a) <= Highest(a), Lowest(b) <= Highest(b),
         Highest(a) < Lowest(b) \/ Highest(b) < Lowest(a)
  PROVE  touches(ty, a, b) <=> Highest(a) + 1 = Lowest(b) \/ Highest(b) + 1 = Lowest(a)
<1> DEFINE la == Lowest(a)
           ha == Highest(a)
           lb == Lowest(b)
           hb == Highest(b)
<1>1. /\ la \in Int /\ ha \in Int /\ lb \in Int /\ hb \in Int /\ ty.max \in Int /\ ty.min \in Int
      /\ la <= ty.max /\ ha <= ty.max /\ lb <= ty.max /\ hb <= ty.max
      /\ \A x \in Int : continet(a, x) <=> la <= x /\ x <= ha
      /\ \A x \in Int : continet(b, x) <=> lb <= x /\ x <= hb
  BY Ends DEF IsType
<1>2. /\ ActualHi(ty, a) = ha /\ ActualLo(ty, a) = la
      /\ ActualHi(ty, b) = hb /\ ActualLo(ty, b) = lb
  BY ActualEnds
<1>3. saturating_add(ty, ha) = lb <=> ha + 1 = lb
  BY <1>1 DEF saturating_add
<1>4. saturating_add(ty, hb) = la <=> hb + 1 = la
  BY <1>1 DEF saturating_add
<1>5. /\ a.initium \in Int /\ a.finis \in Int /\ b.initium \in Int /\ b.finis \in Int
  BY IntervalType
<1>6. /\ la <= a.initium /\ a.initium <= ha /\ lb <= b.initium /\ b.initium <= hb
      /\ la - 1 <= a.finis /\ a.finis <= ha + 1 /\ lb - 1 <= b.finis /\ b.finis <= hb + 1
  <2>1. /\ continet(a, a.initium) /\ continet(b, b.initium)
    BY ActualEnds
  <2>2. /\ la <= a.initium /\ a.initium <= ha /\ lb <= b.initium /\ b.initium <= hb
    BY <1>1, <1>5, <2>1
  <2>3. /\ a.initium = la \/ a.initium = ha
        /\ a.initium = la => a.finis = ha \/ a.finis = ha + 1 \/ a.finis = la - 1
        /\ a.initium = ha => a.finis = la \/ a.finis = la - 1 \/ a.finis = ha + 1
    BY ActualEnds
  <2>4. /\ b.initium = lb \/ b.initium = hb
        /\ b.initium = lb => b.finis = hb \/ b.finis = hb + 1 \/ b.finis = lb - 1
        /\ b.initium = hb => b.finis = lb \/ b.finis = lb - 1 \/ b.finis = hb + 1
    BY ActualEnds
  <2> HIDE DEF la, ha, lb, hb
  <2>5. QED
    BY <1>1, <1>5, <2>2, <2>3, <2>4
<1> HIDE DEF la, ha, lb, hb
<1>7. a.finis = b.initium => ha + 1 = lb \/ hb + 1 = la
  BY <1>1, <1>5, <1>6 DEF la, ha, lb, hb
<1>8. b.finis = a.initium => ha + 1 = lb \/ hb + 1 = la
  BY <1>1, <1>5, <1>6 DEF la, ha, lb, hb
<1>9. touches(ty, a, b) <=> ha + 1 = lb \/ hb + 1 = la
  BY <1>2, <1>3, <1>4, <1>7, <1>8 DEF touches
<1>10. QED
  BY <1>9 DEF la, ha, lb, hb

(* union.  Two runs of integers that overlap or touch make one. *)
LEMMA UnionIs ==
  ASSUME NEW ty, IsType(ty), NEW a \in Interval(ty), NEW b \in Interval(ty),
         Lowest(a) <= Highest(a) \/ Lowest(b) <= Highest(b)
  PROVE  LET S == Points(ty, a) \cup Points(ty, b)
             u == union(ty, a, b)
         IN  /\ u # Hangs
             /\ u # NoInterval => u \in Interval(ty) /\ Points(ty, u) = S
             /\ Lowest(a) <= Highest(a) /\ Lowest(b) <= Highest(b) =>
                  (u = NoInterval <=> ~Contiguous(S))
<1> DEFINE la == Lowest(a)
           ha == Highest(a)
           lb == Lowest(b)
           hb == Highest(b)
           S == Points(ty, a) \cup Points(ty, b)
           u == union(ty, a, b)
           either == {x \in ty.min..ty.max : continet(a, x) \/ continet(b, x)}
           apart == ha < lb \/ hb < la
           lo == IF la > ha THEN lb ELSE IF lb > hb THEN la ELSE IF la <= lb THEN la ELSE lb
           hi == IF la > ha THEN hb ELSE IF lb > hb THEN ha ELSE IF ha >= hb THEN ha ELSE hb
<1>1. /\ ty.min \in Int /\ ty.max \in Int
      /\ la \in ty.min..ty.max /\ ha \in (ty.min - 1)..ty.max
      /\ lb \in ty.min..ty.max /\ hb \in (ty.min - 1)..ty.max
      /\ la <= ha \/ lb <= hb
  BY Ends DEF IsType
<1>2. S = (la..ha) \cup (lb..hb)
  BY PointsAre
<1>3. either = S
  BY DEF Points
<1>4. lo \in ty.min..ty.max /\ hi \in lo..ty.max
  <2> HIDE DEF la, ha, lb, hb
  <2>1. QED
    BY <1>1
<1>5. inter(a, b) = NoInterval <=> apart \/ la > ha \/ lb > hb
  <2> DEFINE l == IF la >= lb THEN la ELSE lb
             h == IF ha <= hb THEN ha ELSE hb
  <2>1. /\ inter(a, b) = IF l <= h THEN Inclusive(a, l, h) ELSE NoInterval
        /\ l \in ty.min..ty.max /\ h \in (ty.min - 1)..ty.max
    BY InterIs
  <2>2. l <= h => Inclusive(a, l, h) # NoInterval
    <3> HIDE DEF l, h
    <3>1. ASSUME l <= h PROVE h \in l..ty.max
      BY <1>1, <2>1, <3>1
    <3>2. QED
      BY <2>1, <3>1, InclusivePoints
  <2>3. l <= h <=> ~(apart \/ la > ha \/ lb > hb)
    <3> HIDE DEF la, ha, lb, hb
    <3>1. QED
      BY <1>1
  <2> HIDE DEF l, h
  <2>4. QED
    BY <2>1, <2>2, <2>3
<1>6. la <= ha /\ lb <= hb /\ apart =>
        (touches(ty, a, b) <=> ha + 1 = lb \/ hb + 1 = la)
  BY TouchesIs
<1>7. u = IF inter(a, b) = NoInterval /\ ~touches(ty, a, b) THEN NoInterval
          ELSE IF either = {} THEN Hangs
          ELSE Inclusive(a, Min(either), Max(either))
  BY DEF union
<1> HIDE DEF la, ha, lb, hb, S, u, either
<1>8. S \subseteq Int /\ lo \in S /\ hi \in S /\ (\A y \in S : lo <= y /\ y <= hi)
  BY <1>1, <1>2
<1>9. S # {} /\ Min(S) = lo /\ Max(S) = hi
  <2> HIDE DEF lo, hi
  <2>1. QED
    BY <1>8, MinMaxAre
<1>10. /\ Inclusive(a, lo, hi) \in Interval(ty) /\ Inclusive(a, lo, hi) # NoInterval
       /\ Inclusive(a, lo, hi) # Hangs /\ Points(ty, Inclusive(a, lo, hi)) = lo..hi
  <2> HIDE DEF lo, hi
  <2>1. QED
    BY <1>4, InclusivePoints
<1>11. Contiguous(S) <=> S = lo..hi
  BY <1>9 DEF Contiguous
<1>12. S = lo..hi <=> ~(la <= ha /\ lb <= hb /\ (ha + 1 < lb \/ hb + 1 < la))
  <2>1. CASE la <= ha /\ lb <= hb /\ ha + 1 < lb
    <3>1. ha + 1 \in lo..hi /\ ha + 1 \notin S
      BY <1>1, <1>2, <2>1
    <3>2. QED
      BY <2>1, <3>1
  <2>2. CASE la <= ha /\ lb <= hb /\ hb + 1 < la
    <3>1. hb + 1 \in lo..hi /\ hb + 1 \notin S
      BY <1>1, <1>2, <2>2
    <3>2. QED
      BY <2>2, <3>1
  <2>3. CASE ~(la <= ha /\ lb <= hb /\ (ha + 1 < lb \/ hb + 1 < la))
    BY <1>1, <1>2, <2>3
  <2>4. QED
    BY <2>1, <2>2, <2>3
<1>13. NoInterval # Hangs
  BY DEF NoInterval, Hangs
<1>14. u = NoInterval \/ u = Inclusive(a, lo, hi)
  BY <1>3, <1>7, <1>9
<1>15. u # NoInterval => S = lo..hi
  <2>1. ASSUME u # NoInterval PROVE inter(a, b) # NoInterval \/ touches(ty, a, b)
    BY <1>7, <2>1
  <2> HIDE DEF lo, hi
  <2>2. QED
    BY <1>1, <1>5, <1>6, <1>12, <2>1
<1>16. la <= ha /\ lb <= hb => (u = NoInterval <=> ~Contiguous(S))
  <2>1. ASSUME la <= ha, lb <= hb
        PROVE  u = NoInterval <=> apart /\ ~(ha + 1 = lb \/ hb + 1 = la)
    BY <1>3, <1>5, <1>6, <1>7, <1>9, <1>10, <2>1, <1>1
  <2> HIDE DEF lo, hi
  <2>2. QED
    BY <1>1, <1>11, <1>12, <2>1
<1>17. QED
  BY <1>10, <1>13, <1>14, <1>15, <1>16 DEF la, ha, lb, hb, S, u

(* coercere.  The nearest point. *)
LEMMA NearestPoint ==
  ASSUME NEW ty, IsType(ty), NEW i \in Interval(ty), Lowest(i) <= Highest(i),
         NEW x \in ty.min..ty.max
  PROVE  LET y == coercere(ty, i, x)
         IN  /\ y \in Lowest(i)..Highest(i) /\ y \in ty.min..ty.max
             /\ \A z \in Lowest(i)..Highest(i) : Distance(x, y) <= Distance(x, z)
<1> DEFINE l == Lowest(i)
           h == Highest(i)
           y == coercere(ty, i, x)
           lo == IF ~i.inclusive /\ ~Ascending(i) THEN saturating_add(ty, Lo(i)) ELSE Lo(i)
           hi == IF ~i.inclusive /\ Ascending(i) THEN saturating_sub(ty, Hi(i)) ELSE Hi(i)
<1>1. /\ ty.min \in Int /\ ty.max \in Int /\ x \in Int /\ l \in ty.min..ty.max
      /\ h \in (ty.min - 1)..ty.max /\ l <= h /\ ty.min <= x /\ x <= ty.max
      /\ continet(i, x) <=> l <= x /\ x <= h
  BY Ends DEF IsType
<1>2. lo = l /\ hi = h
  <2>1. /\ i.initium \in Int /\ i.finis \in Int /\ i.inclusive \in BOOLEAN
        /\ ty.min <= i.initium /\ i.initium <= ty.max /\ ty.min <= i.finis /\ i.finis <= ty.max
    BY IntervalType
  <2> USE DEF Lowest, Highest, Lo, Hi, Ascending, saturating_add, saturating_sub
  <2>2. CASE i.initium <= i.finis
    BY <1>1, <2>1, <2>2
  <2>3. CASE ~(i.initium <= i.finis)
    BY <1>1, <2>1, <2>3
  <2>4. QED
    BY <2>2, <2>3
<1>3. y = IF continet(i, x) THEN x ELSE IF x < lo THEN lo ELSE IF x > hi THEN hi ELSE x
  BY DEF coercere
<1> HIDE DEF l, h, y, lo, hi
<1>4. y = IF l <= x /\ x <= h THEN x ELSE IF x < l THEN l ELSE h
  BY <1>1, <1>2, <1>3
<1>5. y \in l..h /\ y \in ty.min..ty.max
  BY <1>1, <1>4
<1>6. \A z \in l..h : Distance(x, y) <= Distance(x, z)
  BY <1>1, <1>4 DEF Distance
<1>7. QED
  BY <1>5, <1>6 DEF l, h, y

(* longitudo.  The number of points, if it is one of an i64. *)
LEMMA LengthIs ==
  ASSUME NEW ty, IsType(ty), NEW i \in Interval(ty), Hi(i) - Lo(i) <= ty.max,
         Cardinality(Lowest(i)..Highest(i)) <= MaxI64
  PROVE  longitudo(ty, i) = Cardinality(Lowest(i)..Highest(i))
<1> DEFINE l == Lowest(i)
           h == Highest(i)
<1>1. /\ i.initium \in Int /\ i.finis \in Int /\ i.inclusive \in BOOLEAN /\ ty.max \in Int
  BY IntervalType DEF IsType
<1>2. l \in Int /\ h \in Int /\ h >= l - 1
  BY Ends DEF IsType
<1>3. Cardinality(l..h) = h - l + 1
  <2> HIDE DEF l, h
  <2>1. Cardinality(l..h) = IF l > h THEN 0 ELSE h - l + 1
    BY <1>2, FS_Interval
  <2>2. QED
    BY <1>2, <2>1
<1>4. longitudo(ty, i) = h - l + 1
  <2> DEFINE span == Hi(i) - Lo(i)
  <2>1. h - l + 1 = span + (IF i.inclusive THEN 1 ELSE 0) /\ span \in Nat
    <3> USE DEF Lowest, Highest, Lo, Hi, Ascending
    <3>1. CASE i.initium <= i.finis
      BY <1>1, <3>1
    <3>2. CASE ~(i.initium <= i.finis)
      BY <1>1, <3>2
    <3>3. QED
      BY <3>1, <3>2
  <2>2. h - l + 1 <= MaxI64 /\ MaxI64 \in Nat
    BY <1>3, TypesAssumption
  <2>3. longitudo(ty, i) = IF i.inclusive /\ to_i64(span) < MaxI64 THEN to_i64(span) + 1 ELSE to_i64(span)
    BY <1>1, <2>1 DEF longitudo
  <2> HIDE DEF span, l, h
  <2>4. span <= MaxI64 /\ (i.inclusive => span < MaxI64)
    BY <1>1, <1>2, <2>1, <2>2
  <2>5. to_i64(span) = span
    BY <2>1, <2>2, <2>4 DEF to_i64
  <2>6. QED
    BY <1>1, <2>1, <2>3, <2>4, <2>5
<1>5. QED
  BY <1>3, <1>4

(* interval_clamp.  Both of its ends are points of the target. *)
LEMMA ClampedInside ==
  ASSUME NEW ty, IsType(ty), NEW a \in Interval(ty), NEW b \in Interval(ty),
         Lowest(b) <= Highest(b)
  PROVE  Points(ty, coercere_intervallum(ty, a, b)) \subseteq Points(ty, b)
<1> DEFINE i == coercere_intervallum(ty, a, b)
           l == Lowest(b)
           h == Highest(b)
<1>1. a.initium \in ty.min..ty.max /\ a.finis \in ty.min..ty.max /\ b.inclusive \in BOOLEAN
  BY DEF Interval
<1>2. /\ coercere(ty, b, a.initium) \in l..h /\ coercere(ty, b, a.initium) \in ty.min..ty.max
      /\ coercere(ty, b, a.finis) \in l..h /\ coercere(ty, b, a.finis) \in ty.min..ty.max
  BY <1>1, NearestPoint
<1>3. /\ i.initium = coercere(ty, b, a.initium) /\ i.finis = coercere(ty, b, a.finis)
      /\ i = [initium |-> i.initium, finis |-> i.finis, inclusive |-> b.inclusive]
      /\ i.inclusive = b.inclusive
  BY DEF coercere_intervallum
<1> HIDE DEF i
<1>4. i \in Interval(ty)
  <2>1. ASSUME NEW p \in ty.min..ty.max, NEW q \in ty.min..ty.max, NEW e \in BOOLEAN
        PROVE  [initium |-> p, finis |-> q, inclusive |-> e] \in Interval(ty)
    BY DEF Interval
  <2>2. QED
    BY <1>1, <1>2, <1>3, <2>1
<1>5. Points(ty, i) = Lowest(i)..Highest(i) /\ Points(ty, b) = l..h
  BY <1>4, PointsAre
<1>6. l \in Int /\ h \in Int
  BY Ends DEF IsType
<1>7. i.initium \in l..h /\ i.finis \in l..h
  BY <1>2, <1>3
<1> HIDE DEF l, h
<1>8. Lowest(i)..Highest(i) \subseteq l..h
  BY <1>6, <1>7 DEF Lowest, Highest, Ascending
<1>9. QED
  BY <1>5, <1>8 DEF i

(* The handles. *)
LEMMA AnswersAre ==
  ASSUME NEW v
  PROVE  /\ Answer({"a", "b"}, v)[1] = v /\ Answer({"a"}, v)[1] = v /\ Answer({"a"}, v) = <<v>>
         /\ Answer({"a", "c"}, v) = <<>> /\ Answer({"c"}, v) = <<>>
<1>1. "c" \notin Handles /\ {"a", "b"} \subseteq Handles /\ {"a"} \subseteq Handles
  BY DEF Handles
<1>2. QED
  BY <1>1 DEF Answer

LEMMA CallsAre ==
  /\ interval_intersect("a", "b")[1] = store_optional_interval(inter(pair.a, pair.b))
  /\ interval_union("a", "b")[1] = store_optional_interval(union(pair.ty, pair.a, pair.b))
  /\ \A x : interval_clamp_i64(x, "a")[1] = coercere(pair.ty, pair.a, x)
  /\ interval_clamp("a", "b")[1] = coercere_intervallum(pair.ty, pair.a, pair.b)
  /\ interval_length("a") = <<longitudo(pair.ty, pair.a)>>
  /\ interval_intersect("a", "c") = <<>> /\ interval_length("c") = <<>>
  /\ \A x : interval_contains("a", x)[1] = continet(pair.a, x)
  /\ interval_materialize_array("a")[1] = ad_lista(pair.ty, pair.a)
  /\ interval_materialize_tensor("a")[1] =
       [shape |-> <<Len(ad_lista(pair.ty, pair.a))>>, data |-> ad_lista(pair.ty, pair.a)]
<1>1. find_interval("a") = pair.a /\ find_interval("b") = pair.b
  BY DEF find_interval
<1>2. interval_intersect("a", "b")[1] = store_optional_interval(inter(pair.a, pair.b))
  BY <1>1, AnswersAre DEF interval_intersect
<1>3. interval_union("a", "b")[1] = store_optional_interval(union(pair.ty, pair.a, pair.b))
  BY <1>1, AnswersAre DEF interval_union
<1>4. \A x : interval_clamp_i64(x, "a")[1] = coercere(pair.ty, pair.a, x)
  BY <1>1, AnswersAre DEF interval_clamp_i64
<1>5. interval_clamp("a", "b")[1] = coercere_intervallum(pair.ty, pair.a, pair.b)
  BY <1>1, AnswersAre DEF interval_clamp
<1>6. interval_length("a") = <<longitudo(pair.ty, pair.a)>>
  BY <1>1, AnswersAre DEF interval_length
<1>7. interval_intersect("a", "c") = <<>> /\ interval_length("c") = <<>>
  BY AnswersAre DEF interval_intersect, interval_length
<1>8. \A x : interval_contains("a", x)[1] = continet(pair.a, x)
  BY <1>1, AnswersAre DEF interval_contains
<1>9. interval_materialize_array("a")[1] = ad_lista(pair.ty, pair.a)
  BY <1>1, AnswersAre DEF interval_materialize_array
<1>10. interval_materialize_tensor("a")[1] =
         [shape |-> <<Len(ad_lista(pair.ty, pair.a))>>, data |-> ad_lista(pair.ty, pair.a)]
  BY <1>1, AnswersAre DEF interval_materialize_tensor
<1>11. QED
  BY <1>2, <1>3, <1>4, <1>5, <1>6, <1>7, <1>8, <1>9, <1>10

LEMMA OptionsAre ==
  ASSUME NEW v
  PROVE  /\ v # NoInterval => store_optional_interval(v) = <<v>> /\ store_optional_interval(v)[1] = v
         /\ store_optional_interval(v) = <<>> <=> v = NoInterval
<1>1. <<v>> # <<>>
  OBVIOUS
<1>2. QED
  BY <1>1 DEF store_optional_interval

PairIsTyped == IsType(pair.ty) /\ pair.a \in Interval(pair.ty) /\ pair.b \in Interval(pair.ty)

LEMMA AlgebraIsOfPoints == PairIsTyped => IntervalsArePointSets
<1> DEFINE ty == pair.ty
           a == pair.a
           b == pair.b
           A == Points(ty, a)
           B == Points(ty, b)
           i == interval_intersect("a", "b")[1]
           u == interval_union("a", "b")[1]
           v == inter(a, b)
           w == union(ty, a, b)
           lo == IF Lowest(a) >= Lowest(b) THEN Lowest(a) ELSE Lowest(b)
           hi == IF Highest(a) <= Highest(b) THEN Highest(a) ELSE Highest(b)
<1>1. SUFFICES ASSUME PairIsTyped PROVE IntervalsArePointSets
  OBVIOUS
<1>2. IsType(ty) /\ a \in Interval(ty) /\ b \in Interval(ty)
  BY <1>1 DEF PairIsTyped
<1>3. i = store_optional_interval(v) /\ u = store_optional_interval(w)
  BY CallsAre
<1>4. /\ A \cap B = lo..hi
      /\ v = IF lo <= hi THEN Inclusive(a, lo, hi) ELSE NoInterval
      /\ lo \in ty.min..ty.max /\ hi \in (ty.min - 1)..ty.max
  BY <1>2, InterIs
<1>5. ty.min \in Int /\ ty.max \in Int
  BY <1>2 DEF IsType
<1>6. /\ A = Lowest(a)..Highest(a) /\ B = Lowest(b)..Highest(b)
      /\ Lowest(a) \in Int /\ Highest(a) \in Int /\ Lowest(b) \in Int /\ Highest(b) \in Int
  BY <1>2, PointsAre, Ends DEF IsType
<1>7. (A # {} <=> Lowest(a) <= Highest(a)) /\ (B # {} <=> Lowest(b) <= Highest(b))
  BY <1>6
<1>8. /\ i = <<>> <=> A \cap B = {}
      /\ i # <<>> => Points(ty, i[1]) = A \cap B
  <2> HIDE DEF lo, hi, i, v, ty, a, A, B
  <2>1. lo \in Int /\ hi \in Int
    BY <1>4, <1>5
  <2>2. CASE lo <= hi
    <3>1. hi \in lo..ty.max
      BY <1>4, <1>5, <2>1, <2>2
    <3>2. Inclusive(a, lo, hi) # NoInterval /\ Points(ty, Inclusive(a, lo, hi)) = lo..hi
      BY <1>2, <1>4, <3>1, InclusivePoints
    <3>3. lo \in lo..hi
      BY <2>1, <2>2
    <3>4. i # <<>> /\ i[1] = Inclusive(a, lo, hi)
      BY <1>3, <1>4, <2>2, <3>2, OptionsAre
    <3>5. QED
      BY <1>4, <3>2, <3>3, <3>4
  <2>3. CASE ~(lo <= hi)
    <3>1. lo..hi = {}
      BY <2>1, <2>3
    <3>2. i = <<>>
      BY <1>3, <1>4, <2>3, OptionsAre
    <3>3. QED
      BY <1>4, <3>1, <3>2
  <2>4. QED
    BY <2>2, <2>3
<1>9. /\ A # {} /\ B # {} => (u = <<>> <=> ~Contiguous(A \cup B))
      /\ A \cup B # {} => u # <<Hangs>> /\ (u # <<>> => Points(ty, u[1]) = A \cup B)
  <2>1. ASSUME A \cup B # {}
        PROVE  /\ w # Hangs /\ (w # NoInterval => Points(ty, w) = A \cup B)
               /\ A # {} /\ B # {} => (w = NoInterval <=> ~Contiguous(A \cup B))
    <3>1. Lowest(a) <= Highest(a) \/ Lowest(b) <= Highest(b)
      BY <1>7, <2>1
    <3>2. QED
      BY <1>2, <1>7, <3>1, UnionIs
  <2>2. u = <<>> <=> w = NoInterval
    BY <1>3, OptionsAre
  <2>3. u # <<>> => u = <<w>> /\ u[1] = w
    BY <1>3, OptionsAre
  <2>4. <<>> # <<Hangs>> /\ (<<w>> = <<Hangs>> => w = Hangs)
    OBVIOUS
  <2> HIDE DEF u, w, A, B
  <2>5. QED
    BY <2>1, <2>2, <2>3, <2>4
<1>10. A # {} => \A x \in ty.min..ty.max :
         LET y == interval_clamp_i64(x, "a")[1]
         IN  y \in A /\ \A z \in A : Distance(x, y) <= Distance(x, z)
  BY <1>2, <1>6, <1>7, CallsAre, NearestPoint
<1>11. B # {} => Points(ty, interval_clamp("a", "b")[1]) \subseteq B
  BY <1>2, <1>7, CallsAre, ClampedInside
<1>12. Hi(a) - Lo(a) <= ty.max /\ Cardinality(A) <= MaxI64 =>
         interval_length("a") = <<Cardinality(A)>>
  BY <1>2, <1>6, CallsAre, LengthIs
<1>13. interval_intersect("a", "c") = <<>> /\ interval_length("c") = <<>>
  BY CallsAre
<1>14. QED
  BY <1>8, <1>9, <1>10, <1>11, <1>12, <1>13 DEF IntervalsArePointSets

(* ad_lista.  The run of n integers from c on, up or down. *)
Run(up, c, n) == [j \in 1..n |-> IF up THEN c + (j - 1) ELSE c - (j - 1)]
After(up, c, n) == IF up THEN c + n ELSE c - n

LEMMA RunFacts ==
  ASSUME NEW up \in BOOLEAN, NEW c \in Int, NEW n \in Nat
  PROVE  /\ Run(up, c, n) \in Seq(Int) /\ Len(Run(up, c, n)) = n
         /\ \A j \in 1..n : Run(up, c, n)[j] = After(up, c, j - 1)
         /\ Run(up, c, 0) = <<>> /\ Run(up, c, 1) = <<c>>
<1>1. Run(up, c, n) = [j \in 1..n |-> Run(up, c, n)[j]]
  BY DEF Run
<1>2. Run(up, c, n) \in Seq({Run(up, c, n)[j] : j \in 1..n}) /\ Len(Run(up, c, n)) = n
  BY <1>1, ListOf
<1>3. \A j \in 1..n : Run(up, c, n)[j] = After(up, c, j - 1) /\ Run(up, c, n)[j] \in Int
  BY DEF Run, After
<1>4. Run(up, c, n) \in Seq(Int)
  BY <1>2, <1>3
<1>5. Run(up, c, 0) = <<>> /\ Run(up, c, 1) = <<c>>
  <2>1. 1..0 = {} /\ 1..1 = {1}
    OBVIOUS
  <2>2. (IF up THEN c + (1 - 1) ELSE c - (1 - 1)) = c
    OBVIOUS
  <2>3. Run(up, c, 1) = [j \in {1} |-> c]
    BY <2>1, <2>2 DEF Run
  <2>4. <<c>> = [j \in {1} |-> c]
    OBVIOUS
  <2>5. Run(up, c, 0) = <<>>
    BY <2>1 DEF Run
  <2>6. QED
    BY <2>3, <2>4, <2>5
<1>6. QED
  BY <1>2, <1>3, <1>4, <1>5

LEMMA SameList ==
  ASSUME NEW S, NEW s \in Seq(S), NEW t \in Seq(S), Len(s) = Len(t),
         \A j \in 1..Len(s) : s[j] = t[j]
  PROVE  s = t
OBVIOUS

LEMMA RunBegins ==
  ASSUME NEW up \in BOOLEAN, NEW c \in Int, NEW n \in Nat
  PROVE  <<c>> \o Run(up, After(up, c, 1), n) = Run(up, c, n + 1)
<1> DEFINE d == After(up, c, 1)
           s == <<c>>
           t == Run(up, d, n)
           r == Run(up, c, n + 1)
<1>1. d \in Int /\ n + 1 \in Nat
  BY DEF After
<1>2. t \in Seq(Int) /\ Len(t) = n /\ \A j \in 1..n : t[j] = After(up, d, j - 1)
  BY <1>1, RunFacts
<1>3. r \in Seq(Int) /\ Len(r) = n + 1 /\ \A j \in 1..(n + 1) : r[j] = After(up, c, j - 1)
  BY <1>1, RunFacts
<1>4. s \in Seq(Int) /\ Len(s) = 1 /\ s[1] = c
  OBVIOUS
<1>5. \A j \in 1..n : After(up, d, j - 1) = After(up, c, j)
  BY DEF After
<1>6. After(up, c, 0) = c
  BY DEF After
<1> HIDE DEF s, t, r, d
<1>7. /\ s \o t \in Seq(Int) /\ Len(s \o t) = 1 + n /\ (s \o t)[1] = s[1]
      /\ \A i \in 1..n : (s \o t)[1 + i] = t[i]
  <2>1. /\ s \o t \in Seq(Int) /\ Len(s \o t) = Len(s) + Len(t)
        /\ \A i \in 1..Len(s) : (s \o t)[i] = s[i]
        /\ \A i \in 1..Len(t) : (s \o t)[Len(s) + i] = t[i]
    <3> DEFINE Z == Int
    <3>1. s \in Seq(Z) /\ t \in Seq(Z)
      BY <1>2, <1>4
    <3> HIDE DEF Z
    <3>2. s \o t \in Seq(Z)
      BY ONLY <3>1, Concatenated
    <3>3. /\ Len(s \o t) = Len(s) + Len(t)
          /\ \A i \in 1..Len(s) : (s \o t)[i] = s[i]
          /\ \A i \in 1..Len(t) : (s \o t)[Len(s) + i] = t[i]
      BY ONLY <3>1, Concatenated
    <3>4. QED
      BY <3>2, <3>3 DEF Z
  <2>2. 1 \in 1..1
    OBVIOUS
  <2>3. QED
    BY ONLY <1>2, <1>4, <2>1, <2>2
<1>8. ASSUME NEW j \in 1..(n + 1) PROVE (s \o t)[j] = r[j]
  <2>1. CASE j = 1
    BY <1>3, <1>4, <1>6, <1>7, <2>1
  <2>2. CASE j # 1
    <3>1. j - 1 \in 1..n /\ j = 1 + (j - 1)
      BY <2>2
    <3>2. (s \o t)[j] = t[j - 1]
      BY <1>7, <3>1
    <3>3. t[j - 1] = After(up, c, j - 1)
      BY <1>2, <1>5, <3>1
    <3>4. QED
      BY <1>3, <3>2, <3>3
  <2>3. QED
    BY <2>1, <2>2
<1>9. s \o t = r
  <2> DEFINE Z == Int
             w == s \o t
  <2>1. w \in Seq(Z) /\ r \in Seq(Z) /\ Len(w) = Len(r) /\ \A j \in 1..Len(w) : w[j] = r[j]
    <3>1. Len(w) = n + 1
      BY <1>7
    <3>2. \A j \in 1..Len(w) : w[j] = r[j]
      BY ONLY <3>1, <1>8
    <3>3. QED
      BY ONLY <1>3, <1>7, <3>1, <3>2
  <2> HIDE DEF Z, w
  <2>2. w = r
    BY ONLY <2>1, SameList
  <2>3. QED
    BY <2>2 DEF w
<1>10. QED
  BY <1>9 DEF s, t, r, d

LEMMA RunEnds ==
  ASSUME NEW up \in BOOLEAN, NEW c \in Int, NEW n \in Nat
  PROVE  Append(Run(up, c, n), After(up, c, n)) = Run(up, c, n + 1)
<1> DEFINE t == Run(up, c, n)
           r == Run(up, c, n + 1)
           v == After(up, c, n)
<1>1. n + 1 \in Nat /\ v \in Int
  BY DEF After
<1>2. t \in Seq(Int) /\ Len(t) = n /\ \A j \in 1..n : t[j] = After(up, c, j - 1)
  BY RunFacts
<1>3. r \in Seq(Int) /\ Len(r) = n + 1 /\ \A j \in 1..(n + 1) : r[j] = After(up, c, j - 1)
  BY <1>1, RunFacts
<1>4. v = After(up, c, (n + 1) - 1)
  OBVIOUS
<1> HIDE DEF t, r, v
<1>5. Append(t, v) \in Seq(Int) /\ Len(Append(t, v)) = n + 1
      /\ Append(t, v)[n + 1] = v /\ \A j \in 1..n : Append(t, v)[j] = t[j]
  BY <1>1, <1>2
<1>6. ASSUME NEW j \in 1..(n + 1) PROVE Append(t, v)[j] = r[j]
  <2>1. j \in 1..n \/ j = n + 1
    OBVIOUS
  <2>2. QED
    BY <1>2, <1>3, <1>4, <1>5, <2>1
<1>7. Append(t, v) = r
  BY <1>3, <1>5, <1>6, SameList
<1>8. QED
  BY <1>7 DEF t, r, v

LEMMA RunPrefix ==
  ASSUME NEW up \in BOOLEAN, NEW c \in Int, NEW n \in Nat, NEW k \in 0..n
  PROVE  SubSeq(Run(up, c, n), 1, k) = Run(up, c, k)
<1> DEFINE t == Run(up, c, n)
           r == Run(up, c, k)
<1>1. k \in Nat
  OBVIOUS
<1>2. t \in Seq(Int) /\ Len(t) = n /\ \A j \in 1..n : t[j] = After(up, c, j - 1)
  BY RunFacts
<1>3. r \in Seq(Int) /\ Len(r) = k /\ \A j \in 1..k : r[j] = After(up, c, j - 1)
  BY <1>1, RunFacts
<1> HIDE DEF t, r
<1>4. SubSeq(t, 1, k) = [j \in 1..k |-> t[j]]
  BY <1>1, <1>2
<1>5. r = [j \in 1..k |-> r[j]]
  BY <1>3
<1>6. \A j \in 1..k : t[j] = r[j]
  BY <1>2, <1>3
<1>7. SubSeq(t, 1, k) = r
  BY <1>4, <1>5, <1>6
<1>8. QED
  BY <1>7 DEF t, r

Size(i) == Highest(i) - Lowest(i) + 1

(* The recursions of ad_lista, each with the one function that satisfies it. *)
UpFrom(ty, i, g) ==
  g = [c \in i.initium..ty.max |->
        IF ~(IF i.inclusive THEN c <= i.finis ELSE c < i.finis) THEN <<>>
        ELSE IF c >= ty.max THEN <<c>> ELSE <<c>> \o g[c + 1]]
DownFrom(ty, i, g) ==
  g = [c \in ty.min..i.initium |->
        IF ~(IF i.inclusive THEN c >= i.finis ELSE c > i.finis) THEN <<>>
        ELSE IF c <= ty.min THEN <<c>> ELSE <<c>> \o g[c - 1]]

Left(up, m, c) == IF up THEN (IF c > m THEN 0 ELSE m - c + 1)
                  ELSE (IF c < m THEN 0 ELSE c - m + 1)

LEMMA LeftRun ==
  ASSUME NEW up \in BOOLEAN, NEW m \in Int, NEW c \in Int
  PROVE  /\ Left(up, m, c) \in Nat
         /\ ~(IF up THEN c <= m ELSE c >= m) => Run(up, c, Left(up, m, c)) = <<>>
         /\ c = m => Run(up, c, Left(up, m, c)) = <<c>>
         /\ (IF up THEN c <= m ELSE c >= m) =>
              Run(up, c, Left(up, m, c)) =
                <<c>> \o Run(up, After(up, c, 1), Left(up, m, After(up, c, 1)))
<1> DEFINE n == Left(up, m, c)
           d == After(up, c, 1)
<1>1. n \in Nat /\ d \in Int /\ Left(up, m, d) \in Nat
  BY DEF Left, After
<1>2. /\ ~(IF up THEN c <= m ELSE c >= m) => n = 0
      /\ c = m => n = 1
      /\ (IF up THEN c <= m ELSE c >= m) => n = Left(up, m, d) + 1
  BY DEF Left, After
<1> HIDE DEF n, d
<1>3. Run(up, c, 0) = <<>> /\ Run(up, c, 1) = <<c>>
  BY RunFacts
<1>4. <<c>> \o Run(up, d, Left(up, m, d)) = Run(up, c, Left(up, m, d) + 1)
  BY <1>1, RunBegins DEF d
<1>5. QED
  BY <1>1, <1>2, <1>3, <1>4 DEF n, d

LEMMA UpRuns ==
  ASSUME NEW ty, IsType(ty), NEW i \in Interval(ty), Ascending(i)
  PROVE  /\ UpFrom(ty, i, [c \in i.initium..ty.max |-> Run(TRUE, c, Left(TRUE, Highest(i), c))])
         /\ \A g : UpFrom(ty, i, g) => g[i.initium] = Run(TRUE, i.initium, Size(i))
<1> DEFINE p == i.initium
           m == Highest(i)
           f == [c \in p..ty.max |-> Run(TRUE, c, Left(TRUE, m, c))]
           in(c) == IF i.inclusive THEN c <= i.finis ELSE c < i.finis
<1>1. p \in Int /\ ty.max \in Int /\ m \in Int /\ p <= ty.max /\ m <= ty.max /\ m >= p - 1
  BY IntervalType, Ends DEF IsType, Lowest
<1>2. \A c \in Int : in(c) <=> c <= m
  <2>1. i.finis \in Int /\ i.inclusive \in BOOLEAN
    BY IntervalType
  <2>2. QED
    BY <2>1 DEF Highest
<1> HIDE DEF p, m
<1>3. ASSUME NEW c \in p..ty.max
      PROVE  /\ ~in(c) => Run(TRUE, c, Left(TRUE, m, c)) = <<>>
             /\ in(c) /\ c >= ty.max => Run(TRUE, c, Left(TRUE, m, c)) = <<c>>
             /\ in(c) => Run(TRUE, c, Left(TRUE, m, c)) =
                           <<c>> \o Run(TRUE, c + 1, Left(TRUE, m, c + 1))
  <2>1. c \in Int
    BY <1>1
  <2>2. After(TRUE, c, 1) = c + 1
    BY DEF After
  <2>3. /\ ~(c <= m) => Run(TRUE, c, Left(TRUE, m, c)) = <<>>
        /\ c = m => Run(TRUE, c, Left(TRUE, m, c)) = <<c>>
        /\ c <= m => Run(TRUE, c, Left(TRUE, m, c)) =
                       <<c>> \o Run(TRUE, c + 1, Left(TRUE, m, c + 1))
    BY <1>1, <2>1, <2>2, LeftRun
  <2>4. (in(c) <=> c <= m) /\ (in(c) /\ c >= ty.max => c = m)
    BY <1>1, <1>2, <2>1
  <2> HIDE DEF in
  <2>5. QED
    BY <2>3, <2>4
<1>4. UpFrom(ty, i, f)
  <2>1. ASSUME NEW c \in p..ty.max
        PROVE  f[c] = IF ~in(c) THEN <<>> ELSE IF c >= ty.max THEN <<c>> ELSE <<c>> \o f[c + 1]
    <3>1. CASE in(c) /\ ~(c >= ty.max)
      <4>1. c + 1 \in p..ty.max
        BY <1>1, <3>1
      <4>2. f[c + 1] = Run(TRUE, c + 1, Left(TRUE, m, c + 1))
        BY <4>1
      <4> HIDE DEF in
      <4>3. QED
        BY <1>3, <3>1, <4>2
    <3>2. CASE ~(in(c) /\ ~(c >= ty.max))
      <4> HIDE DEF in
      <4>1. QED
        BY <1>3, <3>2
    <3>3. QED
      BY <3>1, <3>2
  <2> HIDE DEF f
  <2>2. f = [c \in p..ty.max |-> f[c]]
    BY DEF f
  <2>3. f = [c \in p..ty.max |->
              IF ~in(c) THEN <<>> ELSE IF c >= ty.max THEN <<c>> ELSE <<c>> \o f[c + 1]]
    BY <2>1, <2>2
  <2>4. QED
    BY <2>3 DEF UpFrom, p
<1>5. ASSUME NEW g, UpFrom(ty, i, g) PROVE g[p] = Run(TRUE, p, Size(i))
  <2> DEFINE N == ty.max - p
             T == {k \in 0..N : g[ty.max - k] = Run(TRUE, ty.max - k, Left(TRUE, m, ty.max - k))}
  <2>1. ASSUME NEW c \in p..ty.max
        PROVE  g[c] = IF ~in(c) THEN <<>> ELSE IF c >= ty.max THEN <<c>> ELSE <<c>> \o g[c + 1]
    BY <1>5 DEF UpFrom, p
  <2> HIDE DEF in
  <2>2. N \in Nat
    BY <1>1
  <2>3. 0 \in T
    <3>1. ty.max \in p..ty.max /\ ty.max - 0 = ty.max
      BY <1>1
    <3>2. g[ty.max] = Run(TRUE, ty.max, Left(TRUE, m, ty.max))
      <4>1. ty.max >= ty.max
        BY <1>1
      <4>2. g[ty.max] = IF ~in(ty.max) THEN <<>> ELSE <<ty.max>>
        BY <2>1, <3>1, <4>1
      <4>3. CASE in(ty.max)
        BY <1>3, <3>1, <4>1, <4>2, <4>3
      <4>4. CASE ~in(ty.max)
        BY <1>3, <3>1, <4>2, <4>4
      <4>5. QED
        BY <4>3, <4>4
    <3> DEFINE c == ty.max - 0
    <3>3. c = ty.max
      BY <3>1
    <3> HIDE DEF c
    <3>4. g[c] = Run(TRUE, c, Left(TRUE, m, c))
      BY ONLY <3>2, <3>3
    <3>5. 0 \in 0..N
      <4> HIDE DEF N
      <4>1. QED
        BY <2>2
    <3> HIDE DEF N
    <3>6. QED
      BY <3>4, <3>5 DEF c
  <2>4. ASSUME NEW k \in 0..(N - 1), k \in T PROVE k + 1 \in T
    <3> DEFINE c == ty.max - (k + 1)
    <3>1. c \in p..ty.max /\ ~(c >= ty.max) /\ c + 1 = ty.max - k /\ k + 1 \in 0..N
      BY <1>1
    <3>2. g[c + 1] = Run(TRUE, c + 1, Left(TRUE, m, c + 1))
      BY <2>4, <3>1
    <3> HIDE DEF c
    <3>3. g[c] = Run(TRUE, c, Left(TRUE, m, c))
      BY <1>3, <2>1, <3>1, <3>2
    <3>4. QED
      BY <3>1, <3>3 DEF c
  <2> HIDE DEF N, T
  <2>5. \A k \in 0..N : k \in T
    BY <2>2, <2>3, <2>4, UpTo
  <2>6. N \in 0..N /\ ty.max - N = p
    BY <1>1, <2>2 DEF N
  <2>7. g[p] = Run(TRUE, p, Left(TRUE, m, p))
    BY <2>5, <2>6 DEF T
  <2>8. Left(TRUE, m, p) = m - p + 1
    BY <1>1 DEF Left
  <2>9. Size(i) = m - p + 1
    BY DEF Size, Lowest, m, p
  <2>10. QED
    BY <2>7, <2>8, <2>9
<1>6. QED
  BY <1>4, <1>5 DEF p, m

LEMMA DownRuns ==
  ASSUME NEW ty, IsType(ty), NEW i \in Interval(ty), ~Ascending(i)
  PROVE  /\ DownFrom(ty, i, [c \in ty.min..i.initium |-> Run(FALSE, c, Left(FALSE, Lowest(i), c))])
         /\ \A g : DownFrom(ty, i, g) => g[i.initium] = Run(FALSE, i.initium, Size(i))
<1> DEFINE p == i.initium
           m == Lowest(i)
           f == [c \in ty.min..p |-> Run(FALSE, c, Left(FALSE, m, c))]
           in(c) == IF i.inclusive THEN c >= i.finis ELSE c > i.finis
<1>1. p \in Int /\ ty.min \in Int /\ m \in Int /\ ty.min <= p /\ ty.min <= m /\ m <= p + 1
  BY IntervalType, Ends DEF IsType, Highest
<1>2. \A c \in Int : in(c) <=> c >= m
  <2>1. i.finis \in Int /\ i.inclusive \in BOOLEAN
    BY IntervalType
  <2>2. QED
    BY <2>1 DEF Lowest
<1> HIDE DEF p, m
<1>3. ASSUME NEW c \in ty.min..p
      PROVE  /\ ~in(c) => Run(FALSE, c, Left(FALSE, m, c)) = <<>>
             /\ in(c) /\ c <= ty.min => Run(FALSE, c, Left(FALSE, m, c)) = <<c>>
             /\ in(c) => Run(FALSE, c, Left(FALSE, m, c)) =
                           <<c>> \o Run(FALSE, c - 1, Left(FALSE, m, c - 1))
  <2>1. c \in Int
    BY <1>1
  <2>2. After(FALSE, c, 1) = c - 1
    BY DEF After
  <2>3. /\ ~(c >= m) => Run(FALSE, c, Left(FALSE, m, c)) = <<>>
        /\ c = m => Run(FALSE, c, Left(FALSE, m, c)) = <<c>>
        /\ c >= m => Run(FALSE, c, Left(FALSE, m, c)) =
                       <<c>> \o Run(FALSE, c - 1, Left(FALSE, m, c - 1))
    BY <1>1, <2>1, <2>2, LeftRun
  <2>4. (in(c) <=> c >= m) /\ (in(c) /\ c <= ty.min => c = m)
    BY <1>1, <1>2, <2>1
  <2> HIDE DEF in
  <2>5. QED
    BY <2>3, <2>4
<1>4. DownFrom(ty, i, f)
  <2>1. ASSUME NEW c \in ty.min..p
        PROVE  f[c] = IF ~in(c) THEN <<>> ELSE IF c <= ty.min THEN <<c>> ELSE <<c>> \o f[c - 1]
    <3>1. CASE in(c) /\ ~(c <= ty.min)
      <4>1. c - 1 \in ty.min..p
        BY <1>1, <3>1
      <4>2. f[c - 1] = Run(FALSE, c - 1, Left(FALSE, m, c - 1))
        BY <4>1
      <4> HIDE DEF in
      <4>3. QED
        BY <1>3, <3>1, <4>2
    <3>2. CASE ~(in(c) /\ ~(c <= ty.min))
      <4> HIDE DEF in
      <4>1. QED
        BY <1>3, <3>2
    <3>3. QED
      BY <3>1, <3>2
  <2> HIDE DEF f
  <2>2. f = [c \in ty.min..p |-> f[c]]
    BY DEF f
  <2>3. f = [c \in ty.min..p |->
              IF ~in(c) THEN <<>> ELSE IF c <= ty.min THEN <<c>> ELSE <<c>> \o f[c - 1]]
    BY <2>1, <2>2
  <2>4. QED
    BY <2>3 DEF DownFrom, p
<1>5. ASSUME NEW g, DownFrom(ty, i, g) PROVE g[p] = Run(FALSE, p, Size(i))
  <2> DEFINE N == p - ty.min
             T == {k \in 0..N : g[ty.min + k] = Run(FALSE, ty.min + k, Left(FALSE, m, ty.min + k))}
  <2>1. ASSUME NEW c \in ty.min..p
        PROVE  g[c] = IF ~in(c) THEN <<>> ELSE IF c <= ty.min THEN <<c>> ELSE <<c>> \o g[c - 1]
    BY <1>5 DEF DownFrom, p
  <2> HIDE DEF in
  <2>2. N \in Nat
    BY <1>1
  <2>3. 0 \in T
    <3>1. ty.min \in ty.min..p /\ ty.min + 0 = ty.min
      BY <1>1
    <3>2. g[ty.min] = Run(FALSE, ty.min, Left(FALSE, m, ty.min))
      <4>1. ty.min <= ty.min
        BY <1>1
      <4>2. g[ty.min] = IF ~in(ty.min) THEN <<>> ELSE <<ty.min>>
        BY <2>1, <3>1, <4>1
      <4>3. CASE in(ty.min)
        BY <1>3, <3>1, <4>1, <4>2, <4>3
      <4>4. CASE ~in(ty.min)
        BY <1>3, <3>1, <4>2, <4>4
      <4>5. QED
        BY <4>3, <4>4
    <3> DEFINE c == ty.min + 0
    <3>3. c = ty.min
      BY <3>1
    <3> HIDE DEF c
    <3>4. g[c] = Run(FALSE, c, Left(FALSE, m, c))
      BY ONLY <3>2, <3>3
    <3>5. 0 \in 0..N
      <4> HIDE DEF N
      <4>1. QED
        BY <2>2
    <3> HIDE DEF N
    <3>6. QED
      BY <3>4, <3>5 DEF c
  <2>4. ASSUME NEW k \in 0..(N - 1), k \in T PROVE k + 1 \in T
    <3> DEFINE c == ty.min + (k + 1)
    <3>1. c \in ty.min..p /\ ~(c <= ty.min) /\ c - 1 = ty.min + k /\ k + 1 \in 0..N
      BY <1>1
    <3>2. g[c - 1] = Run(FALSE, c - 1, Left(FALSE, m, c - 1))
      BY <2>4, <3>1
    <3> HIDE DEF c
    <3>3. g[c] = Run(FALSE, c, Left(FALSE, m, c))
      BY <1>3, <2>1, <3>1, <3>2
    <3>4. QED
      BY <3>1, <3>3 DEF c
  <2> HIDE DEF N, T
  <2>5. \A k \in 0..N : k \in T
    BY <2>2, <2>3, <2>4, UpTo
  <2>6. N \in 0..N /\ ty.min + N = p
    BY <1>1, <2>2 DEF N
  <2>7. g[p] = Run(FALSE, p, Left(FALSE, m, p))
    BY <2>5, <2>6 DEF T
  <2>8. Left(FALSE, m, p) = p - m + 1
    BY <1>1 DEF Left
  <2>9. Size(i) = p - m + 1
    BY DEF Size, Highest, m, p
  <2>10. QED
    BY <2>7, <2>8, <2>9
<1>6. QED
  BY <1>4, <1>5 DEF p, m

LEMMA SizeFacts ==
  ASSUME NEW ty, IsType(ty), NEW i \in Interval(ty)
  PROVE  Size(i) \in Nat /\ Cardinality(Points(ty, i)) = Size(i) /\ Ascending(i) \in BOOLEAN
<1>1. Lowest(i) \in Int /\ Highest(i) \in Int /\ Highest(i) >= Lowest(i) - 1
  BY Ends DEF IsType
<1>2. Points(ty, i) = Lowest(i)..Highest(i)
  BY PointsAre
<1> DEFINE l == Lowest(i)
           h == Highest(i)
<1> HIDE DEF l, h
<1>3. Cardinality(l..h) = IF l > h THEN 0 ELSE h - l + 1
  BY <1>1, FS_Interval DEF l, h
<1>4. Cardinality(l..h) = h - l + 1
  BY <1>1, <1>3 DEF l, h
<1>5. QED
  BY <1>1, <1>2, <1>4 DEF l, h, Size, Ascending

LEMMA ListIs ==
  ASSUME NEW ty, IsType(ty), NEW i \in Interval(ty)
  PROVE  ad_lista(ty, i) = Run(Ascending(i), i.initium, Size(i))
<1> DEFINE g == CHOOSE u : UpFrom(ty, i, u)
           d == CHOOSE u : DownFrom(ty, i, u)
<1>1. ad_lista(ty, i) = IF Ascending(i) THEN g[i.initium] ELSE d[i.initium]
  BY DEF ad_lista, UpFrom, DownFrom
<1> HIDE DEF g, d
<1>2. CASE Ascending(i)
  <2>1. \E u : UpFrom(ty, i, u)
    BY <1>2, UpRuns
  <2>2. UpFrom(ty, i, g)
    BY <2>1 DEF g
  <2>3. g[i.initium] = Run(TRUE, i.initium, Size(i))
    BY <1>2, <2>2, UpRuns
  <2>4. Ascending(i) = TRUE
    BY <1>2 DEF Ascending
  <2>5. QED
    BY <1>1, <2>3, <2>4
<1>3. CASE ~Ascending(i)
  <2>1. \E u : DownFrom(ty, i, u)
    BY <1>3, DownRuns
  <2>2. DownFrom(ty, i, d)
    BY <2>1 DEF d
  <2>3. d[i.initium] = Run(FALSE, i.initium, Size(i))
    BY <1>3, <2>2, DownRuns
  <2>4. Ascending(i) = FALSE
    BY <1>3 DEF Ascending
  <2>5. QED
    BY <1>1, <2>3, <2>4
<1>4. QED
  BY <1>2, <1>3

(* The list's values are the points. *)
LEMMA RunOfPoints ==
  ASSUME NEW ty, IsType(ty), NEW i \in Interval(ty)
  PROVE  Range(Run(Ascending(i), i.initium, Size(i))) = Points(ty, i)
<1> DEFINE up == Ascending(i)
           p == i.initium
           n == Size(i)
           r == Run(up, p, n)
           l == Lowest(i)
           h == Highest(i)
<1>1. n \in Nat /\ up \in BOOLEAN /\ p \in Int /\ l \in Int /\ h \in Int /\ n = h - l + 1
  BY SizeFacts, IntervalType, Ends DEF IsType, Size
<1>2. (up => p = l) /\ (~up => p = h)
  BY DEF Lowest, Highest
<1>3. Points(ty, i) = l..h
  BY PointsAre
<1>4. r \in Seq(Int) /\ Len(r) = n /\ \A j \in 1..n : r[j] = After(up, p, j - 1)
  <2> HIDE DEF up, p, n, r
  <2>1. QED
    BY <1>1, RunFacts DEF r
<1> HIDE DEF up, p, n, r, l, h
<1>5. Range(r) = {r[j] : j \in 1..n}
  <2>1. DOMAIN r = 1..n
    BY <1>4
  <2>2. QED
    BY <2>1 DEF Range
<1>6. ASSUME NEW j \in 1..n PROVE r[j] \in l..h
  <2>1. r[j] = After(up, p, j - 1)
    BY <1>4
  <2>2. QED
    BY <1>1, <1>2, <2>1 DEF After
<1>7. ASSUME NEW x \in l..h PROVE \E j \in 1..n : r[j] = x
  <2> DEFINE j == IF up THEN x - l + 1 ELSE h - x + 1
  <2>1. j \in 1..n /\ After(up, p, j - 1) = x
    BY <1>1, <1>2 DEF After
  <2> HIDE DEF j
  <2>2. r[j] = x
    BY <1>4, <2>1
  <2>3. QED
    BY <2>1, <2>2
<1>8. Range(r) = l..h
  BY <1>5, <1>6, <1>7
<1>9. QED
  BY <1>3, <1>8 DEF r, up, p, n

(* ambula.  What it yielded is the beginning of the list, and the cursor   *)
(* is the value that follows; exhausted, it has yielded them all.          *)
WalkRec == [cursor : Int, exhausted : BOOLEAN, out : Seq(Int), ended : BOOLEAN]
WalkIsAt(ty, i, w) ==
  /\ w \in WalkRec
  /\ Len(w.out) <= Size(i) /\ w.out = Run(Ascending(i), i.initium, Len(w.out))
  /\ ~w.exhausted => w.cursor = After(Ascending(i), i.initium, Len(w.out))
  /\ w.exhausted => Len(w.out) = Size(i)
  /\ w.ended => w.exhausted
WInv == PairIsTyped /\ WalkIsAt(pair.ty, pair.a, walk)

LEMMA CursorFacts ==
  ASSUME NEW ty, IsType(ty), NEW i \in Interval(ty), NEW n \in Nat, n <= Size(i)
  PROVE  LET c == After(Ascending(i), i.initium, n)
             last == IF Ascending(i) THEN c >= ty.max \/ c >= i.finis
                     ELSE c <= ty.min \/ c <= i.finis
         IN  /\ c \in Int /\ (Done(i, c) <=> n = Size(i))
             /\ ~Done(i, c) => n + 1 <= Size(i) /\ (last => n + 1 = Size(i))
<1>1. /\ i.initium \in Int /\ i.finis \in Int /\ i.inclusive \in BOOLEAN
      /\ ty.min <= i.initium /\ i.initium <= ty.max /\ ty.min <= i.finis /\ i.finis <= ty.max
      /\ ty.min \in Int /\ ty.max \in Int
  BY IntervalType DEF IsType
<1> USE DEF After, Ascending, Done, Size, Lowest, Highest
<1>2. CASE i.initium <= i.finis /\ i.inclusive
  BY <1>1, <1>2
<1>3. CASE i.initium <= i.finis /\ ~i.inclusive
  BY <1>1, <1>3
<1>4. CASE ~(i.initium <= i.finis) /\ i.inclusive
  BY <1>1, <1>4
<1>5. CASE ~(i.initium <= i.finis) /\ ~i.inclusive
  BY <1>1, <1>5
<1>6. QED
  BY <1>1, <1>2, <1>3, <1>4, <1>5

LEMMA WalkStarts == ASSUME IntervalInit PROVE WInv
<1>1. pair.ty \in Types /\ pair.a \in Intervals(pair.ty) /\ pair.b \in Intervals(pair.ty)
  BY DEF IntervalInit
<1>2. IsType(pair.ty)
  BY <1>1, TypesAssumption DEF IsType
<1>3. ASSUME NEW ty PROVE Intervals(ty) \subseteq Interval(ty)
  <2>1. ASSUME NEW x \in ty.min..ty.max, NEW y \in ty.min..ty.max, NEW flag
        PROVE  Range(interval_new(x, y, flag)) \subseteq Interval(ty)
    <3> DEFINE i == [initium |-> x, finis |-> y, inclusive |-> flag = 1]
    <3>1. i \in Interval(ty)
      BY DEF Interval
    <3> HIDE DEF i
    <3>2. interval_new(x, y, flag) = <<i>> \/ interval_new(x, y, flag) = <<>>
      BY DEF interval_new, i
    <3>3. Range(<<i>>) = {i} /\ Range(<<>>) = {}
      BY DEF Range
    <3>4. QED
      BY <3>1, <3>2, <3>3
  <2>2. QED
    BY <2>1 DEF Intervals
<1>4. PairIsTyped
  BY <1>1, <1>2, <1>3 DEF PairIsTyped
<1>5. walk = [cursor |-> pair.a.initium, exhausted |-> FALSE, out |-> <<>>, ended |-> FALSE]
  BY DEF IntervalInit
<1>6. /\ Size(pair.a) \in Nat /\ Ascending(pair.a) \in BOOLEAN /\ pair.a.initium \in Int
  BY <1>4, SizeFacts, IntervalType DEF PairIsTyped
<1>7. walk \in WalkRec /\ walk.out = <<>> /\ ~walk.exhausted /\ ~walk.ended
      /\ walk.cursor = pair.a.initium
  BY <1>5, <1>6 DEF WalkRec
<1>8. Len(walk.out) = 0 /\ Run(Ascending(pair.a), pair.a.initium, 0) = <<>>
      /\ After(Ascending(pair.a), pair.a.initium, 0) = pair.a.initium
  BY <1>6, <1>7, RunFacts DEF After
<1>9. QED
  BY <1>4, <1>6, <1>7, <1>8 DEF WInv, WalkIsAt

LEMMA WalkSteps == ASSUME WInv, [IntervalNext]_intervalVars PROVE WInv'
<1>1. CASE UNCHANGED intervalVars
  BY <1>1 DEF intervalVars, WInv, WalkIsAt, PairIsTyped
<1>2. CASE IntervalNext
  <2> DEFINE ty == pair.ty
             i == pair.a
             up == Ascending(i)
             p == i.initium
             n == Len(walk.out)
             c == walk.cursor
             last == IF up THEN c >= ty.max \/ c >= i.finis ELSE c <= ty.min \/ c <= i.finis
  <2>1. /\ IsType(ty) /\ i \in Interval(ty) /\ PairIsTyped /\ WalkIsAt(ty, i, walk)
        /\ pair' = pair /\ next
    BY <1>2 DEF WInv, PairIsTyped, IntervalNext
  <2>2. PairIsTyped'
    BY <2>1 DEF PairIsTyped
  <2>3. Size(i) \in Nat /\ up \in BOOLEAN /\ p \in Int
    BY <2>1, SizeFacts, IntervalType
  <2>4. walk \in WalkRec /\ n \in Nat /\ n <= Size(i) /\ walk.out = Run(up, p, n)
        /\ walk.out \in Seq(Int) /\ c \in Int
    BY <2>1 DEF WalkIsAt, WalkRec
  <2>5. ~walk.exhausted => c = After(up, p, n)
    BY <2>1 DEF WalkIsAt
  <2>6. walk.exhausted => n = Size(i)
    BY <2>1 DEF WalkIsAt
  <2>7. ~walk.exhausted =>
          /\ Done(i, c) <=> n = Size(i)
          /\ ~Done(i, c) => n + 1 <= Size(i) /\ (last => n + 1 = Size(i))
    BY <2>1, <2>4, <2>5, CursorFacts
  <2>8. CASE walk.exhausted \/ Done(i, c)
    <3>1. walk' = [walk EXCEPT !.exhausted = TRUE, !.ended = TRUE]
      BY <2>1, <2>8 DEF next
    <3>2. /\ walk' \in WalkRec /\ walk'.exhausted /\ walk'.out = walk.out
      BY <2>4, <3>1 DEF WalkRec
    <3>3. n = Size(i)
      BY <2>6, <2>7, <2>8
    <3>4. WalkIsAt(ty, i, walk')
      BY <2>3, <2>4, <3>2, <3>3 DEF WalkIsAt
    <3>5. QED
      BY <2>1, <2>2, <3>4 DEF WInv
  <2>9. CASE ~(walk.exhausted \/ Done(i, c))
    <3>1. walk' = [walk EXCEPT !.out = Append(@, c), !.exhausted = last,
                               !.cursor = IF last THEN @ ELSE IF up THEN @ + 1 ELSE @ - 1]
      BY <2>1, <2>9 DEF next
    <3>2. last \in BOOLEAN
      BY <2>3
    <3> HIDE DEF last
    <3>3. /\ walk'.out = Append(walk.out, c) /\ walk'.exhausted = last
          /\ walk'.cursor = (IF last THEN c ELSE IF up THEN c + 1 ELSE c - 1)
          /\ walk'.ended = walk.ended /\ walk' \in WalkRec
      <4> DEFINE e == IF last THEN c ELSE IF up THEN c + 1 ELSE c - 1
                 s == Append(walk.out, c)
      <4>1. e \in Int /\ s \in Seq(Int)
        BY <2>3, <2>4
      <4>2. walk' = [walk EXCEPT !.out = s, !.exhausted = last, !.cursor = e]
        BY <3>1
      <4>3. walk = [cursor |-> c, exhausted |-> walk.exhausted, out |-> walk.out,
                    ended |-> walk.ended] /\ walk.ended \in BOOLEAN
        BY <2>4 DEF WalkRec
      <4> HIDE DEF e, s
      <4>4. walk' = [cursor |-> e, exhausted |-> last, out |-> s, ended |-> walk.ended]
        BY ONLY <4>2, <4>3
      <4>5. walk' \in WalkRec
        BY <3>2, <4>1, <4>3, <4>4 DEF WalkRec
      <4>6. QED
        BY <4>4, <4>5 DEF e, s
    <3>4. ~walk.ended
      BY <2>1, <2>9 DEF WalkIsAt
    <3>5. c = After(up, p, n) /\ n + 1 <= Size(i) /\ (last => n + 1 = Size(i))
      BY <2>5, <2>7, <2>9
    <3>6. walk'.out = Run(up, p, n + 1)
      <4> HIDE DEF up, p, n, c
      <4>1. QED
        BY <2>3, <2>4, <3>3, <3>5, RunEnds
    <3>7. Len(walk'.out) = n + 1
      BY <2>3, <2>4, <3>6, RunFacts
    <3>8. ~last => walk'.cursor = After(up, p, n + 1)
      <4>1. walk'.cursor = IF last THEN c ELSE IF up THEN c + 1 ELSE c - 1
        BY <3>3
      <4>2. c = After(up, p, n)
        BY <3>5
      <4> HIDE DEF up, p, n, c
      <4>3. c = IF up THEN p + n ELSE p - n
        BY ONLY <4>2 DEF After
      <4>4. After(up, p, n + 1) = IF up THEN p + (n + 1) ELSE p - (n + 1)
        BY DEF After
      <4>5. QED
        BY ONLY <2>3, <2>4, <4>1, <4>3, <4>4
    <3>9. WalkIsAt(ty, i, walk')
      BY <3>3, <3>4, <3>5, <3>6, <3>7, <3>8 DEF WalkIsAt
    <3>10. QED
      BY <2>1, <2>2, <3>9 DEF WInv
  <2>10. QED
    BY <2>8, <2>9
<1>3. QED
  BY <1>1, <1>2

LEMMA WalkIsOfTheList == WInv => WalkIsList
<1> DEFINE ty == pair.ty
           i == pair.a
           up == Ascending(i)
           p == i.initium
           N == Size(i)
           list == interval_materialize_array("a")[1]
<1>1. SUFFICES ASSUME WInv PROVE WalkIsList
  OBVIOUS
<1>2. IsType(ty) /\ i \in Interval(ty) /\ WalkIsAt(ty, i, walk)
  BY <1>1 DEF WInv, PairIsTyped
<1>3. N \in Nat /\ Cardinality(Points(ty, i)) = N /\ up \in BOOLEAN /\ p \in Int
  BY <1>2, SizeFacts, IntervalType
<1>4. list = ad_lista(ty, i) /\ list = Run(up, p, N)
  BY <1>2, CallsAre, ListIs
<1>5. Len(list) = N
  BY <1>3, <1>4, RunFacts
<1>6. Range(list) = Points(ty, i)
  BY <1>2, <1>4, RunOfPoints
<1>7. Points(ty, i) = {x \in ty.min..ty.max : interval_contains("a", x)[1]}
  BY CallsAre DEF Points
<1>8. interval_materialize_tensor("a")[1] = [shape |-> <<Len(list)>>, data |-> list]
  BY <1>4, CallsAre
<1>9. Len(walk.out) \in 0..N /\ walk.out = Run(up, p, Len(walk.out))
      /\ (walk.ended => Len(walk.out) = N)
  BY <1>2, <1>3 DEF WalkIsAt, WalkRec
<1>10. walk.out = SubSeq(list, 1, Len(walk.out))
  <2> DEFINE k == Len(walk.out)
  <2> HIDE DEF k, up, p, N, list
  <2>1. k \in 0..N /\ walk.out = Run(up, p, k)
    BY <1>9 DEF k
  <2>2. SubSeq(Run(up, p, N), 1, k) = Run(up, p, k)
    BY <1>3, <2>1, RunPrefix
  <2>3. walk.out = SubSeq(list, 1, k)
    BY <1>4, <2>1, <2>2
  <2>4. QED
    BY <2>3 DEF k
<1>11. walk.ended => walk.out = list
  BY <1>4, <1>9
<1>12. Len(walk.out) <= Len(list)
  BY <1>3, <1>5, <1>9
<1> HIDE DEF list, N
<1>13. QED
  BY <1>3, <1>5, <1>6, <1>7, <1>8, <1>10, <1>11, <1>12 DEF WalkIsList, list

(* The operations of the interval algebra are those of the sets of points, *)
(* and the list and the lazy walk visit the points once each, in order, up *)
(* to the last value of the type, whatever the bounds of the types.        *)
THEOREM IntervalsAreSound == IntervalSpec => []IntervalsSound
<1>1. IntervalInit => WInv
  BY WalkStarts
<1>2. WInv /\ [IntervalNext]_intervalVars => WInv'
  BY WalkSteps
<1>3. WInv => IntervalsSound
  BY AlgebraIsOfPoints, WalkIsOfTheList DEF IntervalsSound, WInv
<1>4. QED
  BY <1>1, <1>2, <1>3, PTL DEF IntervalSpec

-----------------------------------------------------------------------------
(* Sparsa.  Coordinates, and the counts and places of a shape, axis by     *)
(* axis.                                                                   *)
CountTo(shape, U) ==
  U = [n \in 0..Len(shape) |-> IF n = 0 THEN 1 ELSE U[n - 1] * shape[n]]
PlaceTo(shape, c, U) ==
  U = [n \in 0..Len(shape) |-> IF n = 0 THEN 0 ELSE U[n - 1] * shape[n] + c[n]]

LEMMA CoordinateType ==
  ASSUME NEW shape \in Seq(Nat), NEW c
  PROVE  c \in Coordinates(shape) <=>
           c \in [1..Len(shape) -> Nat] /\ \A i \in 1..Len(shape) : c[i] < shape[i]
<1> DEFINE S == UNION {0..(shape[i] - 1) : i \in DOMAIN shape}
<1>1. DOMAIN shape = 1..Len(shape) /\ \A i \in 1..Len(shape) : shape[i] \in Nat
  OBVIOUS
<1>2. S \subseteq Nat
  BY <1>1
<1>3. ASSUME c \in [1..Len(shape) -> Nat], \A i \in 1..Len(shape) : c[i] < shape[i]
      PROVE  c \in [DOMAIN shape -> S]
  <2>1. ASSUME NEW i \in 1..Len(shape) PROVE c[i] \in S
    <3>1. c[i] \in 0..(shape[i] - 1) /\ i \in DOMAIN shape
      BY <1>1, <1>3
    <3>2. QED
      BY <3>1
  <2> HIDE DEF S
  <2>2. QED
    BY <1>1, <1>3, <2>1
<1>4. Coordinates(shape) = {x \in [DOMAIN shape -> S] : \A i \in DOMAIN shape : x[i] < shape[i]}
  BY DEF Coordinates
<1> HIDE DEF S
<1>5. c \in [DOMAIN shape -> S] => c \in [1..Len(shape) -> Nat]
  BY <1>1, <1>2
<1>6. QED
  BY <1>1, <1>3, <1>4, <1>5

LEMMA CountIs ==
  ASSUME NEW shape \in Seq(Nat)
  PROVE  \E W \in [0..Len(shape) -> Nat] :
           /\ W[0] = 1 /\ \A n \in 1..Len(shape) : W[n] = W[n - 1] * shape[n]
           /\ Count(shape) = W[Len(shape)]
<1> DEFINE r == Len(shape)
           step == [n \in 1..r |-> [x \in Nat |-> x * shape[n]]]
           g == CHOOSE U : CountTo(shape, U)
<1>1. r \in Nat /\ \A n \in 1..r : shape[n] \in Nat
  OBVIOUS
<1>2. Count(shape) = g[r]
  BY DEF Count, CountTo
<1>3. \E U : CountTo(shape, U)
  <2>1. step \in [1..r -> [Nat -> Nat]]
    BY <1>1
  <2>2. ASSUME NEW n \in 1..r, NEW x \in Nat PROVE step[n][x] = x * shape[n]
    OBVIOUS
  <2> HIDE DEF step, r
  <2>3. PICK U \in [0..r -> Nat] : Follows(U, step, 1, r)
    BY <1>1, <2>1, FoldExists
  <2>4. ASSUME NEW n \in 0..r PROVE U[n] = IF n = 0 THEN 1 ELSE U[n - 1] * shape[n]
    <3>1. CASE n = 0
      BY <2>3, <3>1 DEF Follows
    <3>2. CASE n # 0
      <4>1. n \in 1..r /\ n - 1 \in 0..r
        BY <1>1, <3>2
      <4>2. U[n] = step[n][U[n - 1]] /\ U[n - 1] \in Nat
        BY <2>3, <4>1 DEF Follows
      <4>3. QED
        BY <2>2, <3>2, <4>1, <4>2
    <3>3. QED
      BY <3>1, <3>2
  <2>5. U = [n \in 0..r |-> U[n]]
    OBVIOUS
  <2>6. QED
    BY <2>4, <2>5 DEF CountTo, r
<1>4. CountTo(shape, g)
  BY <1>3
<1> HIDE DEF g
<1>5. g[0] = 1 /\ \A n \in 1..r : g[n] = g[n - 1] * shape[n]
  <2>1. \A n \in 0..r : g[n] = IF n = 0 THEN 1 ELSE g[n - 1] * shape[n]
    BY <1>4 DEF CountTo
  <2> HIDE DEF r
  <2>2. QED
    BY <1>1, <2>1
<1>6. \A n \in 0..r : g[n] \in Nat
  <2> DEFINE T == {n \in 0..r : g[n] \in Nat}
  <2> HIDE DEF r
  <2>1. 0 \in T
    BY <1>1, <1>5
  <2>2. ASSUME NEW n \in 0..(r - 1), n \in T PROVE n + 1 \in T
    <3>1. n + 1 \in 1..r /\ (n + 1) - 1 = n /\ n + 1 \in 0..r
      BY <1>1
    <3>2. g[n + 1] = g[n] * shape[n + 1] /\ shape[n + 1] \in Nat /\ g[n] \in Nat
      BY <1>1, <1>5, <2>2, <3>1
    <3>3. g[n + 1] \in Nat
      BY <3>2
    <3>4. QED
      BY <3>1, <3>3
  <2> HIDE DEF T
  <2>3. \A n \in 0..r : n \in T
    BY <1>1, <2>1, <2>2, UpTo
  <2>4. QED
    BY <2>3 DEF T
<1>7. g = [n \in 0..r |-> g[n]]
  <2>1. DOMAIN g = 0..r
    BY <1>4 DEF CountTo
  <2>2. QED
    BY <1>4, <2>1 DEF CountTo
<1>8. g \in [0..r -> Nat]
  BY <1>6, <1>7
<1>9. QED
  BY <1>2, <1>5, <1>8

LEMMA PlaceIs ==
  ASSUME NEW shape \in Seq(Nat), NEW c \in [1..Len(shape) -> Nat]
  PROVE  \E H \in [0..Len(shape) -> Nat] :
           /\ H[0] = 0 /\ \A n \in 1..Len(shape) : H[n] = H[n - 1] * shape[n] + c[n]
           /\ RowMajor(shape, c) = H[Len(shape)] + 1
<1> DEFINE r == Len(shape)
           step == [n \in 1..r |-> [x \in Nat |-> x * shape[n] + c[n]]]
           g == CHOOSE U : PlaceTo(shape, c, U)
<1>1. r \in Nat /\ \A n \in 1..r : shape[n] \in Nat /\ c[n] \in Nat
  OBVIOUS
<1>2. RowMajor(shape, c) = g[r] + 1
  BY DEF RowMajor, PlaceTo
<1>3. \E U : PlaceTo(shape, c, U)
  <2>1. step \in [1..r -> [Nat -> Nat]]
    BY <1>1
  <2>2. ASSUME NEW n \in 1..r, NEW x \in Nat PROVE step[n][x] = x * shape[n] + c[n]
    OBVIOUS
  <2> HIDE DEF step, r
  <2>3. PICK U \in [0..r -> Nat] : Follows(U, step, 0, r)
    BY <1>1, <2>1, FoldExists
  <2>4. ASSUME NEW n \in 0..r PROVE U[n] = IF n = 0 THEN 0 ELSE U[n - 1] * shape[n] + c[n]
    <3>1. CASE n = 0
      BY <2>3, <3>1 DEF Follows
    <3>2. CASE n # 0
      <4>1. n \in 1..r /\ n - 1 \in 0..r
        BY <1>1, <3>2
      <4>2. U[n] = step[n][U[n - 1]] /\ U[n - 1] \in Nat
        BY <2>3, <4>1 DEF Follows
      <4>3. QED
        BY <2>2, <3>2, <4>1, <4>2
    <3>3. QED
      BY <3>1, <3>2
  <2>5. U = [n \in 0..r |-> U[n]]
    OBVIOUS
  <2>6. QED
    BY <2>4, <2>5 DEF PlaceTo, r
<1>4. PlaceTo(shape, c, g)
  BY <1>3
<1> HIDE DEF g
<1>5. g[0] = 0 /\ \A n \in 1..r : g[n] = g[n - 1] * shape[n] + c[n]
  <2>1. \A n \in 0..r : g[n] = IF n = 0 THEN 0 ELSE g[n - 1] * shape[n] + c[n]
    BY <1>4 DEF PlaceTo
  <2> HIDE DEF r
  <2>2. QED
    BY <1>1, <2>1
<1>6. \A n \in 0..r : g[n] \in Nat
  <2> DEFINE T == {n \in 0..r : g[n] \in Nat}
  <2> HIDE DEF r
  <2>1. 0 \in T
    BY <1>1, <1>5
  <2>2. ASSUME NEW n \in 0..(r - 1), n \in T PROVE n + 1 \in T
    <3>1. n + 1 \in 1..r /\ (n + 1) - 1 = n /\ n + 1 \in 0..r
      BY <1>1
    <3>2. g[n + 1] = g[n] * shape[n + 1] + c[n + 1] /\ shape[n + 1] \in Nat /\ g[n] \in Nat
          /\ c[n + 1] \in Nat
      BY <1>1, <1>5, <2>2, <3>1
    <3>3. g[n + 1] \in Nat
      <4>1. ASSUME NEW x \in Nat, NEW y \in Nat, NEW z \in Nat PROVE x * y + z \in Nat
        <5>1. x * y \in Nat
          OBVIOUS
        <5>2. QED
          BY <5>1
      <4>2. QED
        BY ONLY <3>2, <4>1
    <3>4. QED
      BY <3>1, <3>3
  <2> HIDE DEF T
  <2>3. \A n \in 0..r : n \in T
    BY <1>1, <2>1, <2>2, UpTo
  <2>4. QED
    BY <2>3 DEF T
<1>7. g = [n \in 0..r |-> g[n]]
  <2>1. DOMAIN g = 0..r
    BY <1>4 DEF PlaceTo
  <2>2. QED
    BY <1>4, <2>1 DEF PlaceTo
<1>8. g \in [0..r -> Nat]
  BY <1>6, <1>7
<1>9. QED
  BY <1>2, <1>5, <1>8

(* A coordinate has a place in its shape, and no two have the same.        *)
LEMMA PlaceFits ==
  ASSUME NEW shape \in Seq(Nat), NEW c \in Coordinates(shape)
  PROVE  RowMajor(shape, c) \in 1..Count(shape)
<1> DEFINE r == Len(shape)
<1>1. c \in [1..r -> Nat] /\ (\A i \in 1..r : c[i] < shape[i]) /\ r \in Nat
      /\ \A i \in 1..r : shape[i] \in Nat
  BY CoordinateType
<1>2. PICK W \in [0..r -> Nat] :
         /\ W[0] = 1 /\ \A n \in 1..r : W[n] = W[n - 1] * shape[n]
         /\ Count(shape) = W[r]
  BY CountIs
<1>3. PICK H \in [0..r -> Nat] :
         /\ H[0] = 0 /\ \A n \in 1..r : H[n] = H[n - 1] * shape[n] + c[n]
         /\ RowMajor(shape, c) = H[r] + 1
  BY <1>1, PlaceIs
<1> DEFINE T == {n \in 0..r : H[n] < W[n]}
<1> HIDE DEF r
<1>4. 0 \in T
  BY <1>1, <1>2, <1>3
<1>5. ASSUME NEW n \in 0..(r - 1), n \in T PROVE n + 1 \in T
  <2> DEFINE m == n + 1
             t == H[n]
             w == shape[m]
             j == c[m] + 1
             q == W[n]
  <2>1. m \in 1..r /\ m - 1 = n /\ n \in 0..r /\ m \in 0..r
    BY <1>1
  <2>2. t \in Nat /\ q \in Nat /\ t < q /\ H[m] \in Nat /\ W[m] \in Nat
    BY <1>2, <1>3, <1>5, <2>1
  <2>3. w \in Nat \ {0} /\ j \in 1..w /\ c[m] = j - 1 /\ c[m] \in Nat
    BY <1>1, <2>1
  <2>4. H[m] = t * w + c[m] /\ W[m] = q * w
    BY <1>2, <1>3, <2>1
  <2> HIDE DEF m, t, w, j, q
  <2>5. t * w + j \in 1..(q * w)
    BY <2>2, <2>3, PlaceInRow
  <2>6. t * w \in Nat /\ q * w \in Nat
    BY <2>2, <2>3
  <2>7. H[m] < W[m]
    BY <2>3, <2>4, <2>5, <2>6
  <2>8. QED
    BY <2>1, <2>7 DEF m
<1>6. r \in T
  <2> HIDE DEF T
  <2>1. \A n \in 0..r : n \in T
    BY <1>1, <1>4, <1>5, UpTo
  <2>2. QED
    BY <1>1, <2>1
<1>7. H[r] \in Nat /\ W[r] \in Nat /\ H[r] < W[r]
  BY <1>1, <1>6
<1>8. QED
  BY <1>2, <1>3, <1>7

LEMMA PlacesDiffer ==
  ASSUME NEW shape \in Seq(Nat), NEW c \in Coordinates(shape), NEW d \in Coordinates(shape),
         RowMajor(shape, c) = RowMajor(shape, d)
  PROVE  c = d
<1> DEFINE r == Len(shape)
<1>1. c \in [1..r -> Nat] /\ (\A i \in 1..r : c[i] < shape[i]) /\ r \in Nat
      /\ d \in [1..r -> Nat] /\ (\A i \in 1..r : d[i] < shape[i])
      /\ \A i \in 1..r : shape[i] \in Nat
  BY CoordinateType
<1>2. PICK G \in [0..r -> Nat] :
         /\ G[0] = 0 /\ \A n \in 1..r : G[n] = G[n - 1] * shape[n] + d[n]
         /\ RowMajor(shape, d) = G[r] + 1
  BY <1>1, PlaceIs
<1>3. PICK H \in [0..r -> Nat] :
         /\ H[0] = 0 /\ \A n \in 1..r : H[n] = H[n - 1] * shape[n] + c[n]
         /\ RowMajor(shape, c) = H[r] + 1
  BY <1>1, PlaceIs
<1> DEFINE T == {n \in 0..r : H[r - n] = G[r - n] /\ \A i \in 1..r : i > r - n => c[i] = d[i]}
<1> HIDE DEF r
<1>4. 0 \in T
  <2>1. H[r] \in Nat /\ G[r] \in Nat /\ r - 0 = r
    BY <1>1
  <2>2. H[r] = G[r]
    BY <1>2, <1>3, <2>1
  <2>3. \A i \in 1..r : ~(i > r)
    BY <1>1
  <2>4. QED
    BY <1>1, <2>1, <2>2, <2>3
<1>5. ASSUME NEW n \in 0..(r - 1), n \in T PROVE n + 1 \in T
  <2> DEFINE m == r - n
             w == shape[m]
  <2>1. m \in 1..r /\ m - 1 = r - (n + 1) /\ m - 1 \in 0..r /\ n + 1 \in 0..r
    BY <1>1
  <2>2. H[m] = G[m] /\ \A i \in 1..r : i > m => c[i] = d[i]
    BY <1>5
  <2> DEFINE t == H[m - 1]
             u == G[m - 1]
             x == c[m]
             y == d[m]
  <2>3. w \in Nat \ {0} /\ t \in Nat /\ u \in Nat /\ x \in Nat /\ y \in Nat /\ x < w /\ y < w
    <3>1. t \in Nat /\ u \in Nat
      BY <1>2, <1>3, <2>1
    <3>2. shape[m] \in Nat /\ c[m] \in Nat /\ d[m] \in Nat /\ c[m] < shape[m] /\ d[m] < shape[m]
      BY <1>1, <2>1
    <3> HIDE DEF m
    <3>3. QED
      BY <3>1, <3>2
  <2>4. t * w + x = u * w + y
    BY <1>2, <1>3, <2>1, <2>2
  <2> HIDE DEF t, u, x, y, w, m
  <2>5. x + 1 \in 1..w /\ y + 1 \in 1..w /\ (x + 1) - 1 = x /\ (y + 1) - 1 = y
    BY <2>3
  <2>6. (t * w + (x + 1) - 1) \div w = t /\ (t * w + (x + 1) - 1) % w = (x + 1) - 1
    BY <2>3, <2>5, PlaceInRow
  <2>7. (u * w + (y + 1) - 1) \div w = u /\ (u * w + (y + 1) - 1) % w = (y + 1) - 1
    BY <2>3, <2>5, PlaceInRow
  <2>8. t * w + (x + 1) - 1 = u * w + (y + 1) - 1
    <3>1. t * w \in Nat /\ u * w \in Nat
      BY <2>3
    <3>2. QED
      BY <2>3, <2>4, <3>1
  <2>9. t = u /\ x = y
    BY <2>5, <2>6, <2>7, <2>8
  <2>10. \A i \in 1..r : i > m - 1 => c[i] = d[i]
    <3>1. ASSUME NEW i \in 1..r, i > m - 1 PROVE i = m \/ i > m
      BY <1>1, <2>1, <3>1
    <3>2. QED
      BY <2>2, <2>9, <3>1 DEF x, y
  <2>11. H[r - (n + 1)] = G[r - (n + 1)]
    BY <2>1, <2>9 DEF t, u
  <2>12. QED
    BY <2>1, <2>10, <2>11
<1>6. r \in T
  <2> HIDE DEF T
  <2>1. \A n \in 0..r : n \in T
    BY <1>1, <1>4, <1>5, UpTo
  <2>2. QED
    BY <1>1, <2>1
<1>7. \A i \in 1..r : c[i] = d[i]
  BY <1>1, <1>6
<1>8. QED
  BY <1>1, <1>7

(* A set of places has a last one. *)
LEMMA LastPlace ==
  ASSUME NEW n \in Nat, NEW S, S \subseteq 1..n, S # {}
  PROVE  Max(S) \in S /\ \A i \in S : i <= Max(S)
<1> DEFINE T == {n - i : i \in S}
<1>1. T \subseteq Nat /\ T # {}
  <2>1. ASSUME NEW i \in S PROVE n - i \in Nat
    <3>1. i \in 1..n
      OBVIOUS
    <3>2. QED
      BY <3>1
  <2>2. QED
    BY <2>1
<1> HIDE DEF T
<1>2. PICK k \in T : \A m \in T : k <= m
  BY <1>1, Least
<1>3. PICK a \in S : k = n - a
  BY <1>2 DEF T
<1>4. \A i \in S : i <= a
  <2>1. ASSUME NEW i \in S PROVE i <= a
    <3>1. n - i \in T
      BY DEF T
    <3>2. n - a <= n - i
      BY <1>2, <1>3, <3>1
    <3>3. QED
      BY <3>2
  <2>2. QED
    BY <2>1
<1>5. \E x \in S : \A y \in S : x >= y
  BY <1>3, <1>4
<1>6. Max(S) \in S /\ \A y \in S : Max(S) >= y
  BY <1>5 DEF Max
<1>7. QED
  BY <1>6

LEMMA TimesNext ==
  ASSUME NEW x \in Nat, NEW y \in Nat
  PROVE  (x + 1) * y = x * y + y /\ x * y \in Nat
OBVIOUS

(* Until the last coordinate of the shape, the next is one place on. *)
LEMMA NextPlace ==
  ASSUME NEW shape \in Seq(Nat), NEW c \in Coordinates(shape),
         NEW k, k \in 1..Len(shape), c[k] + 1 < shape[k]
  PROVE  \E d \in Coordinates(shape) :
           advance_coordinate(c, shape) = <<d>> /\ RowMajor(shape, d) = RowMajor(shape, c) + 1
<1> DEFINE r == Len(shape)
           live == {i \in DOMAIN shape : c[i] + 1 < shape[i]}
           a == Max(live)
           d == [i \in DOMAIN shape |-> IF i < a THEN c[i] ELSE IF i = a THEN c[i] + 1 ELSE 0]
<1>1. c \in [1..r -> Nat] /\ (\A i \in 1..r : c[i] < shape[i]) /\ r \in Nat
      /\ DOMAIN shape = 1..r /\ \A i \in 1..r : shape[i] \in Nat
  BY CoordinateType
<1>2. k \in live
  BY <1>1
<1>3. advance_coordinate(c, shape) = <<d>>
  BY <1>2 DEF advance_coordinate
<1>4. a \in live /\ \A i \in live : i <= a
  <2>1. live \subseteq 1..r /\ live # {}
    BY <1>1, <1>2
  <2> HIDE DEF live, r
  <2>2. QED
    BY <1>1, <2>1, LastPlace
<1>5. a \in 1..r /\ c[a] + 1 < shape[a] /\ \A i \in 1..r : i > a => ~(c[i] + 1 < shape[i])
  <2>1. \A i \in 1..r : c[i] + 1 < shape[i] <=> i \in live
    BY <1>1
  <2>2. a \in 1..r
    BY <1>1, <1>4
  <2>3. \A i \in 1..r : i > a => ~(i <= a)
    <3> HIDE DEF a, r
    <3>1. QED
      BY <1>1, <2>2
  <2> HIDE DEF a, live
  <2>4. QED
    BY <1>4, <2>1, <2>2, <2>3
<1> HIDE DEF a
<1>6. \A i \in 1..r : d[i] = IF i < a THEN c[i] ELSE IF i = a THEN c[i] + 1 ELSE 0
  BY <1>1
<1>7. d \in [1..r -> Nat] /\ \A i \in 1..r : d[i] < shape[i]
  <2>1. ASSUME NEW i \in 1..r PROVE d[i] \in Nat /\ d[i] < shape[i]
    BY <1>1, <1>5, <1>6
  <2>2. d = [i \in 1..r |-> d[i]]
    BY <1>1
  <2>3. QED
    BY <2>1, <2>2
<1> HIDE DEF d
<1>8. d \in Coordinates(shape)
  BY <1>7, CoordinateType
<1>9. PICK H \in [0..r -> Nat] :
         /\ H[0] = 0 /\ \A n \in 1..r : H[n] = H[n - 1] * shape[n] + c[n]
         /\ RowMajor(shape, c) = H[r] + 1
  BY <1>1, PlaceIs
<1>10. PICK G \in [0..r -> Nat] :
         /\ G[0] = 0 /\ \A n \in 1..r : G[n] = G[n - 1] * shape[n] + d[n]
         /\ RowMajor(shape, d) = G[r] + 1
  BY <1>7, PlaceIs
<1> DEFINE T == {n \in 0..r : G[n] = H[n] + (IF n >= a THEN 1 ELSE 0)}
<1> HIDE DEF r
<1>11. 0 \in T
  BY <1>1, <1>5, <1>9, <1>10
<1>12. ASSUME NEW n \in 0..(r - 1), n \in T PROVE n + 1 \in T
  <2> DEFINE m == n + 1
             w == shape[m]
             t == H[n]
  <2>1. m \in 1..r /\ m - 1 = n /\ n \in 0..r /\ m \in 0..r /\ n \in Nat
    BY <1>1
  <2>2. H[m] = t * w + c[m] /\ G[m] = G[n] * w + d[m] /\ t \in Nat /\ G[n] \in Nat
        /\ w \in Nat /\ c[m] \in Nat /\ c[m] < w /\ d[m] \in Nat
    BY <1>1, <1>7, <1>9, <1>10, <2>1
  <2>3. G[n] = t + (IF n >= a THEN 1 ELSE 0)
    BY <1>12
  <2>4. d[m] = IF m < a THEN c[m] ELSE IF m = a THEN c[m] + 1 ELSE 0
    BY <1>6, <2>1
  <2>5. m > a => c[m] + 1 = w
    <3>1. m > a => ~(c[m] + 1 < w)
      BY <1>5, <2>1
    <3>2. QED
      BY <2>2, <3>1
  <2>6. (t + 1) * w = t * w + w /\ t * w \in Nat
    BY <2>2, TimesNext
  <2>7. a \in Nat
    BY <1>5, <1>1
  <2>8. G[m] = H[m] + (IF m >= a THEN 1 ELSE 0)
    <3>1. CASE m < a
      <4>1. ~(n >= a) /\ ~(m >= a)
        BY <2>1, <2>7, <3>1
      <4>2. G[n] = t
        BY <2>2, <2>3, <4>1
      <4>3. G[m] = t * w + c[m]
        BY <2>2, <2>4, <3>1, <4>2
      <4> HIDE DEF t, w, m
      <4>4. QED
        BY <2>2, <2>6, <4>1, <4>3
    <3>2. CASE m = a
      <4>1. ~(n >= a) /\ m >= a /\ ~(m < a)
        BY <2>1, <2>7, <3>2
      <4>2. G[n] = t
        BY <2>2, <2>3, <4>1
      <4>3. G[m] = t * w + (c[m] + 1)
        BY <2>2, <2>4, <3>2, <4>1, <4>2
      <4> HIDE DEF t, w, m
      <4>4. QED
        BY <2>2, <2>6, <4>1, <4>3
    <3>3. CASE m > a
      <4>1. n >= a /\ m >= a /\ ~(m < a) /\ m # a
        BY <2>1, <2>7, <3>3
      <4>2. G[n] = t + 1 /\ d[m] = 0 /\ c[m] + 1 = w
        BY <2>3, <2>4, <2>5, <3>3, <4>1
      <4>3. G[m] = (t + 1) * w
        BY <2>2, <2>6, <4>2
      <4> HIDE DEF t, w, m
      <4>4. G[m] = t * w + w /\ t * w \in Nat
        BY ONLY <2>6, <4>3
      <4>5. H[m] = t * w + c[m] /\ c[m] \in Nat
        BY ONLY <2>2
      <4> DEFINE q == t * w
                 e == c[m]
      <4>6. G[m] = q + w /\ H[m] = q + e /\ q \in Nat /\ e \in Nat /\ e + 1 = w
        BY ONLY <4>2, <4>4, <4>5
      <4> HIDE DEF q, e
      <4>7. G[m] = H[m] + 1
        BY ONLY <4>6
      <4>8. QED
        BY <4>1, <4>7
    <3>4. m \in Nat
      BY <2>1
    <3> HIDE DEF m, t, w
    <3>5. m < a \/ m = a \/ m > a
      BY <2>7, <3>4
    <3>6. QED
      BY ONLY <3>1, <3>2, <3>3, <3>5
  <2>9. QED
    BY <2>1, <2>8
<1>13. r \in T
  <2> HIDE DEF T
  <2>1. \A n \in 0..r : n \in T
    BY <1>1, <1>11, <1>12, UpTo
  <2>2. QED
    BY <1>1, <2>1
<1>14. r >= a /\ H[r] \in Nat /\ G[r] = H[r] + 1
  BY <1>1, <1>5, <1>13
<1>15. RowMajor(shape, d) = RowMajor(shape, c) + 1
  BY <1>9, <1>10, <1>14
<1>16. QED
  BY <1>3, <1>8, <1>15

(* The last has no next, and is at the end. *)
LEMMA LastHasNoNext ==
  ASSUME NEW shape \in Seq(Nat), NEW c \in Coordinates(shape),
         \A k \in 1..Len(shape) : ~(c[k] + 1 < shape[k])
  PROVE  advance_coordinate(c, shape) = <<>> /\ RowMajor(shape, c) = Count(shape)
<1> DEFINE r == Len(shape)
<1>1. c \in [1..r -> Nat] /\ (\A i \in 1..r : c[i] < shape[i]) /\ r \in Nat
      /\ DOMAIN shape = 1..r /\ \A i \in 1..r : shape[i] \in Nat
  BY CoordinateType
<1>2. advance_coordinate(c, shape) = <<>>
  BY <1>1 DEF advance_coordinate
<1>3. PICK W \in [0..r -> Nat] :
         /\ W[0] = 1 /\ \A n \in 1..r : W[n] = W[n - 1] * shape[n]
         /\ Count(shape) = W[r]
  BY CountIs
<1>4. PICK H \in [0..r -> Nat] :
         /\ H[0] = 0 /\ \A n \in 1..r : H[n] = H[n - 1] * shape[n] + c[n]
         /\ RowMajor(shape, c) = H[r] + 1
  BY <1>1, PlaceIs
<1> DEFINE T == {n \in 0..r : W[n] = H[n] + 1}
<1>5. \A i \in 1..r : shape[i] = c[i] + 1
  <2>1. ASSUME NEW i \in 1..r PROVE shape[i] = c[i] + 1
    <3> DEFINE x == c[i]
               y == shape[i]
    <3>1. x \in Nat /\ y \in Nat /\ x < y /\ ~(x + 1 < y)
      BY <1>1
    <3> HIDE DEF x, y
    <3>2. y = x + 1
      BY <3>1
    <3>3. QED
      BY <3>2 DEF x, y
  <2>2. QED
    BY <2>1
<1> HIDE DEF r
<1>6. 0 \in T
  BY <1>1, <1>3, <1>4
<1>7. ASSUME NEW n \in 0..(r - 1), n \in T PROVE n + 1 \in T
  <2> DEFINE m == n + 1
             w == shape[m]
             t == H[n]
  <2>1. m \in 1..r /\ m - 1 = n /\ n \in 0..r /\ m \in 0..r
    BY <1>1
  <2>2. H[m] = t * w + c[m] /\ W[m] = W[n] * w /\ t \in Nat /\ w \in Nat /\ w = c[m] + 1
        /\ c[m] \in Nat /\ W[n] = t + 1
    BY <1>1, <1>3, <1>4, <1>5, <1>7, <2>1
  <2>3. (t + 1) * w = t * w + w /\ t * w \in Nat
    BY <2>2, TimesNext
  <2>4. W[m] = (t + 1) * w
    BY <2>2
  <2> HIDE DEF t, w, m
  <2>5. W[m] = H[m] + 1
    BY <2>2, <2>3, <2>4
  <2>6. QED
    BY <2>1, <2>5 DEF m
<1>8. r \in T
  <2> HIDE DEF T
  <2>1. \A n \in 0..r : n \in T
    BY <1>1, <1>6, <1>7, UpTo
  <2>2. QED
    BY <1>1, <2>1
<1>9. QED
  BY <1>2, <1>3, <1>4, <1>8

Origin(shape) == [i \in DOMAIN shape |-> 0]
NoEmptyAxis(shape) == shape \in Seq(Nat) /\ \A i \in 1..Len(shape) : shape[i] > 0

LEMMA FirstPlace ==
  ASSUME NEW shape, NoEmptyAxis(shape)
  PROVE  Origin(shape) \in Coordinates(shape) /\ RowMajor(shape, Origin(shape)) = 1
         /\ Count(shape) \in Nat \ {0}
<1> DEFINE r == Len(shape)
           c == Origin(shape)
<1>1. shape \in Seq(Nat) /\ r \in Nat /\ (\A i \in 1..r : shape[i] \in Nat /\ shape[i] > 0)
      /\ DOMAIN shape = 1..r
  BY DEF NoEmptyAxis
<1>2. c \in [1..r -> Nat] /\ \A i \in 1..r : c[i] = 0
  BY <1>1 DEF Origin
<1>3. \A i \in 1..r : c[i] < shape[i]
  BY <1>1, <1>2
<1>4. c \in Coordinates(shape)
  BY <1>1, <1>2, <1>3, CoordinateType
<1> HIDE DEF c
<1>5. PICK H \in [0..r -> Nat] :
         /\ H[0] = 0 /\ \A n \in 1..r : H[n] = H[n - 1] * shape[n] + c[n]
         /\ RowMajor(shape, c) = H[r] + 1
  BY <1>1, <1>2, PlaceIs
<1> DEFINE T == {n \in 0..r : H[n] = 0}
<1> HIDE DEF r
<1>6. 0 \in T
  BY <1>1, <1>5
<1>7. ASSUME NEW n \in 0..(r - 1), n \in T PROVE n + 1 \in T
  <2>1. n + 1 \in 1..r /\ (n + 1) - 1 = n /\ n + 1 \in 0..r
    BY <1>1
  <2>2. H[n + 1] = 0 * shape[n + 1] + 0 /\ shape[n + 1] \in Nat
    BY <1>1, <1>2, <1>5, <1>7, <2>1
  <2>3. H[n + 1] = 0
    BY <2>2
  <2>4. QED
    BY <2>1, <2>3
<1>8. r \in T
  <2> HIDE DEF T
  <2>1. \A n \in 0..r : n \in T
    BY <1>1, <1>6, <1>7, UpTo
  <2>2. QED
    BY <1>1, <2>1
<1>9. RowMajor(shape, c) = 1
  BY <1>5, <1>8
<1>10. Count(shape) \in Nat
  <2>1. Len(shape) \in 0..Len(shape)
    BY <1>1
  <2>2. QED
    BY <1>1, <2>1, CountIs
<1>11. 1 \in 1..Count(shape)
  BY <1>1, <1>4, <1>9, PlaceFits
<1>12. QED
  BY <1>4, <1>9, <1>10, <1>11 DEF c

LEMMA EmptyAxis ==
  ASSUME NEW shape \in Seq(Nat), ~NoEmptyAxis(shape)
  PROVE  Count(shape) = 0 /\ Coordinates(shape) = {} /\ 0 \in Range(shape)
<1> DEFINE r == Len(shape)
<1>1. r \in Nat /\ (\A i \in 1..r : shape[i] \in Nat) /\ DOMAIN shape = 1..r
  OBVIOUS
<1>2. PICK a \in 1..r : shape[a] = 0
  BY <1>1 DEF NoEmptyAxis
<1>3. Coordinates(shape) = {}
  <2>1. ASSUME NEW c \in Coordinates(shape) PROVE FALSE
    <3>1. c[a] \in Nat /\ c[a] < shape[a]
      BY <1>2, CoordinateType
    <3>2. QED
      BY <1>2, <3>1
  <2>2. QED
    BY <2>1
<1>4. 0 \in Range(shape)
  BY <1>1, <1>2 DEF Range
<1>5. PICK W \in [0..r -> Nat] :
         /\ W[0] = 1 /\ \A n \in 1..r : W[n] = W[n - 1] * shape[n]
         /\ Count(shape) = W[r]
  BY CountIs
<1> DEFINE T == {n \in 0..r : n >= a => W[n] = 0}
<1> HIDE DEF r
<1>6. 0 \in T
  BY <1>1, <1>2
<1>7. ASSUME NEW n \in 0..(r - 1), n \in T PROVE n + 1 \in T
  <2>1. n + 1 \in 1..r /\ (n + 1) - 1 = n /\ n + 1 \in 0..r /\ n \in 0..r
    BY <1>1
  <2>2. W[n + 1] = W[n] * shape[n + 1] /\ shape[n + 1] \in Nat /\ W[n] \in Nat
    BY <1>1, <1>5, <2>1
  <2>3. n + 1 >= a => n + 1 = a \/ n >= a
    BY <1>2
  <2>4. n + 1 >= a => W[n] = 0 \/ shape[n + 1] = 0
    BY <1>2, <1>7, <2>3
  <2>5. n + 1 >= a => W[n + 1] = 0
    BY <2>2, <2>4
  <2>6. QED
    BY <2>1, <2>5
<1>8. r \in T
  <2> HIDE DEF T
  <2>1. \A n \in 0..r : n \in T
    BY <1>1, <1>6, <1>7, UpTo
  <2>2. QED
    BY <1>1, <2>1
<1>9. Count(shape) = 0
  BY <1>1, <1>2, <1>5, <1>8
<1>10. QED
  BY <1>3, <1>4, <1>9

(* A trail: the coordinates of the first places.                           *)
IsTrail(shape, s) ==
  /\ s \in Seq(Coordinates(shape)) /\ Len(s) \in 1..Count(shape)
  /\ \A k \in 1..Len(s) : RowMajor(shape, s[k]) = k
Onward(shape, s) == s \o advance_coordinate(s[Len(s)], shape)

LEMMA TrailGoesOn ==
  ASSUME NEW shape \in Seq(Nat), NEW s, IsTrail(shape, s)
  PROVE  IsTrail(shape, Onward(shape, s))
         /\ Len(Onward(shape, s)) = IF Len(s) < Count(shape) THEN Len(s) + 1 ELSE Len(s)
<1> DEFINE C == Coordinates(shape)
           n == Len(s)
           c == s[n]
           N == Count(shape)
<1>1. s \in Seq(C) /\ n \in 1..N /\ (\A k \in 1..n : RowMajor(shape, s[k]) = k) /\ n \in Nat
  BY DEF IsTrail
<1>2. N \in Nat
  BY CountIs
<1>3. c \in C /\ RowMajor(shape, c) = n
  BY <1>1
<1>4. CASE \E k \in 1..Len(shape) : c[k] + 1 < shape[k]
  <2>1. PICK d \in C : advance_coordinate(c, shape) = <<d>> /\ RowMajor(shape, d) = n + 1
    <3> HIDE DEF c, n, C
    <3>1. QED
      BY <1>3, <1>4, NextPlace DEF C
  <2>2. n + 1 \in 1..N
    BY <2>1, PlaceFits
  <2> HIDE DEF C, N
  <2>3. Onward(shape, s) = s \o <<d>>
    BY <2>1 DEF Onward
  <2>4. s \o <<d>> = Append(s, d)
    BY <1>1
  <2>5. Append(s, d) \in Seq(C) /\ Len(Append(s, d)) = n + 1 /\ Append(s, d)[n + 1] = d
        /\ \A k \in 1..n : Append(s, d)[k] = s[k]
    BY <1>1
  <2>6. \A k \in 1..(n + 1) : k \in 1..n \/ k = n + 1
    BY <1>1
  <2>7. \A k \in 1..(n + 1) : RowMajor(shape, Append(s, d)[k]) = k
    BY <1>1, <2>1, <2>5, <2>6
  <2>8. n < N
    BY <1>1, <1>2, <2>2
  <2>9. QED
    BY <2>2, <2>3, <2>4, <2>5, <2>7, <2>8 DEF IsTrail, C, N
<1>5. CASE \A k \in 1..Len(shape) : ~(c[k] + 1 < shape[k])
  <2>1. advance_coordinate(c, shape) = <<>> /\ RowMajor(shape, c) = N
    <3> HIDE DEF c
    <3>1. QED
      BY <1>3, <1>5, LastHasNoNext
  <2>2. s \o <<>> = s
    BY <1>1
  <2>3. Onward(shape, s) = s /\ n = N
    BY <1>3, <2>1, <2>2 DEF Onward
  <2>4. QED
    BY <1>2, <2>3
<1>6. QED
  BY <1>4, <1>5

WalkTo(shape, m, U) ==
  U = [n \in 0..m |->
        IF n = 0 THEN << [i \in DOMAIN shape |-> 0] >>
        ELSE LET before == U[n - 1]
             IN  before \o advance_coordinate(before[Len(before)], shape)]

LEMMA TrailIs ==
  ASSUME NEW shape, NoEmptyAxis(shape), NEW steps \in Nat \ {0}
  PROVE  /\ IsTrail(shape, Trail(shape, steps))
         /\ Len(Trail(shape, steps)) = IF steps <= Count(shape) THEN steps ELSE Count(shape)
<1> DEFINE m == steps - 1
           N == Count(shape)
           g == CHOOSE U : WalkTo(shape, m, U)
           X == {s \in Seq(Coordinates(shape)) : IsTrail(shape, s)}
           b == << Origin(shape) >>
           step == [n \in 1..m |-> [x \in X |-> Onward(shape, x)]]
<1>1. m \in Nat /\ steps # 0 /\ shape \in Seq(Nat) /\ N \in Nat \ {0}
  BY FirstPlace DEF NoEmptyAxis
<1>2. Trail(shape, steps) = g[m]
  BY <1>1 DEF Trail, WalkTo
<1>3. b \in X /\ Len(b) = 1
  <2>1. b \in Seq(Coordinates(shape)) /\ Len(b) = 1 /\ b[1] = Origin(shape)
    BY FirstPlace
  <2>2. \A k \in 1..1 : k = 1
    OBVIOUS
  <2>3. 1 \in 1..N
    BY <1>1
  <2> HIDE DEF b, N
  <2>4. IsTrail(shape, b)
    BY <2>1, <2>2, <2>3, FirstPlace DEF IsTrail, N
  <2>5. QED
    BY <2>1, <2>4
<1>4. ASSUME NEW x \in X
      PROVE  Onward(shape, x) \in X /\ Len(x) \in Nat
             /\ Len(Onward(shape, x)) = IF Len(x) < N THEN Len(x) + 1 ELSE Len(x)
  <2>1. IsTrail(shape, x)
    OBVIOUS
  <2>2. IsTrail(shape, Onward(shape, x))
        /\ Len(Onward(shape, x)) = IF Len(x) < N THEN Len(x) + 1 ELSE Len(x)
    BY <1>1, <2>1, TrailGoesOn
  <2>3. Onward(shape, x) \in Seq(Coordinates(shape))
    BY <2>2 DEF IsTrail
  <2>4. QED
    BY <2>1, <2>2, <2>3
<1> HIDE DEF X, b
<1>5. \E U : WalkTo(shape, m, U)
  <2>1. step \in [1..m -> [X -> X]]
    BY <1>4
  <2>2. ASSUME NEW n \in 1..m, NEW x \in X PROVE step[n][x] = Onward(shape, x)
    OBVIOUS
  <2> HIDE DEF step, m
  <2>3. PICK U \in [0..m -> X] : Follows(U, step, b, m)
    BY <1>1, <1>3, <2>1, FoldExists
  <2>4. ASSUME NEW n \in 0..m
        PROVE  U[n] = IF n = 0 THEN b ELSE Onward(shape, U[n - 1])
    <3>1. CASE n = 0
      BY <2>3, <3>1 DEF Follows
    <3>2. CASE n # 0
      <4>1. n \in 1..m /\ n - 1 \in 0..m
        BY <1>1, <3>2
      <4>2. U[n] = step[n][U[n - 1]] /\ U[n - 1] \in X
        BY <2>3, <4>1 DEF Follows
      <4>3. QED
        BY <2>2, <3>2, <4>1, <4>2
    <3>3. QED
      BY <3>1, <3>2
  <2>5. U = [n \in 0..m |-> U[n]]
    OBVIOUS
  <2>6. U = [n \in 0..m |-> IF n = 0 THEN b ELSE Onward(shape, U[n - 1])]
    BY <2>4, <2>5
  <2>7. WalkTo(shape, m, U)
    BY <2>6 DEF WalkTo, Onward, b, Origin
  <2>8. QED
    BY <2>7 DEF m
<1>6. WalkTo(shape, m, g)
  BY <1>5
<1> HIDE DEF g, m, N
<1>7. \A n \in 0..m : g[n] = IF n = 0 THEN b ELSE Onward(shape, g[n - 1])
  <2>1. g = [n \in 0..m |-> IF n = 0 THEN b ELSE Onward(shape, g[n - 1])]
    BY <1>6 DEF WalkTo, Onward, b, Origin
  <2>2. QED
    BY <2>1
<1> DEFINE T == {n \in 0..m : g[n] \in X /\ Len(g[n]) = IF n + 1 <= N THEN n + 1 ELSE N}
<1>8. 0 \in T
  <2>1. g[0] = b /\ 0 \in 0..m
    BY <1>1, <1>7
  <2>2. Len(b) = IF 0 + 1 <= N THEN 0 + 1 ELSE N
    BY <1>1, <1>3
  <2>3. g[0] \in X /\ Len(g[0]) = IF 0 + 1 <= N THEN 0 + 1 ELSE N
    BY ONLY <1>3, <2>1, <2>2
  <2>4. QED
    BY ONLY <2>1, <2>3
<1>9. ASSUME NEW n \in 0..(m - 1), n \in T PROVE n + 1 \in T
  <2>1. n + 1 \in 0..m /\ n + 1 # 0 /\ (n + 1) - 1 = n /\ n \in Nat
    BY <1>1
  <2>2. g[n + 1] = Onward(shape, g[n])
    BY <1>7, <2>1
  <2>3. g[n] \in X /\ Len(g[n]) = IF n + 1 <= N THEN n + 1 ELSE N
    BY <1>9
  <2>4. g[n + 1] \in X /\ Len(g[n + 1]) = IF Len(g[n]) < N THEN Len(g[n]) + 1 ELSE Len(g[n])
    BY <1>4, <2>2, <2>3
  <2>5. Len(g[n + 1]) = IF (n + 1) + 1 <= N THEN (n + 1) + 1 ELSE N
    BY <1>1, <2>1, <2>3, <2>4
  <2>6. QED
    BY <2>1, <2>4, <2>5
<1>10. m \in T
  <2> HIDE DEF T
  <2>1. \A n \in 0..m : n \in T
    BY <1>1, <1>8, <1>9, UpTo
  <2>2. QED
    BY <1>1, <2>1
<1>11. m + 1 = steps
  BY DEF m
<1>12. QED
  BY <1>2, <1>10, <1>11 DEF X, N

(* densata: the value of each coordinate at its place. *)
IsDenseOf(data, shape, f) ==
  /\ Len(data) = Count(shape)
  /\ \A c \in Coordinates(shape) : data[RowMajor(shape, c)] = f[c]

LEMMA TrailHasAll ==
  ASSUME NEW shape \in Seq(Nat), NEW t, IsTrail(shape, t), Len(t) = Count(shape)
  PROVE  /\ DOMAIN t = 1..Count(shape)
         /\ \A c \in Coordinates(shape) : t[RowMajor(shape, c)] = c
         /\ \A k \in 1..Count(shape) : t[k] \in Coordinates(shape) /\ RowMajor(shape, t[k]) = k
<1> DEFINE N == Count(shape)
<1>1. DOMAIN t = 1..N /\ \A k \in 1..N : t[k] \in Coordinates(shape) /\ RowMajor(shape, t[k]) = k
  BY DEF IsTrail
<1>2. ASSUME NEW c \in Coordinates(shape) PROVE t[RowMajor(shape, c)] = c
  <2> DEFINE k == RowMajor(shape, c)
  <2>1. k \in 1..N
    BY PlaceFits
  <2>2. t[k] \in Coordinates(shape) /\ RowMajor(shape, t[k]) = RowMajor(shape, c)
    BY <1>1, <2>1
  <2>3. QED
    BY <2>2, PlacesDiffer
<1>3. QED
  BY <1>1, <1>2

LEMMA DensataIs ==
  ASSUME NEW s, s.shape \in Seq(Nat)
  PROVE  IsDenseOf(push_dense_values(s), s.shape,
                   [c \in Coordinates(s.shape) |-> accipe(s, c)])
<1> DEFINE shape == s.shape
           N == Count(shape)
           t == Trail(shape, N + 1)
           data == push_dense_values(s)
           f == [c \in Coordinates(shape) |-> accipe(s, c)]
<1>1. CASE ~NoEmptyAxis(shape)
  <2>1. N = 0 /\ Coordinates(shape) = {} /\ 0 \in Range(shape)
    BY <1>1, EmptyAxis
  <2>2. data = <<>> /\ Len(<<>>) = 0
    BY <2>1 DEF push_dense_values
  <2>3. QED
    BY <2>1, <2>2 DEF IsDenseOf
<1>2. CASE NoEmptyAxis(shape)
  <2>1. N \in Nat \ {0}
    BY <1>2, FirstPlace
  <2>2. N + 1 \in Nat \ {0} /\ ~(N + 1 <= N)
    BY <2>1
  <2>3. IsTrail(shape, t) /\ Len(t) = N
    <3> HIDE DEF shape
    <3>1. QED
      BY <1>2, <2>2, TrailIs
  <2>4. /\ DOMAIN t = 1..N /\ \A c \in Coordinates(shape) : t[RowMajor(shape, c)] = c
    BY <2>3, TrailHasAll
  <2>5. 0 \notin Range(shape)
    <3>1. DOMAIN shape = 1..Len(shape) /\ \A i \in 1..Len(shape) : shape[i] # 0
      BY <1>2 DEF NoEmptyAxis
    <3> HIDE DEF shape
    <3>2. QED
      BY <3>1 DEF Range
  <2>6. data = [k \in DOMAIN t |-> accipe(s, t[k])]
    BY <2>5 DEF push_dense_values
  <2> HIDE DEF t, data
  <2>7. data = [k \in 1..N |-> accipe(s, t[k])]
    BY <2>4, <2>6
  <2>8. data = [k \in 1..N |-> data[k]] /\ \A k \in 1..N : data[k] = accipe(s, t[k])
    BY <2>7
  <2>9. Len(data) = N
    <3> HIDE DEF N
    <3>1. QED
      BY ONLY <2>1, <2>8, ListOf
  <2>10. ASSUME NEW c \in Coordinates(shape) PROVE data[RowMajor(shape, c)] = f[c]
    <3>1. RowMajor(shape, c) \in 1..N
      BY PlaceFits
    <3>2. QED
      BY <2>4, <2>8, <3>1
  <2> HIDE DEF f
  <2>11. QED
    BY <2>9, <2>10 DEF IsDenseOf, data, f
<1>3. QED
  BY <1>1, <1>2

(* The entries of a dense tensor: what differs from the default. *)
Differing(f) == {c \in DOMAIN f : ~Same(f[c], Default)}
EntriesOf(f) == [c \in Differing(f) |-> f[c]]

LEMMA FromTensorIs ==
  ASSUME NEW shape \in Seq(Nat), NEW data, NEW f, DOMAIN f = Coordinates(shape),
         IsDenseOf(data, shape, f)
  PROVE  from_tensor([shape |-> shape, data |-> data]) =
           [shape |-> shape, entries |-> EntriesOf(f)]
<1> DEFINE N == Count(shape)
           C == Coordinates(shape)
           d == [shape |-> shape, data |-> data]
           t == Trail(shape, N)
           kept == {k \in DOMAIN t : ~Same(data[k], Default)}
           places == {t[k] : k \in kept}
           entries == [c \in places |-> data[CHOOSE k \in kept : t[k] = c]]
<1>1. d.shape = shape /\ d.data = data /\ Len(data) = N
  BY DEF IsDenseOf
<1>2. from_tensor(d) = [shape |-> shape, entries |-> entries]
  BY <1>1 DEF from_tensor
<1>3. CASE ~NoEmptyAxis(shape)
  <2>1. N = 0 /\ C = {}
    BY <1>3, EmptyAxis
  <2>2. t = <<>>
    BY <2>1 DEF Trail
  <2>3. kept = {} /\ places = {}
    BY <2>2
  <2>4. Differing(f) = {}
    BY <2>1 DEF Differing
  <2> HIDE DEF places, kept, t
  <2>5. entries = EntriesOf(f)
    BY <2>3, <2>4 DEF EntriesOf
  <2>6. QED
    BY <1>2, <2>5
<1>4. CASE NoEmptyAxis(shape)
  <2>1. N \in Nat \ {0} /\ N <= N
    BY <1>4, FirstPlace
  <2>2. IsTrail(shape, t) /\ Len(t) = N
    BY <1>4, <2>1, TrailIs
  <2>3. /\ DOMAIN t = 1..N /\ \A c \in C : t[RowMajor(shape, c)] = c
        /\ \A k \in 1..N : t[k] \in C /\ RowMajor(shape, t[k]) = k
    BY <2>2, TrailHasAll
  <2>4. \A c \in C : RowMajor(shape, c) \in 1..N /\ data[RowMajor(shape, c)] = f[c]
    BY PlaceFits DEF IsDenseOf
  <2> HIDE DEF t, N, C
  <2>5. \A k \in 1..N : data[k] = f[t[k]]
    BY <2>3, <2>4
  <2>6. ASSUME NEW c \in Differing(f)
        PROVE  c \in C /\ RowMajor(shape, c) \in kept /\ t[RowMajor(shape, c)] = c
    <3>1. c \in C /\ ~Same(f[c], Default)
      BY DEF Differing, C
    <3>2. QED
      BY <2>3, <2>4, <3>1
  <2>7. ASSUME NEW k \in kept PROVE t[k] \in Differing(f)
    <3>1. k \in 1..N /\ ~Same(data[k], Default)
      BY <2>3
    <3>2. t[k] \in C /\ ~Same(f[t[k]], Default)
      BY <2>3, <2>5, <3>1
    <3>3. QED
      BY <3>2 DEF Differing, C
  <2>8. places = Differing(f)
    BY <2>6, <2>7
  <2>9. ASSUME NEW c \in Differing(f)
        PROVE  data[CHOOSE k \in kept : t[k] = c] = f[c]
    <3>1. \A k \in kept : t[k] = c => k = RowMajor(shape, c)
      BY <2>3
    <3>2. RowMajor(shape, c) \in kept /\ t[RowMajor(shape, c)] = c
      BY <2>6
    <3> HIDE DEF kept
    <3>3. (CHOOSE k \in kept : t[k] = c) = RowMajor(shape, c)
      BY <3>1, <3>2
    <3>4. QED
      BY <2>4, <2>6, <3>3
  <2> HIDE DEF places
  <2>10. entries = EntriesOf(f)
    BY <2>8, <2>9 DEF EntriesOf
  <2>11. QED
    BY <1>2, <2>10
<1>5. QED
  BY <1>3, <1>4

(* The invariant: the entries are what was written and is not the default. *)
SparseInv ==
  /\ sparse.shape \in Seq(Nat) /\ dense \in [Coordinates(sparse.shape) -> Floats]
  /\ sparse = [shape |-> sparse.shape, entries |-> EntriesOf(dense)]

LEMMA ValidIs ==
  ASSUME NEW shape \in Seq(Nat), NEW c \in Seq(Int)
  PROVE  validate_indices(shape, c) <=> c \in Coordinates(shape)
<1>1. DOMAIN c = 1..Len(c) /\ Len(c) \in Nat /\ Len(shape) \in Nat /\ \A i \in 1..Len(c) : c[i] \in Int
  OBVIOUS
<1>2. c \in [1..Len(shape) -> Nat] => Len(c) = Len(shape)
  <2>1. c \in [1..Len(shape) -> Nat] => 1..Len(c) = 1..Len(shape)
    BY <1>1
  <2>2. 1..Len(c) = 1..Len(shape) => Len(c) = Len(shape)
    <3> DEFINE x == Len(c)
               y == Len(shape)
    <3> HIDE DEF x, y
    <3>1. ASSUME x \in Nat, y \in Nat, 1..x = 1..y PROVE x = y
      <4>1. CASE x < y
        <5>1. y \in 1..y /\ y \notin 1..x
          BY <3>1, <4>1
        <5>2. QED
          BY <3>1, <5>1
      <4>2. CASE y < x
        <5>1. x \in 1..x /\ x \notin 1..y
          BY <3>1, <4>2
        <5>2. QED
          BY <3>1, <5>1
      <4>3. QED
        BY <3>1, <4>1, <4>2
    <3>2. QED
      BY <1>1, <3>1 DEF x, y
  <2>3. QED
    BY <2>1, <2>2
<1>3. ASSUME validate_indices(shape, c)
      PROVE  c \in [1..Len(shape) -> Nat] /\ \A i \in 1..Len(shape) : c[i] < shape[i]
  BY <1>1, <1>3 DEF validate_indices
<1>4. ASSUME c \in [1..Len(shape) -> Nat], \A i \in 1..Len(shape) : c[i] < shape[i]
      PROVE  validate_indices(shape, c)
  BY <1>1, <1>2, <1>4 DEF validate_indices
<1>5. QED
  BY <1>3, <1>4, CoordinateType

LEMMA SuccessIs ==
  ASSUME NEW v
  PROVE  Success(v) # Refused /\ Success(v).value = v
<1>1. Success(v).status = "OK" /\ Refused.status = "INVALID_ARGUMENT" /\ Success(v).value = v
  BY DEF Success, Refused
<1>2. QED
  BY <1>1

LEMMA SparseStarts == ASSUME SparseInit PROVE SparseInv
<1>1. PICK shape \in SparseShapes :
         /\ sparse_new("F32", shape) # Refused /\ sparse = sparse_new("F32", shape).value
         /\ dense = [c \in Coordinates(shape) |-> Default]
  BY DEF SparseInit
<1>2. NonNegative(shape) /\ sparse = vacua(shape)
  BY <1>1, SuccessIs DEF sparse_new
<1>3. shape \in Seq(Int)
  BY SparseAssumption
<1>4. shape \in Seq(Nat)
  <2>1. shape \in [1..Len(shape) -> Int] /\ Len(shape) \in Nat /\ DOMAIN shape = 1..Len(shape)
    BY <1>3
  <2>2. \A i \in 1..Len(shape) : shape[i] \in Nat
    BY <1>2, <2>1 DEF NonNegative
  <2>3. QED
    BY <1>3, <2>1, <2>2
<1>5. sparse.shape = shape /\ sparse = [shape |-> shape, entries |-> <<>>]
  BY <1>2 DEF vacua
<1>6. dense \in [Coordinates(shape) -> Floats] /\ DOMAIN dense = Coordinates(shape)
      /\ \A c \in DOMAIN dense : dense[c] = Default
  BY <1>1 DEF Floats, Default
<1>7. Same(Default, Default)
  BY DEF Same, Default
<1>8. Differing(dense) = {}
  BY <1>6, <1>7 DEF Differing
<1>9. EntriesOf(dense) = <<>>
  BY <1>8 DEF EntriesOf
<1>10. QED
  BY <1>4, <1>5, <1>6, <1>9 DEF SparseInv

(* What is read is what was written, the default for what is the same. *)
LEMMA ReadsAre ==
  ASSUME SparseInv, NEW c \in DOMAIN dense
  PROVE  accipe(sparse, c) = IF Same(dense[c], Default) THEN Default ELSE dense[c]
<1>1. sparse.entries = EntriesOf(dense)
  BY DEF SparseInv
<1>2. QED
  BY <1>1 DEF accipe, Stored, EntriesOf, Differing

LEMMA RoundTrips ==
  ASSUME SparseInv
  PROVE  /\ sparse_densify(sparse) =
              IF CountOverflows(sparse.shape) THEN Refused ELSE Success(densata(sparse))
         /\ from_tensor(densata(sparse)) = sparse
<1> DEFINE shape == sparse.shape
           data == push_dense_values(sparse)
           f == [c \in Coordinates(shape) |-> accipe(sparse, c)]
<1>1. shape \in Seq(Nat) /\ DOMAIN dense = Coordinates(shape)
      /\ sparse = [shape |-> shape, entries |-> EntriesOf(dense)]
  BY DEF SparseInv
<1>2. IsDenseOf(data, shape, f)
  BY <1>1, DensataIs
<1>3. densata(sparse) = [shape |-> shape, data |-> data]
  BY DEF densata
<1>4. sparse_densify(sparse) =
        IF CountOverflows(sparse.shape) THEN Refused ELSE Success(densata(sparse))
  <2>1. Len(densata(sparse).data) = Count(densata(sparse).shape)
    BY <1>2, <1>3 DEF IsDenseOf
  <2>2. QED
    BY <2>1 DEF sparse_densify
<1>5. DOMAIN f = Coordinates(shape)
  OBVIOUS
<1>6. \A c \in DOMAIN dense : f[c] = IF Same(dense[c], Default) THEN Default ELSE dense[c]
  BY <1>1, ReadsAre
<1> HIDE DEF f, shape, data
<1>7. from_tensor([shape |-> shape, data |-> data]) = [shape |-> shape, entries |-> EntriesOf(f)]
  BY <1>1, <1>2, <1>5, FromTensorIs
<1>8. Same(Default, Default)
  BY DEF Same, Default
<1>9. Differing(f) = Differing(dense)
  BY <1>1, <1>5, <1>6, <1>8 DEF Differing
<1>10. \A c \in Differing(dense) : f[c] = dense[c]
  BY <1>6 DEF Differing
<1>11. EntriesOf(f) = EntriesOf(dense)
  BY <1>9, <1>10 DEF EntriesOf
<1>12. QED
  BY <1>1, <1>3, <1>4, <1>7, <1>11

LEMMA SparseSteps == ASSUME SparseInv, [SparseNext]_sparseVars PROVE SparseInv'
<1>1. CASE UNCHANGED sparseVars
  BY <1>1 DEF sparseVars, SparseInv
<1>2. CASE RoundTrip
  <2>1. sparse_from_tensor(densata(sparse), "F32", "F32").value = sparse
    BY RoundTrips, SuccessIs DEF sparse_from_tensor
  <2>2. sparse' = sparse /\ dense' = dense
    <3>1. \/ sparse_densify(sparse) = Refused
          \/ sparse_densify(sparse) # Refused /\ sparse_densify(sparse).value = densata(sparse)
      BY RoundTrips, SuccessIs
    <3>2. QED
      BY <1>2, <2>1, <3>1 DEF RoundTrip
  <2>3. QED
    BY <2>2 DEF SparseInv
<1>3. CASE WriteEntry
  <2> DEFINE shape == sparse.shape
             E == EntriesOf(dense)
  <2>1. PICK c \in Indices, v \in Floats, kind \in {"F32", "I64"} :
           LET set == sparse_set(sparse, "F32", c, kind, v)
           IN  /\ sparse' = (IF set = Refused THEN sparse ELSE set.value)
               /\ dense' = [x \in DOMAIN dense |-> IF kind = "F32" /\ x = c THEN v ELSE dense[x]]
    BY <1>3 DEF WriteEntry
  <2>2. c \in Seq(Int)
    BY SparseAssumption
  <2>3. /\ shape \in Seq(Nat) /\ dense \in [Coordinates(shape) -> Floats]
        /\ DOMAIN dense = Coordinates(shape)
        /\ sparse = [shape |-> shape, entries |-> E] /\ sparse.entries = E
    BY DEF SparseInv
  <2>4. validate_indices(shape, c) <=> c \in DOMAIN dense
    BY <2>2, <2>3, ValidIs
  <2>5. CASE kind = "F32" /\ c \in DOMAIN dense
    <3>1. sparse' = ponde_sparse(sparse, c, v)
      BY <2>1, <2>4, <2>5, SuccessIs DEF sparse_set
    <3>2. dense' = [x \in DOMAIN dense |-> IF x = c THEN v ELSE dense[x]]
      BY <2>1, <2>5
    <3>3. dense' \in [Coordinates(shape) -> Floats] /\ DOMAIN dense' = DOMAIN dense
          /\ \A x \in DOMAIN dense : dense'[x] = IF x = c THEN v ELSE dense[x]
      BY <2>3, <3>2
    <3> HIDE DEF shape, E
    <3>4. CASE Same(v, Default)
      <4>1. sparse' = [sparse EXCEPT !.entries = [x \in DOMAIN E \ {c} |-> E[x]]]
        BY <2>3, <3>1, <3>4 DEF ponde_sparse
      <4>2. Differing(dense') = Differing(dense) \ {c}
        BY <2>3, <2>5, <3>3, <3>4 DEF Differing
      <4>3. DOMAIN E = Differing(dense) /\ \A x \in Differing(dense) : E[x] = dense[x]
        BY DEF E, EntriesOf
      <4>4. \A x \in Differing(dense) \ {c} : dense'[x] = dense[x]
        BY <3>3 DEF Differing
      <4>5. [x \in DOMAIN E \ {c} |-> E[x]] = EntriesOf(dense')
        BY <4>2, <4>3, <4>4 DEF EntriesOf
      <4>6. sparse' = [shape |-> shape, entries |-> EntriesOf(dense')]
        BY <2>3, <4>1, <4>5
      <4>7. QED
        BY <2>3, <3>3, <4>6 DEF SparseInv
    <3>5. CASE ~Same(v, Default)
      <4>1. sparse' = [sparse EXCEPT !.entries = WithEntry(E, c, v)]
        BY <2>3, <3>1, <3>5 DEF ponde_sparse
      <4>2. Differing(dense') = Differing(dense) \cup {c}
        BY <2>3, <2>5, <3>3, <3>5 DEF Differing
      <4>3. DOMAIN E = Differing(dense) /\ \A x \in Differing(dense) : E[x] = dense[x]
        BY DEF E, EntriesOf
      <4>4. \A x \in Differing(dense) \cup {c} : dense'[x] = IF x = c THEN v ELSE dense[x]
        BY <2>5, <3>3 DEF Differing
      <4>5. WithEntry(E, c, v) = EntriesOf(dense')
        BY <4>2, <4>3, <4>4 DEF EntriesOf, WithEntry
      <4>6. sparse' = [shape |-> shape, entries |-> EntriesOf(dense')]
        BY <2>3, <4>1, <4>5
      <4>7. QED
        BY <2>3, <3>3, <4>6 DEF SparseInv
    <3>6. QED
      BY <3>4, <3>5
  <2>6. CASE ~(kind = "F32" /\ c \in DOMAIN dense)
    <3>1. sparse' = sparse
      BY <2>1, <2>4, <2>6 DEF sparse_set
    <3>2. dense' = [x \in DOMAIN dense |-> dense[x]]
      BY <2>1, <2>6
    <3>3. dense' = dense
      BY <2>3, <3>2
    <3>4. QED
      BY <3>1, <3>3 DEF SparseInv
  <2>7. QED
    BY <2>5, <2>6
<1>4. QED
  BY <1>1, <1>2, <1>3 DEF SparseNext

LEMMA DenseReads == SparseInv => SparseIsDense
<1> DEFINE shape == sparse.shape
           d == sparse_densify(sparse)
           data == push_dense_values(sparse)
           Reads(x, y) == Same(x, y) \/ (x = "NaN" /\ y = "NaN")
<1>1. SUFFICES ASSUME SparseInv PROVE SparseIsDense
  OBVIOUS
<1>2. /\ shape \in Seq(Nat) /\ DOMAIN dense = Coordinates(shape)
      /\ sparse.entries = EntriesOf(dense) /\ \A c \in DOMAIN dense : dense[c] \in Floats
  BY <1>1 DEF SparseInv
<1>3. sparse_nonzero(sparse).value = Cardinality({c \in DOMAIN dense : ~Same(dense[c], Default)})
  <2>1. Stored(sparse) = {c \in DOMAIN dense : ~Same(dense[c], Default)}
    BY <1>2 DEF Stored, EntriesOf, Differing
  <2>2. QED
    BY <2>1, SuccessIs DEF sparse_nonzero, nonnihil
<1>4. /\ d = Refused <=> CountOverflows(shape)
      /\ d # Refused => d.value = densata(sparse)
      /\ densata(sparse).data = data
  BY <1>1, RoundTrips, SuccessIs DEF densata
<1>5. IsDenseOf(data, shape, [c \in Coordinates(shape) |-> accipe(sparse, c)])
  BY <1>2, DensataIs
<1>6. ASSUME NEW c \in DOMAIN dense
      PROVE  Reads(accipe(sparse, c), dense[c]) /\ data[RowMajor(shape, c)] = accipe(sparse, c)
  <2>1. accipe(sparse, c) = IF Same(dense[c], Default) THEN Default ELSE dense[c]
    BY <1>1, ReadsAre
  <2>2. Reads(accipe(sparse, c), dense[c])
    BY <1>2, <2>1 DEF Same, Default, Floats
  <2>3. QED
    BY <1>2, <1>5, <2>2 DEF IsDenseOf
<1> HIDE DEF d, data, Reads
<1>7. ASSUME NEW c \in Indices, NEW kind \in {"F32", "I64"}
      PROVE  LET got == sparse_get(sparse, "F32", c, kind)
             IN  /\ got = Refused <=> kind # "F32" \/ c \notin DOMAIN dense
                 /\ got # Refused =>
                      /\ Reads(got.value, dense[c])
                      /\ d # Refused => Reads(d.value.data[RowMajor(shape, c)], dense[c])
                      /\ Len(c) = sparse_rank(sparse).value
  <2> DEFINE got == sparse_get(sparse, "F32", c, kind)
  <2>1. c \in Seq(Int)
    BY SparseAssumption
  <2>2. validate_indices(shape, c) <=> c \in DOMAIN dense
    BY <1>2, <2>1, ValidIs
  <2>3. got = IF kind = "F32" /\ c \in DOMAIN dense THEN Success(accipe(sparse, c)) ELSE Refused
    BY <2>2 DEF sparse_get
  <2> HIDE DEF got
  <2>4. got = Refused <=> kind # "F32" \/ c \notin DOMAIN dense
    BY <2>3, SuccessIs
  <2>5. ASSUME got # Refused
        PROVE  /\ Reads(got.value, dense[c])
               /\ d # Refused => Reads(d.value.data[RowMajor(shape, c)], dense[c])
               /\ Len(c) = sparse_rank(sparse).value
    <3>1. c \in DOMAIN dense /\ got.value = accipe(sparse, c)
      BY <2>3, <2>4, <2>5, SuccessIs
    <3>2. Len(c) = Len(shape)
      BY <2>2, <3>1 DEF validate_indices
    <3>3. sparse_rank(sparse).value = Len(shape)
      BY SuccessIs DEF sparse_rank
    <3>4. QED
      BY <1>4, <1>6, <3>1, <3>2, <3>3
  <2>6. QED
    BY <2>4, <2>5 DEF got
<1>8. QED
  BY <1>3, <1>4, <1>7 DEF SparseIsDense, d, Reads

(* A sparse tensor reads, counts and densifies as the dense one that was   *)
(* written, whatever its shape, the writes and the conversions; it does    *)
(* not densify only if its elements cannot be counted.                     *)
THEOREM SparseTensorsAreDense == SparseSpec => []SparseIsDense
<1>1. SparseInit => SparseInv
  BY SparseStarts
<1>2. SparseInv /\ [SparseNext]_sparseVars => SparseInv'
  BY SparseSteps
<1>3. SparseInv => SparseIsDense
  BY DenseReads
<1>4. QED
  BY <1>1, <1>2, <1>3, PTL DEF SparseSpec

-----------------------------------------------------------------------------
(* Tensor.  Volumes and offsets, axis by axis.                             *)
VolumeTo(shape, U) ==
  U = [k \in 0..Len(shape) |-> IF k = 0 THEN 1 ELSE U[k - 1] * shape[Len(shape) + 1 - k]]
StridedTo(index, strides, U) ==
  U = [n \in 0..Len(index) |-> IF n = 0 THEN 0 ELSE U[n - 1] + index[n] * strides[n]]

LEMMA VolumeIs ==
  ASSUME NEW shape \in Seq(Nat)
  PROVE  /\ Volume(shape, 0) = 1
         /\ \A n \in 1..Len(shape) :
              Volume(shape, n) = Volume(shape, n - 1) * shape[Len(shape) + 1 - n]
         /\ \A n \in 0..Len(shape) : Volume(shape, n) \in Nat
<1> DEFINE r == Len(shape)
           e(n) == shape[r + 1 - n]
           step == [n \in 1..r |-> [x \in Nat |-> x * e(n)]]
           g == CHOOSE U : VolumeTo(shape, U)
<1>1. r \in Nat /\ \A n \in 1..r : e(n) \in Nat
  OBVIOUS
<1>2. \A n : Volume(shape, n) = g[n]
  BY DEF Volume, VolumeTo
<1>3. \E U : VolumeTo(shape, U)
  <2>1. step \in [1..r -> [Nat -> Nat]]
    BY <1>1
  <2>2. ASSUME NEW n \in 1..r, NEW x \in Nat PROVE step[n][x] = x * e(n)
    OBVIOUS
  <2> HIDE DEF step, r
  <2>3. PICK U \in [0..r -> Nat] : Follows(U, step, 1, r)
    BY <1>1, <2>1, FoldExists
  <2>4. ASSUME NEW n \in 0..r PROVE U[n] = IF n = 0 THEN 1 ELSE U[n - 1] * e(n)
    <3>1. CASE n = 0
      BY <2>3, <3>1 DEF Follows
    <3>2. CASE n # 0
      <4>1. n \in 1..r /\ n - 1 \in 0..r
        BY <1>1, <3>2
      <4>2. U[n] = step[n][U[n - 1]] /\ U[n - 1] \in Nat
        BY <2>3, <4>1 DEF Follows
      <4>3. QED
        BY <2>2, <3>2, <4>1, <4>2
    <3>3. QED
      BY <3>1, <3>2
  <2>5. U = [n \in 0..r |-> U[n]]
    OBVIOUS
  <2>6. QED
    BY <2>4, <2>5 DEF VolumeTo, r
<1>4. VolumeTo(shape, g)
  BY <1>3
<1> HIDE DEF g
<1>5. g[0] = 1 /\ \A n \in 1..r : g[n] = g[n - 1] * e(n)
  <2>1. \A n \in 0..r : g[n] = IF n = 0 THEN 1 ELSE g[n - 1] * e(n)
    BY <1>4 DEF VolumeTo
  <2> HIDE DEF r, e
  <2>2. QED
    BY <1>1, <2>1
<1>6. \A n \in 0..r : g[n] \in Nat
  <2> DEFINE T == {n \in 0..r : g[n] \in Nat}
  <2> HIDE DEF r, e
  <2>1. 0 \in T
    BY <1>1, <1>5
  <2>2. ASSUME NEW n \in 0..(r - 1), n \in T PROVE n + 1 \in T
    <3>1. n + 1 \in 1..r /\ (n + 1) - 1 = n /\ n + 1 \in 0..r
      BY <1>1
    <3>2. g[n + 1] = g[n] * e(n + 1) /\ e(n + 1) \in Nat /\ g[n] \in Nat
      BY <1>1, <1>5, <2>2, <3>1
    <3>3. g[n + 1] \in Nat
      BY <3>2
    <3>4. QED
      BY <3>1, <3>3
  <2> HIDE DEF T
  <2>3. \A n \in 0..r : n \in T
    BY <1>1, <2>1, <2>2, UpTo
  <2>4. QED
    BY <2>3 DEF T
<1>7. QED
  BY <1>2, <1>5, <1>6

LEMMA StridedIs ==
  ASSUME NEW r \in Nat, NEW index \in [1..r -> Nat], NEW strides \in [1..r -> Nat]
  PROVE  \E H \in [0..r -> Nat] :
           /\ H[0] = 0 /\ \A n \in 1..r : H[n] = H[n - 1] + index[n] * strides[n]
           /\ Strided(index, strides) = H[r]
<1> DEFINE t(n) == index[n] * strides[n]
           step == [n \in 1..r |-> [x \in Nat |-> x + t(n)]]
           g == CHOOSE U : StridedTo(index, strides, U)
<1>1. \A n \in 1..r : t(n) \in Nat
  <2>1. ASSUME NEW x \in Nat, NEW y \in Nat PROVE x * y \in Nat
    OBVIOUS
  <2>2. \A n \in 1..r : index[n] \in Nat /\ strides[n] \in Nat
    OBVIOUS
  <2>3. QED
    BY <2>1, <2>2
<1>2. Len(index) = r
  <2>1. index = [i \in 1..r |-> index[i]]
    OBVIOUS
  <2>2. QED
    BY <2>1, ListOf
<1>3. Strided(index, strides) = g[r]
  BY <1>2 DEF Strided, StridedTo
<1>4. \E U \in [0..r -> Nat] : /\ StridedTo(index, strides, U)
  <2>1. step \in [1..r -> [Nat -> Nat]]
    BY <1>1
  <2>2. ASSUME NEW n \in 1..r, NEW x \in Nat PROVE step[n][x] = x + t(n)
    OBVIOUS
  <2> HIDE DEF step
  <2>3. PICK U \in [0..r -> Nat] : Follows(U, step, 0, r)
    BY <2>1, FoldExists
  <2>4. ASSUME NEW n \in 0..r PROVE U[n] = IF n = 0 THEN 0 ELSE U[n - 1] + t(n)
    <3>1. CASE n = 0
      BY <2>3, <3>1 DEF Follows
    <3>2. CASE n # 0
      <4>1. n \in 1..r /\ n - 1 \in 0..r
        BY <3>2
      <4>2. U[n] = step[n][U[n - 1]] /\ U[n - 1] \in Nat
        BY <2>3, <4>1 DEF Follows
      <4>3. QED
        BY <2>2, <3>2, <4>1, <4>2
    <3>3. QED
      BY <3>1, <3>2
  <2>5. U = [n \in 0..r |-> U[n]]
    OBVIOUS
  <2>6. StridedTo(index, strides, U)
    BY <1>2, <2>4, <2>5 DEF StridedTo
  <2>7. QED
    BY <2>6
<1>5. StridedTo(index, strides, g)
  BY <1>4
<1> HIDE DEF g
<1>6. g[0] = 0 /\ \A n \in 1..r : g[n] = g[n - 1] + t(n)
  <2>1. \A n \in 0..r : g[n] = IF n = 0 THEN 0 ELSE g[n - 1] + t(n)
    BY <1>2, <1>5 DEF StridedTo
  <2> HIDE DEF t
  <2>2. QED
    BY <2>1
<1>7. \A n \in 0..r : g[n] \in Nat
  <2> DEFINE T == {n \in 0..r : g[n] \in Nat}
  <2> HIDE DEF t
  <2>1. 0 \in T
    BY <1>6
  <2>2. ASSUME NEW n \in 0..(r - 1), n \in T PROVE n + 1 \in T
    <3>1. n + 1 \in 1..r /\ (n + 1) - 1 = n /\ n + 1 \in 0..r
      OBVIOUS
    <3>2. g[n + 1] = g[n] + t(n + 1) /\ t(n + 1) \in Nat /\ g[n] \in Nat
      BY <1>1, <1>6, <2>2, <3>1
    <3>3. g[n + 1] \in Nat
      BY <3>2
    <3>4. QED
      BY <3>1, <3>3
  <2> HIDE DEF T
  <2>3. \A n \in 0..r : n \in T
    BY <2>1, <2>2, UpTo
  <2>4. QED
    BY <2>3 DEF T
<1>8. g = [n \in 0..r |-> g[n]]
  <2>1. DOMAIN g = 0..r
    BY <1>2, <1>5 DEF StridedTo
  <2>2. g = [n \in 0..r |-> IF n = 0 THEN 0 ELSE g[n - 1] + t(n)]
    BY <1>2, <1>5 DEF StridedTo
  <2> HIDE DEF t
  <2>3. QED
    BY <2>1, <2>2
<1>9. g \in [0..r -> Nat]
  BY <1>7, <1>8
<1>10. QED
  BY <1>3, <1>6, <1>9

(* The digits of a number to two bases are those to their product.         *)
LEMMA DigitsAndRest ==
  ASSUME NEW k \in Nat, NEW a \in Nat \ {0}, NEW b \in Nat \ {0}
  PROVE  k % (b * a) = ((k \div a) % b) * a + (k % a)
<1> DEFINE q == k \div a
           s == k % a
           u == q \div b
           v == q % b
           m == b * a
<1>1. q \in Nat /\ s \in 0..(a - 1) /\ k = q * a + s
  BY SMTT(30)
<1>2. u \in Nat /\ v \in 0..(b - 1) /\ q = u * b + v
  <2> HIDE DEF q
  <2>1. QED
    BY <1>1, SMTT(30)
<1> HIDE DEF q, s, u, v
<1>3. q * a = u * m + v * a
  <2>1. \A x, y, z, w \in Nat : (x * y + z) * w = x * (y * w) + z * w
    BY SMTT(30)
  <2>2. q * a = (u * b + v) * a
    BY <1>2
  <2>3. QED
    BY <1>2, <2>1, <2>2
<1>4. v * a + s \in 0..(m - 1)
  <2>1. v * a \in Nat /\ m \in Nat
    BY <1>2
  <2>2. (v + 1) * a <= m
    BY <1>2, SMTT(30)
  <2>3. (v + 1) * a = v * a + a
    BY <1>2
  <2> HIDE DEF m
  <2>4. QED
    BY <1>1, <2>1, <2>2, <2>3
<1>5. m \in Nat \ {0} /\ u * m \in Nat /\ v * a \in Nat
  BY <1>2
<1>6. k = u * m + (v * a + s)
  <2> HIDE DEF m
  <2>1. QED
    BY <1>1, <1>3, <1>5
<1>7. k % m = v * a + s
  <2> DEFINE z == v * a + s
  <2>1. z \in 0..(m - 1) /\ k = u * m + z
    BY <1>4, <1>6
  <2> HIDE DEF z, m
  <2>2. k % m = z
    BY <1>2, <1>5, <2>1, SMTT(30)
  <2>3. QED
    BY <2>2 DEF z
<1>8. QED
  BY <1>7 DEF q, s, v, m

LEMMA SmallRest ==
  ASSUME NEW a \in Nat \ {0}, NEW k \in 0..(a - 1)
  PROVE  k % a = k
OBVIOUS

LEMMA StridesAre ==
  ASSUME NEW shape \in Seq(Nat)
  PROVE  /\ row_major_strides(shape) \in [1..Len(shape) -> Nat]
         /\ \A i \in 1..Len(shape) : row_major_strides(shape)[i] = Volume(shape, Len(shape) - i)
<1>1. DOMAIN shape = 1..Len(shape) /\ Len(shape) \in Nat
  OBVIOUS
<1>2. \A n \in 0..Len(shape) : Volume(shape, n) \in Nat
  BY VolumeIs
<1>3. \A i \in 1..Len(shape) : Len(shape) - i \in 0..Len(shape)
  BY <1>1
<1>4. QED
  BY <1>1, <1>2, <1>3 DEF row_major_strides

(* The k-th index of a shape lies k elements behind the first.             *)
LEMMA PlaceOfOrdinal ==
  ASSUME NEW shape \in Seq(Nat), NEW k \in 0..(Product(shape) - 1)
  PROVE  Strided(unravel_index(k, shape), row_major_strides(shape)) = k
<1> DEFINE r == Len(shape)
           V(n) == Volume(shape, n)
           S == row_major_strides(shape)
           x == unravel_index(k, shape)
<1>1. r \in Nat /\ DOMAIN shape = 1..r /\ \A i \in 1..r : shape[i] \in Nat
  OBVIOUS
<1>2. /\ V(0) = 1 /\ \A n \in 1..r : V(n) = V(n - 1) * shape[r + 1 - n]
      /\ \A n \in 0..r : V(n) \in Nat
  BY VolumeIs
<1>3. S \in [1..r -> Nat] /\ \A i \in 1..r : S[i] = V(r - i)
  BY StridesAre
<1>4. V(r) = Product(shape) /\ k \in Nat
  BY <1>1, <1>2 DEF Product
<1>5. x = [i \in 1..r |-> (k \div V(r - i)) % shape[i]]
  <2>1. x = [i \in 1..r |-> (k \div S[i]) % shape[i]]
    BY <1>1 DEF unravel_index
  <2> HIDE DEF x, S, V
  <2>2. QED
    BY <1>3, <2>1
<1> HIDE DEF V, S, x, r
(* No axis that matters is empty. *)
<1>6. \A n \in 0..r : V(r - n) \in Nat \ {0}
  <2> DEFINE T == {n \in 0..r : V(r - n) \in Nat \ {0}}
  <2>1. 0 \in T
    BY <1>1, <1>2, <1>4
  <2>2. ASSUME NEW n \in 0..(r - 1), n \in T PROVE n + 1 \in T
    <3> DEFINE m == r - n
    <3>1. m \in 1..r /\ m - 1 = r - (n + 1) /\ m - 1 \in 0..r /\ r + 1 - m \in 1..r
          /\ n + 1 \in 0..r
      BY <1>1
    <3>2. V(m) # 0
      BY <2>2
    <3> HIDE DEF m
    <3>3. V(m) = V(m - 1) * shape[r + 1 - m] /\ V(m - 1) \in Nat /\ shape[r + 1 - m] \in Nat
      BY <1>1, <1>2, <3>1
    <3>4. V(m - 1) # 0
      BY <3>2, <3>3
    <3>5. QED
      BY <3>1, <3>3, <3>4
  <2> HIDE DEF T
  <2>3. \A n \in 0..r : n \in T
    BY <1>1, <2>1, <2>2, UpTo
  <2>4. QED
    BY <2>3 DEF T
<1>7. ASSUME NEW i \in 1..r
      PROVE  /\ V(r - i) \in Nat \ {0} /\ shape[i] \in Nat \ {0}
             /\ V(r - (i - 1)) = shape[i] * V(r - i)
  <2> DEFINE m == r - (i - 1)
  <2>1. m \in 1..r /\ m - 1 = r - i /\ r + 1 - m = i /\ i \in 0..r /\ i - 1 \in 0..r
    BY <1>1
  <2>2. V(m) \in Nat \ {0} /\ V(r - i) \in Nat \ {0}
    BY <1>6, <2>1
  <2> HIDE DEF m
  <2>3. V(m) = V(m - 1) * shape[r + 1 - m]
    BY <1>2, <2>1
  <2>4. V(m) = V(r - i) * shape[i] /\ shape[i] \in Nat
    BY <1>1, <2>1, <2>3
  <2>5. V(m) = shape[i] * V(r - i) /\ shape[i] # 0
    BY <2>2, <2>4
  <2>6. QED
    BY <2>2, <2>4, <2>5 DEF m
<1>8. x \in [1..r -> Nat]
  <2>1. ASSUME NEW i \in 1..r PROVE (k \div V(r - i)) % shape[i] \in Nat
    <3> DEFINE a == V(r - i)
               b == shape[i]
               q == k \div a
    <3>1. a \in Nat \ {0} /\ b \in Nat \ {0}
      BY <1>7
    <3> HIDE DEF a, b
    <3>2. q \in Nat
      BY <1>4, <3>1, SMTT(30)
    <3> HIDE DEF q
    <3>3. q % b \in Nat
      BY <3>1, <3>2
    <3>4. QED
      BY <3>3 DEF a, b, q
  <2>2. QED
    BY <1>5, <2>1
<1>9. PICK H \in [0..r -> Nat] :
        /\ H[0] = 0 /\ \A n \in 1..r : H[n] = H[n - 1] + x[n] * S[n]
        /\ Strided(x, S) = H[r]
  BY <1>1, <1>3, <1>8, StridedIs
<1> DEFINE T == {n \in 0..r : H[n] + (k % V(r - n)) = k}
<1>10. 0 \in T
  <2>1. r - 0 = r /\ 0 \in 0..r
    BY <1>1
  <2>2. V(r) \in Nat \ {0} /\ V(r - 0) = V(r)
    BY <1>6, <2>1
  <2> DEFINE v == V(r)
  <2>3. k \in 0..(v - 1) /\ v \in Nat \ {0} /\ V(r - 0) = v
    BY <1>4, <2>2
  <2> HIDE DEF v
  <2>4. k % v = k
    BY <2>3, SmallRest
  <2>5. QED
    BY <1>4, <1>9, <2>1, <2>3, <2>4
<1>11. ASSUME NEW n \in 0..(r - 1), n \in T PROVE n + 1 \in T
  <2> DEFINE i == n + 1
             a == V(r - i)
             b == shape[i]
             d == (k \div a) % b
  <2>1. i \in 1..r /\ i - 1 = n /\ i \in 0..r /\ n \in 0..r
    BY <1>1
  <2>2. a \in Nat \ {0} /\ b \in Nat \ {0} /\ V(r - n) = b * a
    BY <1>7, <2>1
  <2>3. H[n] + (k % (b * a)) = k
    BY <1>11, <2>2
  <2>4. H[i] = H[n] + d * a
    BY <1>3, <1>5, <1>9, <2>1
  <2>5. H[n] \in Nat /\ H[i] \in Nat /\ x[i] = d /\ x[i] \in Nat
    BY <1>5, <1>8, <1>9, <2>1
  <2> HIDE DEF i, a, b
  <2>6. k % (b * a) = d * a + (k % a)
    BY <1>4, <2>2, DigitsAndRest
  <2>7. d * a \in Nat /\ k % a \in Nat
    <3> HIDE DEF d
    <3>1. QED
      BY <1>4, <2>2, <2>5
  <2> HIDE DEF d
  <2>8. H[i] + (k % a) = k
    BY <2>3, <2>4, <2>5, <2>6, <2>7
  <2>9. QED
    BY <2>1, <2>8 DEF i, a
<1>12. r \in T
  <2> HIDE DEF T
  <2>1. \A n \in 0..r : n \in T
    BY <1>1, <1>10, <1>11, UpTo
  <2>2. QED
    BY <1>1, <2>1
<1>13. H[r] + (k % V(0)) = k /\ k % V(0) = 0 /\ H[r] \in Nat
  <2>1. r - r = 0 /\ r \in 0..r
    BY <1>1
  <2>2. H[r] + (k % V(0)) = k
    BY <1>12, <2>1
  <2>3. k % V(0) = 0
    BY <1>2, <1>4
  <2>4. QED
    BY <2>1, <2>2, <2>3
<1>14. Strided(x, S) = k
  BY <1>9, <1>13
<1>15. QED
  BY <1>14 DEF x, S

-----------------------------------------------------------------------------
(* Dense records and descriptors.                                          *)
IsList(s) == Len(s) \in Nat /\ s = [i \in 1..Len(s) |-> s[i]]

(* What structa accepts, and every kernel returns. *)
Solid(d) ==
  /\ d = [shape |-> d.shape, data |-> d.data]
  /\ d.shape \in Seq(Nat) /\ IsList(d.data) /\ Len(d.data) = Product(d.shape)

Descriptor == [buf : Nat, shape : Seq(Nat), strides : Seq(Nat), offset : Nat, view : BOOLEAN]

(* A descriptor, through whatever views, covers a range of its buffer. *)
Covers(t, h) ==
  /\ t \in Descriptor /\ t.buf \in 1..Len(h)
  /\ t.strides = row_major_strides(t.shape)
  /\ t.offset + Product(t.shape) <= Len(h[t.buf])

LEMMA ProductType == ASSUME NEW shape \in Seq(Nat) PROVE Product(shape) \in Nat
<1>1. Len(shape) \in 0..Len(shape)
  OBVIOUS
<1>2. QED
  BY <1>1, VolumeIs DEF Product

LEMMA ListFacts ==
  ASSUME NEW n \in Nat, NEW f, f = [i \in 1..n |-> f[i]]
  PROVE  IsList(f) /\ Len(f) = n /\ DOMAIN f = 1..n /\ Computed(f) = f
<1> DEFINE S == {f[i] : i \in 1..n}
<1>1. f \in Seq(S) /\ Len(f) = n
  BY ListOf
<1> HIDE DEF S
<1>2. f \o <<>> = f
  BY <1>1
<1>3. IsList(f)
  BY <1>1 DEF IsList
<1>4. QED
  BY <1>1, <1>2, <1>3 DEF Computed

LEMMA DenseIs ==
  ASSUME NEW shape \in Seq(Nat), NEW f, f = [k \in 1..Product(shape) |-> f[k]]
  PROVE  /\ Dense(shape, f) = [shape |-> shape, data |-> f]
         /\ Solid(Dense(shape, f))
<1>1. IsList(f) /\ Len(f) = Product(shape) /\ Computed(f) = f
  BY ProductType, ListFacts
<1>2. QED
  BY <1>1 DEF Dense, Solid

LEMMA OffsetsAre ==
  ASSUME NEW t \in Descriptor, t.strides = row_major_strides(t.shape)
  PROVE  logical_offsets(t) = [k \in 1..Product(t.shape) |-> t.offset + (k - 1)]
<1>1. t.shape \in Seq(Nat) /\ Product(t.shape) \in Nat
  BY ProductType DEF Descriptor
<1>2. ASSUME NEW k \in 1..Product(t.shape)
      PROVE  logical_offset_for_index(t, unravel_index(k - 1, t.shape)) = t.offset + (k - 1)
  <2>1. k - 1 \in 0..(Product(t.shape) - 1)
    BY <1>1
  <2>2. QED
    BY <1>1, <2>1, PlaceOfOrdinal DEF logical_offset_for_index
<1>3. QED
  BY <1>2 DEF logical_offsets

(* A descriptor of a whole buffer reads what is in it.                     *)
LEMMA ReadIs ==
  ASSUME NEW h, NEW t, Covers(t, h), t.offset = 0, IsList(h[t.buf]),
         Len(h[t.buf]) = Product(t.shape)
  PROVE  /\ Read(h, t) = [shape |-> t.shape, data |-> h[t.buf]]
         /\ Solid(Read(h, t))
<1> DEFINE n == Product(t.shape)
           s == h[t.buf]
<1>1. t \in Descriptor /\ t.shape \in Seq(Nat) /\ n \in Nat
  BY ProductType DEF Covers, Descriptor
<1>2. logical_offsets(t) = [k \in 1..n |-> 0 + (k - 1)]
  BY <1>1, OffsetsAre DEF Covers
<1>3. s = [k \in 1..n |-> s[k]]
  BY DEF IsList
<1>4. planata(h, t) = [k \in 1..n |-> s[logical_offsets(t)[k] + 1]]
  BY DEF planata
<1> HIDE DEF n, s
<1>5. \A k \in 1..n : logical_offsets(t)[k] + 1 = k
  BY <1>1, <1>2
<1>6. planata(h, t) = [k \in 1..n |-> s[k]]
  BY <1>4, <1>5
<1>7. planata(h, t) = s
  BY <1>3, <1>6
<1>8. QED
  BY <1>1, <1>3, <1>7, DenseIs DEF Read, n, s

LEMMA InBounds ==
  ASSUME NEW h, NEW t, Covers(t, h), Len(h[t.buf]) \in Nat
  PROVE  \A o \in Range(logical_offsets(t)) : o \in 0..(Len(h[t.buf]) - 1)
<1> DEFINE n == Product(t.shape)
<1>1. t \in Descriptor /\ t.offset \in Nat /\ n \in Nat
  BY ProductType DEF Covers, Descriptor
<1>2. logical_offsets(t) = [k \in 1..n |-> t.offset + (k - 1)]
  BY <1>1, OffsetsAre DEF Covers
<1>3. t.offset + n <= Len(h[t.buf])
  BY DEF Covers
<1> HIDE DEF n
<1>4. Range(logical_offsets(t)) = {t.offset + (k - 1) : k \in 1..n}
  BY <1>2 DEF Range
<1>5. QED
  BY <1>1, <1>3, <1>4

(* A first axis of another length leaves the strides as they are.          *)
LEMMA FirstAxis ==
  ASSUME NEW shape \in Seq(Nat), shape # <<>>, NEW w \in Nat
  PROVE  LET cut == [shape EXCEPT ![1] = w]
             v == row_major_strides(shape)[1]
         IN  /\ cut \in Seq(Nat) /\ v \in Nat
             /\ Product(shape) = v * shape[1] /\ Product(cut) = v * w
             /\ row_major_strides(cut) = row_major_strides(shape)
<1> DEFINE r == Len(shape)
           cut == [shape EXCEPT ![1] = w]
<1>2. r \in Nat \ {0} /\ shape[1] \in Nat
  OBVIOUS
<1>4. cut \in Seq(Nat) /\ Len(cut) = r /\ cut[1] = w /\ \A i \in 2..r : cut[i] = shape[i]
  BY <1>2
<1>6. /\ Volume(shape, 0) = 1 /\ Volume(cut, 0) = 1
      /\ \A n \in 1..r : Volume(shape, n) = Volume(shape, n - 1) * shape[r + 1 - n]
      /\ \A n \in 1..r : Volume(cut, n) = Volume(cut, n - 1) * cut[r + 1 - n]
      /\ \A n \in 0..r : Volume(shape, n) \in Nat /\ Volume(cut, n) \in Nat
  <2> HIDE DEF cut
  <2>1. QED
    BY <1>4, VolumeIs DEF r
<1> HIDE DEF cut, r
<1>7. \A n \in 0..(r - 1) : Volume(cut, n) = Volume(shape, n)
  <2> DEFINE T == {n \in 0..(r - 1) : Volume(cut, n) = Volume(shape, n)}
             N == r - 1
  <2>1. N \in Nat /\ 0 \in T
    BY <1>2, <1>6
  <2>2. ASSUME NEW n \in 0..(N - 1), n \in T PROVE n + 1 \in T
    <3>1. n + 1 \in 1..r /\ (n + 1) - 1 = n /\ r + 1 - (n + 1) \in 2..r /\ n + 1 \in 0..(r - 1)
      BY <1>2
    <3>2. cut[r + 1 - (n + 1)] = shape[r + 1 - (n + 1)] /\ Volume(cut, n) = Volume(shape, n)
      BY <1>4, <2>2, <3>1
    <3>3. Volume(cut, n + 1) = Volume(shape, n + 1)
      BY <1>6, <3>1, <3>2
    <3>4. QED
      BY <3>1, <3>3
  <2> HIDE DEF T
  <2>3. \A n \in 0..N : n \in T
    <3> HIDE DEF N
    <3>1. QED
      BY <2>1, <2>2, UpTo
  <2>4. QED
    BY <2>3 DEF T
<1> DEFINE v == Volume(shape, r - 1)
<1>8. r - 1 \in 0..r /\ r - 1 \in 0..(r - 1) /\ r \in 1..r /\ r + 1 - r = 1
      /\ 1 \in 1..r
  BY <1>2
<1>9. v \in Nat /\ Volume(cut, r - 1) = v
  BY <1>6, <1>7, <1>8
<1>10. Product(shape) = v * shape[1] /\ Product(cut) = v * w
  <2>1. Volume(shape, r) = v * shape[1] /\ Volume(cut, r) = v * cut[1]
    BY <1>6, <1>8, <1>9
  <2>2. QED
    BY <1>4, <2>1 DEF Product, r
<1>11. row_major_strides(cut) = row_major_strides(shape) /\ row_major_strides(shape)[1] = v
  <2>1. DOMAIN shape = 1..r /\ DOMAIN cut = 1..r
    BY <1>4 DEF r
  <2>2. \A i \in 1..r : r - i \in 0..(r - 1)
    BY <1>2
  <2>3. \A i \in 1..r : Volume(cut, r - i) = Volume(shape, r - i)
    BY <1>7, <2>2
  <2>4. /\ row_major_strides(cut) = [i \in 1..r |-> Volume(cut, r - i)]
        /\ row_major_strides(shape) = [i \in 1..r |-> Volume(shape, r - i)]
    BY <1>4, <2>1 DEF row_major_strides, r
  <2>5. QED
    BY <1>8, <2>3, <2>4
<1>12. QED
  BY <1>4, <1>9, <1>10, <1>11 DEF cut

(* A view covers a part of what the descriptor covered.                    *)
LEMMA ViewCovers ==
  ASSUME NEW h, NEW t, Covers(t, h), Len(h[t.buf]) \in Nat,
         NEW start \in Int, NEW end \in Int, SectioOK(t, start, end)
  PROVE  Covers(sectio(t, start, end), h) /\ sectio(t, start, end).buf = t.buf
<1> DEFINE shape == t.shape
           r == Len(shape)
           w == end - start
           cut == [shape EXCEPT ![1] = w]
           u == sectio(t, start, end)
<1>1. t \in Descriptor /\ shape \in Seq(Nat) /\ t.offset \in Nat
  BY DEF Covers, Descriptor
<1>2. r \in Nat \ {0} /\ 0 <= start /\ start <= end /\ end <= shape[1] /\ shape[1] \in Nat
  <2>1. shape # <<>> /\ 0 <= start /\ start <= end /\ end <= shape[1]
    BY DEF SectioOK
  <2>2. QED
    BY <1>1, <2>1
<1>3. w \in Nat /\ end \in Nat /\ start \in Nat /\ start + w = end
  BY <1>2
<1>4. cut \in Seq(Nat) /\ Len(cut) = r /\ cut[1] = w /\ \A i \in 2..r : cut[i] = shape[i]
  BY <1>1, <1>2, <1>3
<1>5. u = [buf |-> t.buf, shape |-> cut, strides |-> t.strides,
           offset |-> t.offset + start * t.strides[1], view |-> TRUE]
  <2>1. t = [buf |-> t.buf, shape |-> shape, strides |-> t.strides,
             offset |-> t.offset, view |-> t.view]
    BY <1>1 DEF Descriptor
  <2>2. u = [[[t EXCEPT !.shape = cut] EXCEPT !.offset = t.offset + start * t.strides[1]]
               EXCEPT !.view = TRUE]
    BY <2>1 DEF sectio
  <2> HIDE DEF cut, shape, u
  <2>3. [t EXCEPT !.shape = cut]
        = [buf |-> t.buf, shape |-> cut, strides |-> t.strides,
           offset |-> t.offset, view |-> t.view]
    BY <2>1
  <2> DEFINE o == t.offset + start * t.strides[1]
  <2> HIDE DEF o
  <2>4. u = [buf |-> t.buf, shape |-> cut, strides |-> t.strides, offset |-> o, view |-> TRUE]
    BY <2>2, <2>3 DEF o
  <2>5. QED
    BY <2>4 DEF o
<1> HIDE DEF u
<1> DEFINE v == row_major_strides(shape)[1]
<1>6. /\ v \in Nat /\ Product(shape) = v * shape[1] /\ Product(cut) = v * w
      /\ row_major_strides(cut) = row_major_strides(shape)
  <2> HIDE DEF shape, w
  <2>1. shape # <<>>
    BY <1>2 DEF r
  <2>2. QED
    BY <1>1, <1>3, <2>1, FirstAxis
<1> HIDE DEF cut, r, w
<1>12. t.strides = row_major_strides(shape) /\ t.strides[1] = v /\ t.buf \in 1..Len(h)
       /\ t.offset + v * shape[1] <= Len(h[t.buf])
  BY <1>6 DEF Covers
<1> HIDE DEF v
<1>13. (t.offset + start * v) + v * w <= Len(h[t.buf]) /\ t.offset + start * v \in Nat
  <2>1. \A x, y, z \in Nat : x * z + z * y = z * (x + y) /\ x * z \in Nat
    BY SMTT(30)
  <2>2. \A x, y, z \in Nat : x <= y => z * x <= z * y
    BY SMTT(30)
  <2>3. start * v + v * w = v * end /\ v * end <= v * shape[1]
    BY <1>2, <1>3, <1>6, <2>1, <2>2
  <2>4. start * v \in Nat /\ v * w \in Nat /\ v * end \in Nat /\ v * shape[1] \in Nat
    BY <1>2, <1>3, <1>6, <2>1
  <2> DEFINE a == start * v
             b == v * w
             e == v * shape[1]
             f == v * end
  <2> HIDE DEF a, b, e, f
  <2>5. a \in Nat /\ b \in Nat /\ e \in Nat /\ f \in Nat /\ a + b = f /\ f <= e
    BY <2>3, <2>4 DEF a, b, e, f
  <2>6. t.offset + e <= Len(h[t.buf])
    BY <1>12 DEF e
  <2>7. (t.offset + a) + b <= Len(h[t.buf]) /\ t.offset + a \in Nat
    <3> DEFINE o == t.offset
               n == Len(h[t.buf])
    <3>1. o \in Nat /\ n \in Nat /\ o + e <= n
      BY <1>1, <2>6
    <3> HIDE DEF o, n
    <3>2. (o + a) + b <= n /\ o + a \in Nat
      BY ONLY <2>5, <3>1
    <3>3. QED
      BY <3>2 DEF o, n
  <2>8. QED
    BY <2>7 DEF a, b
<1>14. u \in Descriptor
  BY <1>1, <1>4, <1>5, <1>12, <1>13 DEF Descriptor
<1>15. QED
  BY <1>4, <1>5, <1>6, <1>12, <1>13, <1>14 DEF Covers, u

-----------------------------------------------------------------------------
(* Every kernel returns a dense record, or refuses.                        *)
LEMMA SolidType ==
  ASSUME NEW d, Solid(d)
  PROVE  /\ d.shape \in Seq(Nat) /\ Product(d.shape) \in Nat
         /\ DOMAIN d.data = 1..Product(d.shape)
<1>1. Product(d.shape) \in Nat /\ d.data = [i \in 1..Product(d.shape) |-> d.data[i]]
  BY ProductType DEF Solid, IsList
<1> DEFINE n == Product(d.shape)
           s == d.data
<1>2. DOMAIN s = 1..n
  <2> HIDE DEF n, s
  <2>1. s = [i \in 1..n |-> s[i]]
    BY <1>1 DEF n, s
  <2>2. QED
    BY <2>1
<1>3. QED
  BY <1>1, <1>2 DEF Solid

LEMMA SameShape ==
  ASSUME NEW d, Solid(d), NEW f, f = [k \in DOMAIN d.data |-> f[k]]
  PROVE  Solid(Dense(d.shape, f)) /\ DOMAIN Dense(d.shape, f).data = DOMAIN d.data
         /\ Dense(d.shape, f).shape = d.shape
<1>1. d.shape \in Seq(Nat) /\ DOMAIN d.data = 1..Product(d.shape)
  BY SolidType
<1>2. f = [k \in 1..Product(d.shape) |-> f[k]]
  BY <1>1
<1>3. Dense(d.shape, f) = [shape |-> d.shape, data |-> f] /\ Solid(Dense(d.shape, f))
  BY <1>1, <1>2, DenseIs
<1>4. QED
  BY <1>3

LEMMA ScalarSolid ==
  ASSUME NEW v
  PROVE  Solid(Dense(<<>>, <<v>>))
<1>1. <<>> \in Seq(Nat) /\ Len(<<>>) = 0
  OBVIOUS
<1>2. Product(<<>>) = 1
  BY <1>1, VolumeIs DEF Product
<1>3. <<v>> = [k \in 1..1 |-> <<v>>[k]]
  OBVIOUS
<1>4. QED
  BY <1>1, <1>2, <1>3, DenseIs

LEMMA PointwiseSolid ==
  ASSUME NEW d, Solid(d)
  PROVE  /\ Solid(neg(d))
         /\ \A a : Solid(scala(d, a))
         /\ IsTensor(relu(d)) => Solid(relu(d))
         /\ IsTensor(sqrt(d)) => Solid(sqrt(d))
         /\ IsTensor(exp(d)) => Solid(exp(d))
         /\ IsTensor(log(d)) => Solid(log(d))
         /\ IsTensor(gelu(d)) => Solid(gelu(d))
         /\ IsTensor(softmax(d)) => Solid(softmax(d))
<1>1. Solid(neg(d))
  <2> DEFINE f == [k \in DOMAIN d.data |-> Minus(0, d.data[k])]
  <2>1. neg(d) = Dense(d.shape, f)
    BY DEF neg, Map
  <2>2. f = [k \in DOMAIN d.data |-> f[k]]
    OBVIOUS
  <2> HIDE DEF f
  <2>3. QED
    BY <2>1, <2>2, SameShape
<1>2. ASSUME NEW a PROVE Solid(scala(d, a))
  <2> DEFINE f == [k \in DOMAIN d.data |-> Times(d.data[k], a)]
  <2>1. scala(d, a) = Dense(d.shape, f)
    BY DEF scala, Map
  <2>2. f = [k \in DOMAIN d.data |-> f[k]]
    OBVIOUS
  <2> HIDE DEF f
  <2>3. QED
    BY <2>1, <2>2, SameShape
<1>3. IsTensor(relu(d)) => Solid(relu(d))
  <2> DEFINE f == [k \in DOMAIN d.data |-> IF Positive(d.data[k]) THEN d.data[k] ELSE 0]
  <2>1. relu(d) = IF ~Finite(d) THEN Err ELSE Dense(d.shape, f)
    BY DEF relu, Map
  <2>2. f = [k \in DOMAIN d.data |-> f[k]]
    OBVIOUS
  <2> HIDE DEF f
  <2>3. QED
    BY <2>1, <2>2, SameShape DEF IsTensor
<1>4. IsTensor(sqrt(d)) => Solid(sqrt(d))
  <2> DEFINE f == [k \in DOMAIN d.data |-> SqrtF[d.data[k]]]
  <2>1. sqrt(d) \in {Err, Dense(d.shape, f)}
    BY DEF sqrt, Map
  <2>2. f = [k \in DOMAIN d.data |-> f[k]]
    OBVIOUS
  <2> HIDE DEF f
  <2>3. QED
    BY <2>1, <2>2, SameShape DEF IsTensor
<1>5. IsTensor(exp(d)) => Solid(exp(d))
  <2> DEFINE f == [k \in DOMAIN d.data |-> ExpF[d.data[k]]]
  <2>1. exp(d) \in {Err, Dense(d.shape, f)}
    BY DEF exp, Map
  <2>2. f = [k \in DOMAIN d.data |-> f[k]]
    OBVIOUS
  <2> HIDE DEF f
  <2>3. QED
    BY <2>1, <2>2, SameShape DEF IsTensor
<1>6. IsTensor(log(d)) => Solid(log(d))
  <2> DEFINE f == [k \in DOMAIN d.data |-> LogF[d.data[k]]]
  <2>1. log(d) \in {Err, Dense(d.shape, f)}
    BY DEF log, Map
  <2>2. f = [k \in DOMAIN d.data |-> f[k]]
    OBVIOUS
  <2> HIDE DEF f
  <2>3. QED
    BY <2>1, <2>2, SameShape DEF IsTensor
<1>7. IsTensor(gelu(d)) => Solid(gelu(d))
  <2> DEFINE f == [k \in DOMAIN d.data |-> GeluF[d.data[k]]]
  <2>1. gelu(d) \in {Err, Dense(d.shape, f)}
    BY DEF gelu, Map
  <2>2. f = [k \in DOMAIN d.data |-> f[k]]
    OBVIOUS
  <2> HIDE DEF f
  <2>3. QED
    BY <2>1, <2>2, SameShape DEF IsTensor
<1>8. IsTensor(softmax(d)) => Solid(softmax(d))
  <2>1. PICK f : f = [k \in DOMAIN d.data |-> f[k]] /\ softmax(d) \in {Err, Panic, Dense(d.shape, f)}
    BY DEF softmax
  <2>2. QED
    BY <2>1, SameShape DEF IsTensor
<1>9. QED
  BY <1>1, <1>2, <1>3, <1>4, <1>5, <1>6, <1>7, <1>8

LEMMA ReductionSolid ==
  ASSUME NEW d, NEW targets
  PROVE  /\ Solid(summa(d))
         /\ IsTensor(media(d)) => Solid(media(d))
         /\ IsTensor(crux_entropia(d, targets)) => Solid(crux_entropia(d, targets))
<1>1. Solid(summa(d))
  BY ScalarSolid DEF summa
<1>2. IsTensor(media(d)) => Solid(media(d))
  BY ScalarSolid DEF media, IsTensor
<1>3. IsTensor(crux_entropia(d, targets)) => Solid(crux_entropia(d, targets))
  <2>1. \E v : crux_entropia(d, targets) \in {Err, Dense(<<>>, <<v>>)}
    BY DEF crux_entropia
  <2>2. QED
    BY <2>1, ScalarSolid DEF IsTensor
<1>4. QED
  BY <1>1, <1>2, <1>3

LEMMA BroadcastType ==
  ASSUME NEW lhs \in Seq(Nat), NEW rhs \in Seq(Nat)
  PROVE  broadcast_shape(lhs, rhs) \in Seq(Nat)
<1> DEFINE T == {Len(lhs), Len(rhs)}
           rank == Max(T)
           l(i) == broadcast_dim(lhs, rank, i)
           m(i) == broadcast_dim(rhs, rank, i)
           f == [i \in 1..rank |-> IF l(i) = 1 THEN m(i) ELSE l(i)]
<1>1. Len(lhs) \in Nat /\ Len(rhs) \in Nat
  OBVIOUS
<1>2. \E x \in T : \A y \in T : y <= x
  BY <1>1
<1>3. rank \in T /\ \A y \in T : y <= rank
  BY <1>2 DEF Max
<1>4. rank \in Nat /\ Len(lhs) <= rank /\ Len(rhs) <= rank
  BY <1>1, <1>3
<1>5. broadcast_shape(lhs, rhs) = f
  BY DEF broadcast_shape
<1> HIDE DEF T, rank
<1>6. ASSUME NEW i \in 1..rank PROVE l(i) \in Nat /\ m(i) \in Nat
  <2>1. ASSUME NEW s \in Seq(Nat), Len(s) <= rank PROVE broadcast_dim(s, rank, i) \in Nat
    <3>1. CASE i <= rank - Len(s)
      BY <3>1 DEF broadcast_dim
    <3>2. CASE ~(i <= rank - Len(s))
      <4>1. i - (rank - Len(s)) \in 1..Len(s)
        BY <1>4, <2>1, <3>2
      <4>2. s[i - (rank - Len(s))] \in Nat
        BY <4>1
      <4>3. QED
        BY <3>2, <4>2 DEF broadcast_dim
    <3>3. QED
      BY <3>1, <3>2
  <2>2. QED
    BY <1>4, <2>1
<1> HIDE DEF l, m
<1>7. f \in [1..rank -> Nat]
  BY <1>6
<1>8. QED
  BY <1>4, <1>5, <1>7

LEMMA ElementwiseSolid ==
  ASSUME NEW a, Solid(a), NEW b, Solid(b)
  PROVE  /\ IsTensor(addita(a, b)) => Solid(addita(a, b))
         /\ IsTensor(subtrahe(a, b)) => Solid(subtrahe(a, b))
         /\ IsTensor(multiplica(a, b)) => Solid(multiplica(a, b))
         /\ IsTensor(divide(a, b)) => Solid(divide(a, b))
<1> DEFINE shape == broadcast_shape(a.shape, b.shape)
           at(d, k) == AtBroadcast(d, unravel_index(k - 1, shape))
<1>1. shape \in Seq(Nat)
  BY BroadcastType DEF Solid
<1>2. ASSUME NEW f, f = [k \in 1..Product(shape) |-> f[k]]
      PROVE  Solid(Dense(shape, f))
  <2> HIDE DEF shape
  <2>1. QED
    BY <1>1, <1>2, DenseIs
<1>3. IsTensor(addita(a, b)) => Solid(addita(a, b))
  <2> DEFINE f == [k \in 1..Product(shape) |-> Plus(at(a, k), at(b, k))]
  <2>1. addita(a, b) \in {Err, Dense(shape, f)}
    BY DEF addita, tensor_elementwise, Elementwise
  <2>2. f = [k \in 1..Product(shape) |-> f[k]]
    OBVIOUS
  <2> HIDE DEF f, shape
  <2>3. QED
    BY <1>2, <2>1, <2>2 DEF IsTensor
<1>4. IsTensor(subtrahe(a, b)) => Solid(subtrahe(a, b))
  <2> DEFINE f == [k \in 1..Product(shape) |-> Minus(at(a, k), at(b, k))]
  <2>1. subtrahe(a, b) \in {Err, Dense(shape, f)}
    BY DEF subtrahe, tensor_elementwise, Elementwise
  <2>2. f = [k \in 1..Product(shape) |-> f[k]]
    OBVIOUS
  <2> HIDE DEF f, shape
  <2>3. QED
    BY <1>2, <2>1, <2>2 DEF IsTensor
<1>5. IsTensor(multiplica(a, b)) => Solid(multiplica(a, b))
  <2> DEFINE f == [k \in 1..Product(shape) |-> Times(at(a, k), at(b, k))]
  <2>1. multiplica(a, b) \in {Err, Dense(shape, f)}
    BY DEF multiplica, tensor_elementwise, Elementwise
  <2>2. f = [k \in 1..Product(shape) |-> f[k]]
    OBVIOUS
  <2> HIDE DEF f, shape
  <2>3. QED
    BY <1>2, <2>1, <2>2 DEF IsTensor
<1>6. IsTensor(divide(a, b)) => Solid(divide(a, b))
  <2> DEFINE f == [k \in 1..Product(shape) |-> Over(at(a, k), at(b, k))]
  <2>1. divide(a, b) \in {Err, Dense(shape, f)}
    BY DEF divide, FiniteOrErr, tensor_elementwise, Elementwise
  <2>2. f = [k \in 1..Product(shape) |-> f[k]]
    OBVIOUS
  <2> HIDE DEF f, shape
  <2>3. QED
    BY <1>2, <2>1, <2>2 DEF IsTensor
<1>7. QED
  BY <1>3, <1>4, <1>5, <1>6

LEMMA ShapedSolid ==
  ASSUME NEW d, Solid(d)
  PROVE  /\ \A shape \in Seq(Nat) : IsTensor(forma(d, shape)) => Solid(forma(d, shape))
         /\ \A axes \in Seq(Int) : IsTensor(permute(d, axes)) => Solid(permute(d, axes))
         /\ \A b : Solid(b) /\ IsTensor(matmul(d, b)) => Solid(matmul(d, b))
         /\ \A axis, epsilon, gamma, beta :
               IsTensor(layernorm(d, axis, epsilon, gamma, beta))
                 => Solid(layernorm(d, axis, epsilon, gamma, beta))
<1>1. ASSUME NEW shape \in Seq(Nat), IsTensor(forma(d, shape))
      PROVE  Solid(forma(d, shape))
  <2>1. Product(shape) = Len(d.data) /\ forma(d, shape) = Dense(shape, d.data)
    BY <1>1 DEF forma, structa, IsTensor
  <2>2. d.data = [k \in 1..Product(shape) |-> d.data[k]]
    BY <2>1 DEF Solid, IsList
  <2>3. QED
    BY <2>1, <2>2, DenseIs
<1>2. ASSUME NEW axes \in Seq(Int), IsTensor(permute(d, axes))
      PROVE  Solid(permute(d, axes))
  <2> DEFINE shape == [i \in DOMAIN axes |-> d.shape[axes[i] + 1]]
  <2>1. permute_axes(axes, Len(d.shape))
    BY <1>2 DEF permute, IsTensor
  <2>2. PICK f : f = [k \in 1..Product(shape) |-> f[k]] /\ permute(d, axes) = Dense(shape, f)
    BY <2>1 DEF permute
  <2>3. d.shape \in Seq(Nat)
    BY DEF Solid
  <2>4. shape \in Seq(Nat)
    <3>1. ASSUME NEW i \in 1..Len(axes) PROVE d.shape[axes[i] + 1] \in Nat
      <4>1. axes[i] + 1 \in 1..Len(d.shape)
        BY <2>1, <2>3 DEF permute_axes
      <4>2. QED
        BY <2>3, <4>1
    <3>2. DOMAIN axes = 1..Len(axes) /\ Len(axes) \in Nat
      OBVIOUS
    <3>3. shape \in [1..Len(axes) -> Nat]
      BY <3>1, <3>2
    <3>4. QED
      BY <3>2, <3>3
  <2> HIDE DEF shape
  <2>5. QED
    BY <2>2, <2>4, DenseIs
<1>3. ASSUME NEW b, Solid(b), IsTensor(matmul(d, b))
      PROVE  Solid(matmul(d, b))
  <2> DEFINE m == d.shape[1]
             n == b.shape[2]
             shape == <<m, n>>
  <2>1. d.shape \in Seq(Nat) /\ b.shape \in Seq(Nat)
    BY <1>3 DEF Solid
  <2>2. Len(d.shape) = 2 /\ Len(b.shape) = 2
    BY <1>3 DEF matmul, IsTensor
  <2>3. PICK f : f = [k \in 1..(m * n) |-> f[k]] /\ matmul(d, b) = Dense(shape, f)
    <3> HIDE DEF shape
    <3>1. d.shape[2] = b.shape[1]
      BY <1>3, <2>2 DEF matmul, IsTensor
    <3>2. QED
      BY <2>2, <3>1 DEF matmul, shape
  <2>4. m \in Nat /\ n \in Nat
    BY <2>1, <2>2
  <2> HIDE DEF m, n
  <2>5. shape \in Seq(Nat) /\ Len(shape) = 2 /\ shape[1] = m /\ shape[2] = n
    BY <2>4
  <2> HIDE DEF shape
  <2>6. Product(shape) = m * n
    <3>1. /\ Volume(shape, 0) = 1
          /\ \A k \in 1..2 : Volume(shape, k) = Volume(shape, k - 1) * shape[2 + 1 - k]
      BY <2>5, VolumeIs
    <3>2. Volume(shape, 1) = n
      BY <2>4, <2>5, <3>1
    <3>3. Volume(shape, 2) = n * m
      BY <2>5, <3>1, <3>2
    <3>4. n * m = m * n
      BY <2>4
    <3>5. QED
      BY <2>5, <3>3, <3>4 DEF Product
  <2>7. QED
    BY <2>3, <2>5, <2>6, DenseIs
<1>4. ASSUME NEW axis, NEW epsilon, NEW gamma, NEW beta,
             IsTensor(layernorm(d, axis, epsilon, gamma, beta))
      PROVE  Solid(layernorm(d, axis, epsilon, gamma, beta))
  <2> DEFINE y == Normalised(d, axis, epsilon)
  <2>1. layernorm(d, axis, epsilon, gamma, beta) = Affine(y, axis, gamma, beta)
    BY <1>4 DEF layernorm, IsTensor
  <2>2. Solid(y)
    <3> DEFINE f == [k \in DOMAIN d.data |->
                      Times(Minus(d.data[k], MeanAt(d, axis, k)), InvStdAt(d, axis, epsilon, k))]
    <3>1. y = Dense(d.shape, f)
      BY DEF Normalised
    <3>2. f = [k \in DOMAIN d.data |-> f[k]]
      OBVIOUS
    <3> HIDE DEF f, y
    <3>3. QED
      BY <3>1, <3>2, SameShape
  <2> HIDE DEF y
  <2>3. \E f : f = [k \in DOMAIN y.data |-> f[k]] /\ Affine(y, axis, gamma, beta) = Dense(y.shape, f)
    BY DEF Affine
  <2>4. QED
    BY <2>1, <2>2, <2>3, SameShape
<1>5. QED
  BY <1>1, <1>2, <1>3, <1>4

(* The rows a slice keeps.                                                 *)
LEMMA SliceSolid ==
  ASSUME NEW d, Solid(d), NEW start \in Int, NEW end \in Int, SectioOK(d, start, end)
  PROVE  LET rest == row_major_strides(d.shape)[1]
         IN  Solid(Dense([d.shape EXCEPT ![1] = end - start],
                         SubSeq(d.data, start * rest + 1, end * rest)))
<1> DEFINE shape == d.shape
           w == end - start
           v == row_major_strides(shape)[1]
           a == start * v
           b == end * v
           s == d.data
           f == SubSeq(s, a + 1, b)
           cut == [shape EXCEPT ![1] = w]
<1>1. shape \in Seq(Nat) /\ shape # <<>> /\ 0 <= start /\ start <= end /\ end <= shape[1]
  BY DEF Solid, SectioOK
<1>2. w \in Nat /\ end \in Nat /\ start \in Nat /\ start + w = end /\ shape[1] \in Nat
  <2>1. shape[1] \in Nat
    BY <1>1
  <2>2. QED
    BY <1>1, <2>1
<1>3. /\ v \in Nat /\ Product(shape) = v * shape[1] /\ Product(cut) = v * w
      /\ cut \in Seq(Nat)
  <2> HIDE DEF shape, w
  <2>1. QED
    BY <1>1, <1>2, FirstAxis
<1>4. Len(s) = Product(shape) /\ IsList(s)
  BY DEF Solid
<1>5. a \in Nat /\ b \in Nat /\ b = a + Product(cut) /\ b <= Len(s)
  <2> HIDE DEF shape, v, s, w, cut
  <2>1. \A x, y, z \in Nat : (x + y) * z = x * z + z * y /\ x * z \in Nat
    BY SMTT(30)
  <2>2. \A x, y, z \in Nat : x <= y => x * z <= z * y
    BY SMTT(30)
  <2>3. (start + w) * v = start * v + v * w /\ start * v \in Nat /\ end * v \in Nat
    BY <1>2, <1>3, <2>1
  <2>4. end * v <= v * shape[1]
    BY <1>1, <1>2, <1>3, <2>2
  <2>5. QED
    BY <1>2, <1>3, <1>4, <2>3, <2>4
<1> DEFINE n == Product(cut)
<1>6. n \in Nat
  BY <1>3, ProductType
<1> HIDE DEF a, b, n, cut
<1>7. f = [k \in 1..n |-> f[k]]
  <2> DEFINE S == {s[i] : i \in 1..Len(s)}
  <2>1. s \in Seq(S)
    BY <1>4, ListOf DEF IsList
  <2> HIDE DEF S, s
  <2>2. f \in Seq(S) /\ Len(f) = n
    <3>1. a + 1 \in Int /\ b \in Int /\ b - (a + 1) + 1 = n /\ (a + 1 <= b <=> n # 0)
      BY <1>5, <1>6 DEF n
    <3>2. \A i \in (a + 1)..b : s[i] \in S
      BY <1>5, <2>1
    <3>3. f \in Seq(S) /\ Len(f) = IF a + 1 <= b THEN b - (a + 1) + 1 ELSE 0
      BY <3>1, <3>2, SubSeqProperties
    <3>4. QED
      BY <3>1, <3>3
  <2> HIDE DEF f
  <2>3. QED
    BY <2>2
<1> HIDE DEF f
<1>8. Solid(Dense(cut, f))
  BY <1>3, <1>7, DenseIs DEF n
<1>9. QED
  BY <1>8 DEF f, a, b, cut

(* What an operation of the tape returns for dense records.                *)
LEMMA ForwardSolid ==
  ASSUME NEW op, NEW arg, NEW ds, Solid(ds[1]), op \in BinaryOps => Solid(ds[2]),
         op \in UnaryOps \cup BinaryOps \cup {"scala", "forma", "permute", "sectio", "layernorm"},
         op = "forma" => arg \in Seq(Nat), op = "permute" => arg \in Seq(Int),
         op = "sectio" => arg \in Int \X Int,
         IsTensor(Forward(op, arg, ds))
  PROVE  Solid(Forward(op, arg, ds))
<1> DEFINE d == ds[1]
           F == Forward(op, arg, ds)
<1>1. CASE op \in {"neg", "relu", "sqrt", "exp", "log", "gelu", "softmax"}
  <2>1. CASE op = "neg"
    BY <2>1, PointwiseSolid DEF Forward
  <2>2. CASE op = "relu"
    BY <2>2, PointwiseSolid DEF Forward
  <2>3. CASE op = "sqrt"
    BY <2>3, PointwiseSolid DEF Forward
  <2>4. CASE op = "exp"
    BY <2>4, PointwiseSolid DEF Forward
  <2>5. CASE op = "log"
    BY <2>5, PointwiseSolid DEF Forward
  <2>6. CASE op = "gelu"
    BY <2>6, PointwiseSolid DEF Forward
  <2>7. CASE op = "softmax"
    <3>1. F = softmax(d)
      BY <2>7 DEF Forward, IsTensor
    <3>2. QED
      BY <3>1, PointwiseSolid
  <2>8. QED
    BY <1>1, <2>1, <2>2, <2>3, <2>4, <2>5, <2>6, <2>7
<1>2. CASE op \in {"summa", "media", "crux"}
  <2>1. CASE op = "summa"
    BY <2>1, ReductionSolid DEF Forward
  <2>2. CASE op = "media"
    BY <2>2, ReductionSolid DEF Forward
  <2>3. CASE op = "crux"
    BY <2>3, ReductionSolid DEF Forward
  <2>4. QED
    BY <1>2, <2>1, <2>2, <2>3
<1>3. CASE op \in {"add", "sub", "mul", "div", "matmul"}
  <2>1. Solid(ds[2])
    BY <1>3 DEF BinaryOps
  <2>2. CASE op = "add"
    BY <2>1, <2>2, ElementwiseSolid DEF Forward
  <2>3. CASE op = "sub"
    BY <2>1, <2>3, ElementwiseSolid DEF Forward
  <2>4. CASE op = "mul"
    BY <2>1, <2>4, ElementwiseSolid DEF Forward
  <2>5. CASE op = "div"
    BY <2>1, <2>5, ElementwiseSolid DEF Forward
  <2>6. CASE op = "matmul"
    BY <2>1, <2>6, ShapedSolid DEF Forward
  <2>7. QED
    BY <1>3, <2>2, <2>3, <2>4, <2>5, <2>6
<1>4. CASE op \in {"scala", "forma", "permute", "layernorm"}
  <2>1. CASE op = "scala"
    BY <2>1, PointwiseSolid DEF Forward
  <2>2. CASE op = "forma"
    BY <2>2, ShapedSolid DEF Forward
  <2>3. CASE op = "permute"
    BY <2>3, ShapedSolid DEF Forward
  <2>4. CASE op = "layernorm"
    BY <2>4, ShapedSolid DEF Forward
  <2>5. QED
    BY <1>4, <2>1, <2>2, <2>3, <2>4
<1>5. CASE op = "sectio"
  <2>1. arg[1] \in Int /\ arg[2] \in Int /\ SectioOK(d, arg[1], arg[2])
    BY <1>5 DEF Forward, IsTensor
  <2> DEFINE rest == row_major_strides(d.shape)[1]
             out == Dense([d.shape EXCEPT ![1] = arg[2] - arg[1]],
                          SubSeq(d.data, arg[1] * rest + 1, arg[2] * rest))
  <2>2. F = out
    BY <1>5, <2>1 DEF Forward
  <2>3. Solid(out)
    <3> HIDE DEF d
    <3>1. Solid(d)
      BY DEF d
    <3>2. QED
      BY <2>1, <3>1, SliceSolid
  <2>4. QED
    BY <2>2, <2>3
<1>6. QED
  BY <1>1, <1>2, <1>3, <1>4, <1>5 DEF UnaryOps, BinaryOps

-----------------------------------------------------------------------------
(* Buffers.                                                                *)
LEMMA ListType ==
  ASSUME NEW h, IsList(h)
  PROVE  /\ h \in Seq({h[i] : i \in 1..Len(h)}) /\ Len(h) \in Nat
         /\ DOMAIN h = 1..Len(h)
<1>1. h \in Seq({h[i] : i \in 1..Len(h)}) /\ Len(h) \in Nat
  BY ListOf DEF IsList
<1>2. QED
  BY <1>1

(* g is h and one value more. *)
OneMore(g, h, x) ==
  /\ IsList(g) /\ Len(g) = Len(h) + 1
  /\ \A b \in 1..Len(h) : g[b] = h[b]
  /\ g[Len(h) + 1] = x /\ DOMAIN h = 1..Len(h) /\ DOMAIN g = 1..(Len(h) + 1)

LEMMA Pushed ==
  ASSUME NEW h, IsList(h), NEW x, NEW g, g = Append(h, x)
  PROVE  OneMore(g, h, x)
<1> DEFINE R == {h[i] : i \in 1..Len(h)}
           S == R \cup {x}
<1>1. h \in Seq(R) /\ Len(h) \in Nat /\ DOMAIN h = 1..Len(h)
  BY ListType
<1>2. h \in Seq(S) /\ x \in S
  <2> HIDE DEF R
  <2>1. QED
    BY <1>1
<1> HIDE DEF S, R
<1>3. /\ g \in Seq(S) /\ Len(g) = Len(h) + 1
      /\ \A b \in 1..Len(h) : g[b] = h[b]
      /\ g[Len(h) + 1] = x
  BY <1>2
<1>4. g = [i \in 1..Len(g) |-> g[i]] /\ DOMAIN g = 1..(Len(h) + 1) /\ Len(g) \in Nat
  BY ONLY <1>1, <1>3
<1>5. QED
  BY <1>1, <1>3, <1>4 DEF IsList, OneMore

(* g is h and twice x. *)
TwoMore(g, h, x) ==
  /\ IsList(g) /\ Len(g) = Len(h) + 2
  /\ \A b \in 1..Len(h) : g[b] = h[b]
  /\ g[Len(h) + 1] = x /\ g[Len(h) + 2] = x

LEMMA PushedTwice ==
  ASSUME NEW h, IsList(h), NEW x, NEW g, g = h \o <<x, x>>
  PROVE  TwoMore(g, h, x)
<1> DEFINE R == {h[i] : i \in 1..Len(h)}
           S == R \cup {x}
           p == <<x, x>>
<1>1. h \in Seq(R) /\ Len(h) \in Nat
  BY ListType
<1>2. h \in Seq(S)
  <2> HIDE DEF R
  <2>1. QED
    BY <1>1
<1>3. p \in Seq(S) /\ Len(p) = 2 /\ p[1] = x /\ p[2] = x /\ g = h \o p
  OBVIOUS
<1> HIDE DEF S, R, p
<1>4. /\ g \in Seq(S) /\ Len(g) = Len(h) + Len(p)
      /\ \A b \in 1..Len(h) : g[b] = h[b]
      /\ \A b \in 1..Len(p) : g[Len(h) + b] = p[b]
  BY <1>2, <1>3, Concatenated
<1>5. g = [i \in 1..Len(g) |-> g[i]] /\ Len(g) \in Nat
  BY ONLY <1>1, <1>4
<1>6. 1 \in 1..Len(p) /\ 2 \in 1..Len(p)
  BY <1>3
<1>7. QED
  BY <1>3, <1>4, <1>5, <1>6 DEF IsList, TwoMore

(* Buffers that keep their lengths, and new ones, leave descriptors valid. *)
LEMMA StillCovers ==
  ASSUME NEW h, NEW g, NEW t, Len(h) \in Nat, Len(g) \in Nat, Len(h) <= Len(g),
         \A b \in 1..Len(h) : Len(g[b]) = Len(h[b]), Covers(t, h)
  PROVE  Covers(t, g)
<1>1. t.buf \in 1..Len(g) /\ Len(g[t.buf]) = Len(h[t.buf])
  BY DEF Covers
<1>2. QED
  BY <1>1 DEF Covers

LEMMA NewCovers ==
  ASSUME NEW h, Len(h) \in Nat, NEW b \in 1..Len(h), NEW shape \in Seq(Nat),
         Len(h[b]) = Product(shape)
  PROVE  LET t == from_contiguous(b, shape)
         IN  Covers(t, h) /\ t.buf = b /\ t.shape = shape /\ t.offset = 0
<1> DEFINE t == from_contiguous(b, shape)
<1>1. t = [buf |-> b, shape |-> shape, strides |-> row_major_strides(shape),
           offset |-> 0, view |-> FALSE]
  BY DEF from_contiguous
<1>2. row_major_strides(shape) \in Seq(Nat)
  <2>1. row_major_strides(shape) \in [1..Len(shape) -> Nat] /\ Len(shape) \in Nat
    BY StridesAre
  <2>2. QED
    BY <2>1
<1>3. t \in Descriptor
  BY <1>1, <1>2 DEF Descriptor
<1>4. 0 + Product(shape) <= Len(h[b])
  BY ProductType
<1> HIDE DEF t
<1>5. Covers(t, h)
  BY <1>1, <1>3, <1>4 DEF Covers
<1>6. QED
  BY <1>1, <1>5 DEF t

LEMMA SameBuffer ==
  ASSUME NEW h, NEW g, NEW t, g[t.buf] = h[t.buf]
  PROVE  Read(g, t) = Read(h, t)
BY DEF Read, planata

LEMMA ReadSolid ==
  ASSUME NEW h, NEW t \in Descriptor
  PROVE  Solid(Read(h, t))
<1> DEFINE f == planata(h, t)
<1>1. f = [k \in 1..Product(t.shape) |-> f[k]]
  BY DEF planata
<1>2. t.shape \in Seq(Nat)
  BY DEF Descriptor
<1> HIDE DEF f
<1>3. QED
  BY <1>1, <1>2, DenseIs DEF Read, f

-----------------------------------------------------------------------------
(* The tape's buffers are its own.                                         *)
BuffersOK == IsList(heap) /\ \A b \in 1..Len(heap) : IsList(heap[b])

(* A saved value fills a buffer, and comes of earlier values.              *)
NodeOK(i) ==
  /\ Covers(tape[i].value, heap) /\ tape[i].value.offset = 0
  /\ Len(heap[tape[i].value.buf]) = Product(tape[i].value.shape)
  /\ \A j \in DOMAIN tape[i].parents : tape[i].parents[j] \in 1..(i - 1)

Private == \A t \in Reachable, i \in DOMAIN tape : t.buf # tape[i].value.buf

TapeInv ==
  /\ BuffersOK
  /\ IsList(held) /\ IsList(tape)
  /\ \A t \in Reachable : Covers(t, heap)
  /\ \A i \in DOMAIN tape : NodeOK(i)
  /\ Private
  /\ TapeReplays

LEMMA TapeStarts == ASSUME TapeInit PROVE TapeInv
<1>1. heap = <<>> /\ held = <<>> /\ tape = <<>>
  BY DEF TapeInit
<1>2. IsList(<<>>) /\ DOMAIN <<>> = {} /\ Len(<<>>) = 0
  BY DEF IsList
<1>3. Reachable = {} /\ Ops = {}
  BY <1>1, <1>2 DEF Reachable, Range, Ops
<1>4. QED
  BY <1>1, <1>2, <1>3 DEF TapeInv, BuffersOK, Private, TapeReplays

(* The history of the tape while its nodes and their buffers stay.         *)
LEMMA HistoryKept ==
  ASSUME TapeInv, NEW n \in DOMAIN tape, \A i \in DOMAIN tape : tape'[i] = tape[i],
         \A i \in DOMAIN tape : heap'[tape[i].value.buf] = heap[tape[i].value.buf]
  PROVE  /\ Read(heap', tape'[n].value) = Read(heap, tape[n].value)
         /\ Computed([j \in DOMAIN tape[n].parents |-> Read(heap', tape'[tape[n].parents[j]].value)])
              = ParentValues(tape[n].parents)
<1>1. \A i \in DOMAIN tape : Read(heap', tape'[i].value) = ValueAt(i)
  BY SameBuffer DEF ValueAt
<1>2. \A j \in DOMAIN tape[n].parents : tape[n].parents[j] \in DOMAIN tape
  <2>1. DOMAIN tape = 1..Len(tape) /\ Len(tape) \in Nat
    BY ListType DEF TapeInv
  <2>2. \A j \in DOMAIN tape[n].parents : tape[n].parents[j] \in 1..(n - 1)
    BY DEF TapeInv, NodeOK
  <2>3. QED
    BY <2>1, <2>2
<1>3. QED
  BY <1>1, <1>2 DEF ParentValues, ValueAt

LEMMA ValueSolid == ASSUME TapeInv, NEW i \in DOMAIN tape PROVE Solid(ValueAt(i))
<1>1. tape[i].value \in Descriptor
  BY DEF TapeInv, NodeOK, Covers
<1>2. QED
  BY <1>1, ReadSolid DEF ValueAt

(* Recording, whatever the operation.                                      *)
LEMMA RecordKeeps ==
  ASSUME TapeInv, NEW op, NEW arg, NEW parents, NEW d, Solid(d),
         record(op, arg, parents, d),
         \A j \in DOMAIN parents : parents[j] \in DOMAIN tape,
         op # "leaf" => Forward(op, arg, ParentValues(parents)) = d
  PROVE  TapeInv'
<1> DEFINE L == Len(heap)
           T == Len(tape)
           node == [op |-> op, arg |-> arg, parents |-> parents, shape |-> d.shape,
                    value |-> from_contiguous(L + 1, d.shape),
                    exposed |-> from_contiguous(L + 2, d.shape)]
           v == from_contiguous(L + 1, d.shape)
           e == from_contiguous(L + 2, d.shape)
<1>1. heap' = heap \o <<d.data, d.data>> /\ tape' = Append(tape, node) /\ held' = held
  BY DEF record
<1>2. IsList(heap) /\ IsList(tape) /\ IsList(held) /\ L \in Nat /\ T \in Nat
      /\ DOMAIN tape = 1..T /\ \A b \in 1..L : IsList(heap[b])
  BY ListType DEF TapeInv, BuffersOK
<1>3. /\ IsList(heap') /\ Len(heap') = L + 2 /\ \A b \in 1..L : heap'[b] = heap[b]
      /\ heap'[L + 1] = d.data /\ heap'[L + 2] = d.data
  <2> DEFINE x == d.data
  <2> HIDE DEF x
  <2>1. heap' = heap \o <<x, x>>
    BY <1>1 DEF x
  <2>2. TwoMore(heap', heap, x)
    BY <1>2, <2>1, PushedTwice
  <2>3. QED
    BY <2>2 DEF TwoMore, x
<1>4. /\ IsList(tape') /\ Len(tape') = T + 1 /\ \A i \in 1..T : tape'[i] = tape[i]
      /\ tape'[T + 1] = node /\ DOMAIN tape' = 1..(T + 1)
  <2> HIDE DEF node
  <2>1. IsList(tape) /\ tape' = Append(tape, node)
    BY <1>1, <1>2
  <2>2. OneMore(tape', tape, node)
    BY <2>1, Pushed
  <2>3. QED
    BY <2>2 DEF OneMore
<1>5. d.shape \in Seq(Nat) /\ IsList(d.data) /\ Len(d.data) = Product(d.shape)
      /\ d = [shape |-> d.shape, data |-> d.data]
  BY DEF Solid
<1>6. /\ Covers(v, heap') /\ v.buf = L + 1 /\ v.shape = d.shape /\ v.offset = 0
      /\ Covers(e, heap') /\ e.buf = L + 2 /\ e.shape = d.shape /\ e.offset = 0
  <2>1. Len(heap') \in Nat /\ L + 1 \in 1..Len(heap') /\ L + 2 \in 1..Len(heap')
    BY <1>2, <1>3
  <2>2. Len(heap'[L + 1]) = Product(d.shape) /\ Len(heap'[L + 2]) = Product(d.shape)
    BY <1>3, <1>5
  <2>3. QED
    BY <1>5, <2>1, <2>2, NewCovers
<1>7. node.op = op /\ node.arg = arg /\ node.parents = parents /\ node.value = v /\ node.exposed = e
  OBVIOUS
<1> HIDE DEF L, T, node, v, e
<1>8. ASSUME NEW t, Covers(t, heap) PROVE Covers(t, heap') /\ t.buf \in 1..L
  <2>1. L \in Nat /\ Len(heap') \in Nat /\ L <= Len(heap')
        /\ \A b \in 1..L : Len(heap'[b]) = Len(heap[b])
    BY <1>2, <1>3
  <2>2. t.buf \in 1..L
    BY <1>8 DEF Covers, L
  <2>3. QED
    BY <1>8, <2>1, <2>2, StillCovers DEF L
<1>9. \A i \in 1..T : tape[i].value.buf \in 1..L /\ Covers(tape[i].value, heap')
  BY <1>2, <1>8 DEF TapeInv, NodeOK
<1>10. Reachable' = Reachable \cup {e}
  <2>1. Reachable' = Range(held) \cup {tape'[i].exposed : i \in 1..(T + 1)}
    BY <1>1, <1>4 DEF Reachable, Range
  <2>2. Reachable = Range(held) \cup {tape[i].exposed : i \in 1..T}
    BY <1>2 DEF Reachable
  <2>3. 1..(T + 1) = (1..T) \cup {T + 1}
    BY <1>2
  <2>4. {tape'[i].exposed : i \in 1..(T + 1)} = {tape[i].exposed : i \in 1..T} \cup {e}
    BY <1>4, <1>7, <2>3
  <2>5. QED
    BY <2>1, <2>2, <2>4
<1>11. BuffersOK'
  <2>1. ASSUME NEW b \in 1..(L + 2) PROVE IsList(heap'[b])
    <3>1. b \in 1..L \/ b = L + 1 \/ b = L + 2
      BY <1>2
    <3>2. QED
      BY <1>2, <1>3, <1>5, <3>1
  <2>2. QED
    BY <1>3, <2>1 DEF BuffersOK, IsList
<1>12. \A t \in Reachable' : Covers(t, heap')
  BY <1>6, <1>8, <1>10 DEF TapeInv
<1>13. ASSUME NEW i \in 1..(T + 1) PROVE NodeOK(i)'
  <2>1. CASE i \in 1..T
    <3>1. NodeOK(i)
      BY <1>2, <2>1 DEF TapeInv
    <3>2. tape'[i] = tape[i] /\ heap'[tape[i].value.buf] = heap[tape[i].value.buf]
          /\ Covers(tape[i].value, heap')
      BY <1>3, <1>4, <1>9, <2>1
    <3>3. QED
      BY <3>1, <3>2 DEF NodeOK
  <2>2. CASE i = T + 1
    <3>1. tape'[i].value = v /\ tape'[i].parents = parents
      BY <1>4, <1>7, <2>2
    <3>2. \A j \in DOMAIN parents : parents[j] \in 1..(i - 1)
      BY <1>2, <2>2
    <3>3. Len(heap'[L + 1]) = Product(d.shape)
      BY <1>3, <1>5
    <3>4. QED
      BY <1>6, <3>1, <3>2, <3>3 DEF NodeOK
  <2>3. QED
    BY <1>2, <2>1, <2>2
<1>14. Private'
  <2>1. ASSUME NEW t \in Reachable', NEW i \in 1..(T + 1)
        PROVE  t.buf # tape'[i].value.buf
    <3>1. CASE t \in Reachable /\ i \in 1..T
      BY <1>2, <1>4, <3>1 DEF TapeInv, Private
    <3>2. CASE t \in Reachable /\ i = T + 1
      <4>1. t.buf \in 1..L
        BY <1>8, <3>2 DEF TapeInv
      <4>2. QED
        BY <1>2, <1>4, <1>6, <1>7, <3>2, <4>1
    <3>3. CASE t = e /\ i \in 1..T
      BY <1>2, <1>4, <1>6, <1>9, <3>3
    <3>4. CASE t = e /\ i = T + 1
      BY <1>2, <1>4, <1>6, <1>7, <3>4
    <3>5. QED
      BY <1>2, <1>10, <3>1, <3>2, <3>3, <3>4
  <2>2. QED
    BY <1>4, <2>1 DEF Private
<1>15. TapeReplays'
  <2>1. \A i \in DOMAIN tape : tape'[i] = tape[i] /\ heap'[tape[i].value.buf] = heap[tape[i].value.buf]
    BY <1>2, <1>3, <1>4, <1>9
  <2>2. ASSUME NEW i \in 1..(T + 1), tape'[i].op # "leaf"
        PROVE  Forward(tape'[i].op, tape'[i].arg,
                       Computed([j \in DOMAIN tape'[i].parents |->
                                   Read(heap', tape'[tape'[i].parents[j]].value)]))
                 = Read(heap', tape'[i].value)
    <3>1. CASE i \in 1..T
      <4>1. i \in DOMAIN tape /\ tape'[i] = tape[i] /\ i \in Ops
        BY <1>2, <1>4, <2>2, <3>1 DEF Ops
      <4>2. /\ Read(heap', tape'[i].value) = Read(heap, tape[i].value)
            /\ Computed([j \in DOMAIN tape[i].parents |-> Read(heap', tape'[tape[i].parents[j]].value)])
                 = ParentValues(tape[i].parents)
        BY <2>1, <4>1, HistoryKept
      <4>3. Forward(tape[i].op, tape[i].arg, ParentValues(tape[i].parents)) = Read(heap, tape[i].value)
        BY <4>1 DEF TapeInv, TapeReplays, ValueAt
      <4>4. QED
        BY <4>1, <4>2, <4>3
    <3>2. CASE i = T + 1
      <4>1. tape'[i].op = op /\ tape'[i].arg = arg /\ tape'[i].parents = parents /\ tape'[i].value = v
        BY <1>4, <1>7, <3>2
      <4>2. Read(heap', v) = d
        <5>1. IsList(heap'[v.buf]) /\ Len(heap'[v.buf]) = Product(v.shape)
          BY <1>3, <1>5, <1>6
        <5>2. Read(heap', v) = [shape |-> v.shape, data |-> heap'[v.buf]]
          BY <1>6, <5>1, ReadIs
        <5>3. QED
          BY <1>3, <1>5, <1>6, <5>2
      <4>3. \A j \in DOMAIN parents : Read(heap', tape'[parents[j]].value) = ValueAt(parents[j])
        <5>1. ASSUME NEW j \in DOMAIN parents
              PROVE  Read(heap', tape'[parents[j]].value) = ValueAt(parents[j])
          <6>1. parents[j] \in DOMAIN tape
            OBVIOUS
          <6>2. QED
            BY <2>1, <6>1, SameBuffer DEF ValueAt
        <5>2. QED
          BY <5>1
      <4>4. Computed([j \in DOMAIN parents |-> Read(heap', tape'[parents[j]].value)])
              = ParentValues(parents)
        BY <4>3 DEF ParentValues
      <4>5. QED
        BY <2>2, <4>1, <4>2, <4>4
    <3>3. QED
      BY <1>2, <3>1, <3>2
  <2>3. QED
    BY <1>4, <2>2 DEF TapeReplays, Ops, ParentValues, ValueAt
<1>16. QED
  BY <1>1, <1>2, <1>4, <1>11, <1>12, <1>13, <1>14, <1>15 DEF TapeInv

LEMMA LeafKeeps ==
  ASSUME TapeInv, NEW i \in DOMAIN held, leaf(i)
  PROVE  TapeInv'
<1>1. held[i] \in Reachable
  BY DEF Reachable, Range
<1>2. Solid(Read(heap, held[i]))
  BY <1>1, ReadSolid DEF TapeInv, Covers
<1>3. record("leaf", 0, <<>>, Read(heap, held[i]))
  BY DEF leaf
<1>4. \A j \in DOMAIN <<>> : <<>>[j] \in DOMAIN tape
  OBVIOUS
<1>5. QED
  BY <1>2, <1>3, <1>4, RecordKeeps

LEMMA ApplyKeeps ==
  ASSUME TapeInv, NEW op, NEW arg, NEW parents \in Seq(DOMAIN tape), parents # <<>>,
         op \in BinaryOps => Len(parents) > 1,
         op \in UnaryOps \cup BinaryOps \cup {"scala", "forma", "permute", "sectio", "layernorm"},
         op = "forma" => arg \in Seq(Nat), op = "permute" => arg \in Seq(Int),
         op = "sectio" => arg \in Int \X Int,
         Apply(op, arg, parents)
  PROVE  TapeInv'
<1> DEFINE n == Len(parents)
           f == [j \in 1..n |-> ValueAt(parents[j])]
           ds == ParentValues(parents)
           d == Forward(op, arg, ds)
<1>1. n \in Nat \ {0} /\ DOMAIN parents = 1..n /\ \A j \in 1..n : parents[j] \in DOMAIN tape
  OBVIOUS
<1>2. ds = Computed(f)
  BY <1>1 DEF ParentValues
<1>3. f = [j \in 1..n |-> f[j]]
  OBVIOUS
<1>4. Computed(f) = f
  <2> HIDE DEF f
  <2>1. QED
    BY <1>1, <1>3, ListFacts
<1>5. \A j \in 1..n : ds[j] = ValueAt(parents[j]) /\ Solid(ds[j])
  BY <1>1, <1>2, <1>4, ValueSolid
<1>6. IsTensor(d) /\ record(op, arg, parents, d)
  BY DEF Apply, recorded
<1> HIDE DEF f, ds
<1>7. Solid(ds[1]) /\ (op \in BinaryOps => Solid(ds[2]))
  BY <1>1, <1>5
<1>8. Solid(d)
  BY <1>6, <1>7, ForwardSolid
<1> HIDE DEF d
<1>9. Forward(op, arg, ParentValues(parents)) = d
  BY DEF d, ds
<1>10. QED
  BY <1>1, <1>6, <1>8, <1>9, RecordKeeps

LEMMA StructaKeeps ==
  ASSUME TapeInv, NEW d \in Inputs, Structa(d)
  PROVE  TapeInv'
<1> DEFINE L == Len(heap)
           H == Len(held)
           t == from_contiguous(L + 1, d.shape)
           x == d.data
<1>1. heap' = Append(heap, x) /\ held' = Append(held, t) /\ tape = <<>> /\ tape' = tape
  BY DEF Structa
<1>2. IsList(heap) /\ IsList(held) /\ L \in Nat /\ H \in Nat /\ IsList(tape)
      /\ \A b \in 1..L : IsList(heap[b])
  BY DEF TapeInv, BuffersOK, IsList
<1>3. d.shape \in Seq(Nat) /\ x \in Seq(Field \cup {NF}) /\ Len(x) = Product(d.shape)
  BY TapeAssumption
<1>4. IsList(x)
  BY <1>3 DEF IsList
<1> HIDE DEF x, t
<1>5. /\ IsList(heap') /\ Len(heap') = L + 1 /\ \A b \in 1..L : heap'[b] = heap[b]
      /\ heap'[L + 1] = x
  <2>1. OneMore(heap', heap, x)
    BY <1>1, <1>2, Pushed
  <2>2. QED
    BY <2>1 DEF OneMore
<1>6. /\ IsList(held') /\ Len(held') = H + 1 /\ \A b \in 1..H : held'[b] = held[b]
      /\ held'[H + 1] = t /\ DOMAIN held' = 1..(H + 1) /\ DOMAIN held = 1..H
  <2>1. OneMore(held', held, t)
    BY <1>1, <1>2, Pushed
  <2>2. QED
    BY <2>1 DEF OneMore
<1>7. DOMAIN tape = {}
  BY <1>1
<1>8. Covers(t, heap')
  <2>1. Len(heap') \in Nat /\ L + 1 \in 1..Len(heap') /\ Len(heap'[L + 1]) = Product(d.shape)
    BY <1>2, <1>3, <1>5
  <2>2. QED
    BY <1>3, <2>1, NewCovers DEF t
<1> HIDE DEF L, H
<1>9. BuffersOK'
  <2>1. ASSUME NEW b \in 1..(L + 1) PROVE IsList(heap'[b])
    <3>1. b \in 1..L \/ b = L + 1
      BY <1>2
    <3>2. QED
      BY <1>2, <1>4, <1>5, <3>1
  <2>2. QED
    BY <1>5, <2>1 DEF BuffersOK
<1>10. \A u \in Reachable' : Covers(u, heap')
  <2>1. ASSUME NEW i \in 1..(H + 1) PROVE Covers(held'[i], heap')
    <3>1. CASE i \in 1..H
      <4>1. held'[i] = held[i] /\ held[i] \in Reachable
        BY <1>6, <3>1 DEF Reachable, Range
      <4>2. Len(heap) \in Nat /\ Len(heap') \in Nat /\ Len(heap) <= Len(heap')
            /\ \A b \in 1..Len(heap) : Len(heap'[b]) = Len(heap[b])
        BY <1>2, <1>5 DEF L
      <4>3. QED
        BY <4>1, <4>2, StillCovers DEF TapeInv
    <3>2. CASE i = H + 1
      BY <1>6, <1>8, <3>2
    <3>3. QED
      BY <1>2, <3>1, <3>2
  <2>2. Reachable' = {held'[i] : i \in 1..(H + 1)}
    BY <1>1, <1>6, <1>7 DEF Reachable, Range
  <2>3. QED
    BY <2>1, <2>2
<1>11. Private' /\ TapeReplays' /\ IsList(tape')
  BY <1>1, <1>2, <1>7 DEF Private, TapeReplays, Ops
<1>12. QED
  BY <1>1, <1>6, <1>7, <1>9, <1>10, <1>11 DEF TapeInv

LEMMA TakeViewKeeps ==
  ASSUME TapeInv, NEW i \in DOMAIN held, NEW r \in Ranges, TakeView(i, r)
  PROVE  TapeInv'
<1> DEFINE H == Len(held)
           t == held[i]
           u == sectio(t, r[1], r[2])
<1>1. held' = Append(held, u) /\ heap' = heap /\ tape' = tape /\ SectioOK(t, r[1], r[2])
  BY DEF TakeView
<1>2. IsList(held) /\ H \in Nat
  BY DEF TapeInv, IsList
<1>3. t \in Reachable /\ Covers(t, heap) /\ Len(heap[t.buf]) \in Nat
  <2>1. t \in Reachable
    BY DEF Reachable, Range
  <2>2. Covers(t, heap)
    BY <2>1 DEF TapeInv
  <2>3. t.buf \in 1..Len(heap)
    BY <2>2 DEF Covers
  <2>4. QED
    BY <2>1, <2>2, <2>3 DEF TapeInv, BuffersOK, IsList
<1>4. r[1] \in Int /\ r[2] \in Int
  BY TapeAssumption
<1> HIDE DEF t
<1>5. Covers(u, heap) /\ u.buf = t.buf
  BY <1>1, <1>3, <1>4, ViewCovers
<1> HIDE DEF u, H
<1>6. /\ IsList(held') /\ Len(held') = H + 1 /\ \A b \in 1..H : held'[b] = held[b]
      /\ held'[H + 1] = u /\ DOMAIN held' = 1..(H + 1) /\ DOMAIN held = 1..H
  <2>1. OneMore(held', held, u)
    BY <1>1, <1>2, Pushed
  <2>2. QED
    BY <2>1 DEF OneMore, H
<1>7. Reachable' = Reachable \cup {u}
  <2>1. 1..(H + 1) = (1..H) \cup {H + 1}
    BY <1>2
  <2>2. {held'[b] : b \in 1..(H + 1)} = {held[b] : b \in 1..H} \cup {u}
    BY <1>6, <2>1
  <2>3. QED
    BY <1>1, <1>6, <2>2 DEF Reachable, Range
<1>8. QED
  BY <1>1, <1>3, <1>5, <1>6, <1>7
     DEF TapeInv, BuffersOK, NodeOK, Private, TapeReplays, Ops, ParentValues, ValueAt

LEMMA WriteKeeps ==
  ASSUME TapeInv, NEW t \in Reachable, NEW x, WriteElement(t, x)
  PROVE  TapeInv'
<1> DEFINE L == Len(heap)
           s == heap[t.buf]
           n == Len(s)
           f == [k \in DOMAIN s |-> IF k - 1 \in Range(logical_offsets(t)) THEN x ELSE s[k]]
<1>1. heap' = [heap EXCEPT ![t.buf] = f] /\ held' = held /\ tape' = tape
  BY DEF WriteElement, reple
<1>2. IsList(heap) /\ L \in Nat /\ heap = [b \in 1..L |-> heap[b]] /\ t.buf \in 1..L
      /\ (\A b \in 1..L : IsList(heap[b])) /\ Covers(t, heap)
  BY DEF TapeInv, BuffersOK, IsList, Covers
<1>3. n \in Nat /\ DOMAIN s = 1..n
  <2>1. IsList(s)
    BY <1>2
  <2> HIDE DEF s
  <2>2. QED
    BY <2>1, ListType
<1>4. IsList(f) /\ Len(f) = n
  <2>1. f = [k \in 1..n |-> f[k]]
    BY <1>3
  <2> HIDE DEF f
  <2>2. QED
    BY <1>3, <2>1, ListFacts
<1> HIDE DEF f
<1>5. heap' = [b \in 1..L |-> heap'[b]] /\ heap'[t.buf] = f
      /\ \A b \in 1..L : b # t.buf => heap'[b] = heap[b]
  <2> HIDE DEF L
  <2>1. DOMAIN heap = 1..L
    BY <1>2
  <2>2. QED
    BY <1>1, <1>2, <2>1
<1>6. IsList(heap') /\ Len(heap') = L
  <2> HIDE DEF L
  <2>1. QED
    BY <1>2, <1>5, ListFacts
<1>7. \A b \in 1..L : Len(heap'[b]) = Len(heap[b]) /\ IsList(heap'[b])
  BY <1>2, <1>4, <1>5
<1> HIDE DEF n, s
<1>8. Reachable' = Reachable
  BY <1>1 DEF Reachable
<1>9. \A u : Covers(u, heap) => Covers(u, heap')
  <2>1. Len(heap) \in Nat /\ Len(heap') \in Nat /\ Len(heap) <= Len(heap')
        /\ \A b \in 1..Len(heap) : Len(heap'[b]) = Len(heap[b])
    BY <1>2, <1>6, <1>7
  <2>2. QED
    BY <2>1, StillCovers
<1>10. \A i \in DOMAIN tape : /\ tape[i].value.buf \in 1..L
                              /\ heap'[tape[i].value.buf] = heap[tape[i].value.buf]
  BY <1>5 DEF TapeInv, NodeOK, Covers, Private
<1>11. \A i \in DOMAIN tape : NodeOK(i)'
  BY <1>1, <1>9, <1>10 DEF TapeInv, NodeOK
<1>12. TapeReplays'
  <2>1. ASSUME NEW i \in DOMAIN tape, tape[i].op # "leaf"
        PROVE  Forward(tape[i].op, tape[i].arg,
                       Computed([j \in DOMAIN tape[i].parents |->
                                   Read(heap', tape'[tape[i].parents[j]].value)]))
                 = Read(heap', tape'[i].value)
    <3>1. /\ Read(heap', tape'[i].value) = Read(heap, tape[i].value)
          /\ Computed([j \in DOMAIN tape[i].parents |-> Read(heap', tape'[tape[i].parents[j]].value)])
               = ParentValues(tape[i].parents)
      BY <1>1, <1>10, HistoryKept
    <3>2. Forward(tape[i].op, tape[i].arg, ParentValues(tape[i].parents)) = Read(heap, tape[i].value)
      BY <2>1 DEF TapeInv, TapeReplays, Ops, ValueAt
    <3>3. QED
      BY <3>1, <3>2
  <2>2. QED
    BY <1>1, <2>1 DEF TapeReplays, Ops, ParentValues, ValueAt
<1>13. BuffersOK' /\ Private'
  BY <1>1, <1>6, <1>7, <1>8 DEF BuffersOK, Private, TapeInv
<1>14. QED
  BY <1>1, <1>8, <1>9, <1>11, <1>12, <1>13 DEF TapeInv

LEMMA TapeSteps == ASSUME TapeInv, [TapeNext]_tapeVars PROVE TapeInv'
<1> USE DEF TapeNext
<1>1. CASE \E d \in Inputs : Structa(d)
  BY <1>1, StructaKeeps
<1>2. CASE \E i \in DOMAIN held, r \in Ranges : TakeView(i, r)
  BY <1>2, TakeViewKeeps
<1>3. CASE \E t \in Reachable : WriteElement(t, 2)
  BY <1>3, WriteKeeps
<1>4. CASE \E i \in DOMAIN held : leaf(i)
  BY <1>4, LeafKeeps
<1>5. ASSUME NEW v \in DOMAIN tape
      PROVE  <<v>> \in Seq(DOMAIN tape) /\ <<v>> # <<>>
  OBVIOUS
<1>6. CASE Unary
  <2>1. PICK op \in UnaryOps, v \in DOMAIN tape : Apply(op, 0, <<v>>)
    BY <1>6 DEF Unary
  <2>2. op \notin BinaryOps /\ op \notin {"forma", "permute", "sectio"}
    BY DEF UnaryOps, BinaryOps
  <2>3. QED
    BY <1>5, <2>1, <2>2, ApplyKeeps
<1>7. CASE binary
  <2>1. PICK op \in BinaryOps, v \in DOMAIN tape, w \in DOMAIN tape : Apply(op, 0, <<v, w>>)
    BY <1>7 DEF binary
  <2>2. op \notin {"forma", "permute", "sectio"}
    BY DEF BinaryOps
  <2>3. <<v, w>> \in Seq(DOMAIN tape) /\ <<v, w>> # <<>> /\ Len(<<v, w>>) > 1
    OBVIOUS
  <2>4. QED
    BY <2>1, <2>2, <2>3, ApplyKeeps
<1>8. CASE Scala
  <2>1. PICK f \in Factors, v \in DOMAIN tape : Apply("scala", f, <<v>>)
    BY <1>8 DEF Scala
  <2>2. QED
    BY <1>5, <2>1, ApplyKeeps DEF BinaryOps
<1>9. CASE Forma
  <2>1. PICK s \in Shapes, v \in DOMAIN tape : Apply("forma", s, <<v>>)
    BY <1>9 DEF Forma
  <2>2. s \in Seq(Nat)
    BY TapeAssumption
  <2>3. QED
    BY <1>5, <2>1, <2>2, ApplyKeeps DEF BinaryOps
<1>10. CASE Permute
  <2>1. PICK axes \in AxisLists, v \in DOMAIN tape : Apply("permute", axes, <<v>>)
    BY <1>10 DEF Permute
  <2>2. axes \in Seq(Int)
    BY TapeAssumption
  <2>3. QED
    BY <1>5, <2>1, <2>2, ApplyKeeps DEF BinaryOps
<1>11. CASE Sectio
  <2>1. PICK r \in Ranges, v \in DOMAIN tape : Apply("sectio", r, <<v>>)
    BY <1>11 DEF Sectio
  <2>2. r \in Int \X Int
    BY TapeAssumption
  <2>3. QED
    BY <1>5, <2>1, <2>2, ApplyKeeps DEF BinaryOps
<1>12. CASE LayerNorm
  <2>1. PICK axis \in {0, 1}, gamma \in BOOLEAN, beta \in BOOLEAN, v \in DOMAIN tape :
          \E g \in Optional(gamma), b \in Optional(beta) :
            Apply("layernorm", [axis |-> axis, gamma |-> gamma, beta |-> beta], <<v>> \o g \o b)
    BY <1>12 DEF LayerNorm
  <2> PICK g \in Optional(gamma), b \in Optional(beta) :
        Apply("layernorm", [axis |-> axis, gamma |-> gamma, beta |-> beta], <<v>> \o g \o b)
    BY <2>1
  <2> DEFINE parents == <<v>> \o g \o b
  <2>2. parents \in Seq(DOMAIN tape) /\ parents # <<>>
    <3>1. <<v>> \in Seq(DOMAIN tape) /\ g \in Seq(DOMAIN tape) /\ b \in Seq(DOMAIN tape)
      <4>1. g \in Seq(DOMAIN tape)
        <5>1. CASE gamma
          <6>1. g \in {<<w>> : w \in DOMAIN tape}
            BY <5>1 DEF Optional
          <6>2. PICK w \in DOMAIN tape : g = <<w>>
            BY <6>1
          <6>3. QED
            BY <6>2
        <5>2. CASE ~gamma
          BY <5>2 DEF Optional
        <5>3. QED
          BY <5>1, <5>2
      <4>2. b \in Seq(DOMAIN tape)
        <5>1. CASE beta
          <6>1. b \in {<<w>> : w \in DOMAIN tape}
            BY <5>1 DEF Optional
          <6>2. PICK w \in DOMAIN tape : b = <<w>>
            BY <6>1
          <6>3. QED
            BY <6>2
        <5>2. CASE ~beta
          BY <5>2 DEF Optional
        <5>3. QED
          BY <5>1, <5>2
      <4>3. QED
        BY <4>1, <4>2
    <3>2. parents \in Seq(DOMAIN tape) /\ Len(parents) = 1 + Len(g) + Len(b)
      BY <3>1
    <3>3. Len(parents) # 0
      BY <3>1, <3>2
    <3>4. QED
      BY <3>2, <3>3
  <2> HIDE DEF parents
  <2> DEFINE arg == [axis |-> axis, gamma |-> gamma, beta |-> beta]
  <2> HIDE DEF arg
  <2>3. Apply("layernorm", arg, parents)
    BY <2>1 DEF parents, arg
  <2>4. QED
    BY <2>2, <2>3, ApplyKeeps DEF BinaryOps
<1>13. CASE \E i \in DOMAIN tape : backward(i)
  BY <1>13 DEF backward, TapeInv, BuffersOK, Reachable, NodeOK, Private, TapeReplays, Ops,
               ParentValues, ValueAt
<1>14. CASE UNCHANGED tapeVars
  BY <1>14 DEF tapeVars, TapeInv, BuffersOK, Reachable, NodeOK, Private, TapeReplays, Ops,
               ParentValues, ValueAt
<1>15. QED
  BY <1>1, <1>2, <1>3, <1>4, <1>6, <1>7, <1>8, <1>9, <1>10, <1>11, <1>12, <1>13, <1>14

(* The history of the tape replays, and no descriptor leaves its buffer,   *)
(* whatever the caller writes: `record` gives the tape and the caller a    *)
(* copy each.                                                              *)
THEOREM BuffersAreSound == TapeSpec => []BuffersSound
<1>1. TapeInit => TapeInv
  BY TapeStarts
<1>2. TapeInv /\ [TapeNext]_tapeVars => TapeInv'
  BY TapeSteps
<1>3. TapeInv => BuffersSound
  <2>1. SUFFICES ASSUME TapeInv PROVE DescriptorsInBounds
    BY DEF BuffersSound, TapeInv
  <2>2. \A t \in Reachable \cup {tape[i].value : i \in DOMAIN tape} : Covers(t, heap)
    BY <2>1 DEF TapeInv, NodeOK
  <2>3. \A t : Covers(t, heap) => Len(heap[t.buf]) \in Nat
    BY <2>1 DEF TapeInv, BuffersOK, IsList, Covers
  <2>4. QED
    BY <2>2, <2>3, InBounds DEF DescriptorsInBounds
<1>4. QED
  BY <1>1, <1>2, <1>3, PTL DEF TapeSpec
=============================================================================
