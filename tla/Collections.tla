---------------------------- MODULE Collections ----------------------------
(***************************************************************************)
(* What the tables, sets and lists of a Faber program promise: a table     *)
(* maps a key to the value last put under it, a set holds members once, a  *)
(* list is a sequence, and a call changes the one collection it is given   *)
(* or makes a new one.  Equal is equality as the program sees it: a value  *)
(* of Odd (NaN, a text that cannot be read) equals nothing, itself         *)
(* included, so it is never found again and never removed.                 *)
(***************************************************************************)
EXTENDS Sequences, Naturals, SequencesExt

CONSTANTS Key, Val, Odd

VARIABLES tables, sets, lists
collections == <<tables, sets, lists>>

Equal(x, y) == x = y /\ x \notin Odd

PutIn(t, k, v) == {e \in t : ~Equal(e[1], k)} \cup {<<k, v>>}
DeleteFrom(t, k) == {e \in t : ~Equal(e[1], k)}
RemoveFrom(s, k) == {x \in s : ~Equal(x, k)}
Common(s, t) == {x \in s : \E y \in t : Equal(x, y)}

Init == tables = <<>> /\ sets = <<>> /\ lists = <<>>

TableStep ==
  /\ UNCHANGED <<sets, lists>>
  /\ \/ tables' = Append(tables, {})
     \/ \E h \in DOMAIN tables, k \in Key :
          \/ \E v \in Val : tables' = [tables EXCEPT ![h] = PutIn(@, k, v)]
          \/ tables' = [tables EXCEPT ![h] = DeleteFrom(@, k)]

SetStep ==
  /\ UNCHANGED <<tables, lists>>
  /\ \/ sets' = Append(sets, {})
     \/ \E l \in DOMAIN lists : sets' = Append(sets, Range(lists[l]))
     \/ \E h \in DOMAIN sets, k \in Key :
          \/ sets' = [sets EXCEPT ![h] = @ \cup {k}]
          \/ sets' = [sets EXCEPT ![h] = RemoveFrom(@, k)]
     \/ \E l, r \in DOMAIN sets :
          \E s \in {sets[l] \cup sets[r], Common(sets[l], sets[r]),
                    sets[l] \ Common(sets[l], sets[r]),
                    (sets[l] \cup sets[r]) \ Common(sets[l], sets[r])} :
            sets' = Append(sets, s)

ListStep ==
  /\ UNCHANGED <<tables, sets>>
  /\ \/ Len(lists') = Len(lists) + 1 /\ Front(lists') = lists
     \/ \E h \in DOMAIN lists :
          DOMAIN lists' = DOMAIN lists
          /\ \A g \in DOMAIN lists \ {h} : lists'[g] = lists[g]

Next == TableStep \/ SetStep \/ ListStep

Spec == Init /\ [][Next]_collections
=============================================================================
