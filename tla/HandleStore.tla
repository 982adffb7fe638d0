---------------------------- MODULE HandleStore ----------------------------
(***************************************************************************)
(* What a generational arena promises its users, without slots, free lists *)
(* or generations: a handle is given out once, names the value it was      *)
(* given out for until that value is removed, and names nothing            *)
(* afterwards.                                                             *)
(***************************************************************************)
CONSTANTS Handle, Value

VARIABLES issued, store     \* handles ever given out; what the live ones name

Init == issued = {} /\ store = [h \in {} |-> 0]

Insert ==
  \E h \in Handle \ issued, v \in Value :
    /\ issued' = issued \cup {h}
    /\ store' = [g \in DOMAIN store \cup {h} |-> IF g = h THEN v ELSE store[g]]

Write ==
  \E h \in DOMAIN store, v \in Value :
    /\ store' = [store EXCEPT ![h] = v]
    /\ UNCHANGED issued

Remove ==
  \E h \in DOMAIN store :
    /\ store' = [g \in DOMAIN store \ {h} |-> store[g]]
    /\ UNCHANGED issued

Next == Insert \/ Write \/ Remove

Spec == Init /\ [][Next]_<<issued, store>>
=============================================================================
