--------------------------- MODULE MCConversation ---------------------------
(***************************************************************************)
(* Instances of Conversation: who consumes, and how.  c1 alone, blocking,  *)
(* calls every materializer; c2 alone awaits, and again after it dropped   *)
(* its future; c3 blocks beside a tuus_fini, or beside a second blocking   *)
(* consumer and a view.  The others receive from a stream that is refused, *)
(* or that a view looks at.                                                *)
(***************************************************************************)
EXTENDS Conversation

CONSTANTS c1, c2, c3, c4

CONSTANTS s1, s2

Setup(roles, producers) ==
  [x \in Consumer \cup Sender |->
     IF x \in DOMAIN roles THEN roles[x]
     ELSE IF x \in producers THEN "producer" ELSE "absent"]

Blocking == Setup([c \in {c1} |-> "sync"], {s1, s2})
Awaiting == Setup([c \in {c2} |-> "async"], {s1})
BesideFini == Setup([c \in {c3, c4} |-> IF c = c3 THEN "sync" ELSE "fini"], {s1})
Shared == Setup([c \in {c1, c3, c4} |-> IF c = c1 THEN "view" ELSE "sync"], {s1})
AwaitingAndFini == Setup([c \in {c3, c4} |-> IF c = c3 THEN "async" ELSE "fini"], {s1, s2})
AwaitingAndView == Setup([c \in {c3, c4} |-> IF c = c3 THEN "async" ELSE "view"], {s1})

MCRoles == {Blocking, Awaiting, BesideFini, Shared}
RefusableRoles == {AwaitingAndFini}
ViewedRoles == {AwaitingAndView}
BlockingRoles == {BesideFini}

MCKinds ==
  [c \in Consumer |-> IF c = c1 THEN {"vacuum", "valor", "instans", "frames"} ELSE {"vacuum"}]
MCTypes ==
  [c \in Consumer |-> IF c = c1 THEN {"Vec<String>", "Vec<u8>", "String", "i64"}
                      ELSE IF c = c2 THEN {"String"} ELSE {}]
MCPayloads ==
  [s \in Sender |-> {[kind |-> k, value |-> <<1>>] :
                       k \in IF s = s1 THEN {"textus", "octeti"} ELSE {"textus", "numerus"}}]
MCCalls == [c \in Consumer |-> IF c = c2 THEN 2 ELSE 1]
=============================================================================
