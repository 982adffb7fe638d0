----------------------------- MODULE MCRuntime -----------------------------
(***************************************************************************)
(* What a compiled program uses: the arena, tensors and the autograd tape, *)
(* the collections of the LLVM host, intervals, sparse tensors and the     *)
(* builtin routes.  They share no state, so a behaviour exercises one of   *)
(* them, chosen at the start, and the others rest in an initial state: the *)
(* state space is the sum of theirs.                                       *)
(***************************************************************************)
EXTENDS Arena, Autograd, HostCollections, Intervallum, Sparsa, Routes

VARIABLE subject

Library == <<vars, tapeVars, hostVars, intervalVars, sparseVars, routeVars>>

IntervalRests ==
  LET ty == CHOOSE t \in Types : TRUE
      point == [initium |-> ty.min, finis |-> ty.min, inclusive |-> TRUE]
  IN  /\ pair = [ty |-> ty, a |-> point, b |-> point]
      /\ walk = [cursor |-> ty.min, exhausted |-> FALSE, out |-> <<>>, ended |-> FALSE]

SparseRests == sparse = vacua(<<>>) /\ dense = [c \in Coordinates(<<>>) |-> Default] /\ writes = 0

Tree(a, b, d, da) ==
  [p \in Path |-> CASE p = <<10>> -> a [] p = <<11>> -> b [] p = <<12>> -> d [] OTHER -> da]
EmptyTree == Tree(Absent, Absent, Absent, Absent)

MCInit ==
  /\ subject \in {"arena", "tape", "host", "interval", "sparse", "routes"}
  /\ Init /\ TapeInit /\ HostInit
  /\ RouteInit /\ (subject # "routes" => files = EmptyTree)
  /\ IF subject = "interval" THEN IntervalInit ELSE IntervalRests
  /\ IF subject = "sparse" THEN SparseInit ELSE SparseRests

MCNext ==
  /\ UNCHANGED subject
  /\ \/ /\ subject = "arena" /\ Next
        /\ UNCHANGED <<tapeVars, hostVars, intervalVars, sparseVars, routeVars>>
     \/ /\ subject = "tape" /\ TapeNext
        /\ UNCHANGED <<vars, hostVars, intervalVars, sparseVars, routeVars>>
     \/ /\ subject = "host" /\ HostNext
        /\ UNCHANGED <<vars, tapeVars, intervalVars, sparseVars, routeVars>>
     \/ /\ subject = "interval" /\ IntervalNext
        /\ UNCHANGED <<vars, tapeVars, hostVars, sparseVars, routeVars>>
     \/ /\ subject = "sparse" /\ SparseNext
        /\ UNCHANGED <<vars, tapeVars, hostVars, intervalVars, routeVars>>
     \/ /\ subject = "routes" /\ RouteNext
        /\ UNCHANGED <<vars, tapeVars, hostVars, intervalVars, sparseVars>>

MCSpec == MCInit /\ [][MCNext]_<<subject, Library>>

-----------------------------------------------------------------------------
(* Tape: arithmetic modulo 7, with arbitrary tables for the functions that *)
(* are not algebraic, and tensors of rank one and two.  3 is two thirds    *)
(* and 5 one third: <<3, 5>> is a target that is not one-hot.              *)
MCExp == [x \in 0..6 |-> 1 + (x % 3)]
MCLog == [x \in 0..6 |-> (3 * x + 1) % 7]
MCSqrt == [x \in 0..6 |-> (5 * x) % 7]
MCRSqrt == [x \in 0..6 |-> 1 + (x % 4)]
MCGelu == [x \in 0..6 |-> (x * x) % 7]
MCGeluD == [x \in 0..6 |-> (x + 4) % 7]
MCUnit == {0, 1, 3, 5}
MCInputs == {Dense(<<2>>, <<3, 5>>), Dense(<<2, 2>>, <<1, 2, 3, 1>>)}
MCShapes == {<<2, 1, 1>>}
MCAxes == {<<1, 0>>, <<1, 2, 0>>}
MCRanges == {<<1, 2>>}
MCStages ==
  <<UnaryOps \cup BinaryOps \cup {"scala", "forma", "permute", "sectio", "layernorm"},
    {"mul", "relu"}, {"summa"}>>

(* Host: two pointers to one text, and a third to another. *)
MCBytes == [p \in {"p1", "p2", "p3"} |-> IF p = "p3" THEN "y" ELSE "x"]

(* Intervals: a signed and an unsigned type of six values, the widest.     *)
MCTypes == {[min |-> -3, max |-> 2], [min |-> 0, max |-> 5]}

(* Sparse tensors: rank zero to three, an empty axis and a negative one,   *)
(* and one that has more elements than can be counted.                     *)
MCSparseShapes == {<<>>, <<3>>, <<2, 2>>, <<2, 0>>, <<1, 2, 2>>, <<-1>>, <<3, 2>>}
MCIndices == UNION {[1..n -> -1..2] : n \in 0..2} \cup {<<0, i, j>> : i, j \in 0..1}

(* Routes: two paths at the root, a directory and a path in it; an empty   *)
(* file system and two with links, to a file, to a directory and to        *)
(* themselves.  Lines that end in CR NL, in CR CR NL and in CR alone, and  *)
(* a byte of no text.                                                      *)
MCPath == {<<10>>, <<11>>, <<12>>, <<12, 10>>}
MCFileSystems ==
  {EmptyTree,
   Tree(File(<<1, 0, 1>>, NewMode), Link(<<10>>), Directory, File(<<0, 2>>, NewMode)),
   Tree(Link(<<12>>), Link(<<11>>), Directory, File(<<2, 2, 0>>, 384))}
MCRouteTexts == {<<2, 0>>}
MCBlobs == {<<1, -1>>}
MCPattern == <<1>>
=============================================================================
