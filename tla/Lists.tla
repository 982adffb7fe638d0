------------------------------- MODULE Lists -------------------------------
(***************************************************************************)
(* Lists: what Vec::retain and a filtering loop leave of one, the values   *)
(* at some of its places in their order, and what sort makes of a set.     *)
(***************************************************************************)
EXTENDS Integers, Sequences, FiniteSets

Seqs == INSTANCE SequencesExt

(* retain and filter: the values at some places, in their order. *)
Kept(values, places) ==
  LET Upto[n \in 0..Len(values)] ==
        IF n = 0 THEN <<>>
        ELSE IF n \in places THEN Append(Upto[n - 1], values[n]) ELSE Upto[n - 1]
  IN  Upto[Len(values)]

(* sort, of different numbers: before each of them come the smaller ones. *)
InOrder(S) ==
  [k \in 1..Cardinality(S) |-> CHOOSE x \in S : Cardinality({y \in S : y < x}) = k - 1]
=============================================================================
