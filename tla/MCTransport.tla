---------------------------- MODULE MCTransport ----------------------------
(***************************************************************************)
(* An instance of Transport: numbers up to 15, contents of four bytes, and *)
(* transfers within, at and past their end, one of whose end wraps to      *)
(* zero.  One measurement gives a rate of zero, one saturates and one is ignored. *)
(***************************************************************************)
EXTENDS Transport

CONSTANTS a, b

SpecOf(offset, length, generation, destination) ==
  [transfer |-> "t", owner |-> a, destination |-> destination,
   offset |-> offset, length |-> length, direction |-> "H2D",
   dtype |-> "f32", layout |-> "row", generation |-> generation]
MCSpecs ==
  {SpecOf(0, 4, 1, b), SpecOf(2, 2, 1, b), SpecOf(1, 1, 2, b),
   SpecOf(2, 3, 1, b), SpecOf(15, 1, 1, b), SpecOf(0, 1, 1, a),
   [SpecOf(0, 1, 1, b) EXCEPT !.direction = "D2H"],
   [SpecOf(0, 1, 1, b) EXCEPT !.layout = "tiled"]}

SourceOf(owner, generation) ==
  [owner |-> owner, dtype |-> "f32", layout |-> "row",
   generation |-> generation, bytes |-> 4]
MCSources ==
  {SourceOf(a, 1), SourceOf(a, 2), SourceOf(b, 1),
   [SourceOf(a, 1) EXCEPT !.dtype = "f16"]}

MCBudget == [bytes |-> 8, time |-> 9]
MCRates == [d \in Direction |-> IF d = "BIDI" THEN 3 ELSE 2]

Measured(bytes, elapsed) ==
  [direction |-> "H2D", bytes |-> bytes, elapsed |-> elapsed]
MCMeasurements == {Measured(0, 1), Measured(15, 1), Measured(1, 2), Measured(1, 0)}
=============================================================================
