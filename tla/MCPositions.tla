---------------------------- MODULE MCPositions ----------------------------
(* Instances of Positions for TLC.                                         *)
EXTENDS Positions

CONSTANTS a, b

MCName == {a, b}
MCTarget == {<<a>>, <<a, b>>}
=============================================================================
