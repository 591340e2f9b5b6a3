--------------------------- MODULE MCFrameReader ---------------------------
(* Instances of FrameReader for TLC: a buffer of five bytes, headers of    *)
(* three, or four when the length has a second digit (from 4 on).          *)
EXTENDS FrameReader

MCHeaderWidth(n) == IF n < 4 THEN 3 ELSE 4

(* The shortest content, which ends with the buffer; one that is longer    *)
(* and has white space after that; one with the longer header.             *)
MCBody ==
  {<<"char", "char">>, <<"char", "char", "blank">>,
   <<"char", "blank", "char", "char">>}
MCIndented == {<<"char", "blank", "char">>}
MCAnyBody == MCBody \cup MCIndented
=============================================================================
