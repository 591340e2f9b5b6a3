--------------------------- MODULE MCArxmlParser ---------------------------
(* Instances of ArxmlParser for TLC.                                       *)
EXTENDS ArxmlParser

CONSTANTS a, b

MCName == {a, b}
MCTarget == {<<a>>}
=============================================================================
