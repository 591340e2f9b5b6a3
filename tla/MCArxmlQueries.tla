--------------------------- MODULE MCArxmlQueries ---------------------------
(* Instances of ArxmlQueries for TLC.                                      *)
EXTENDS ArxmlQueries

CONSTANTS a, b

MCName == {a, b}
MCTarget == {<<a>>, <<a, b>>}
=============================================================================
