--------------------------- MODULE MCScreenParts ---------------------------
(* ScreenParts with two models that differ in everything, for TLC.          *)
EXTENDS ScreenParts

MCTiers == [m \in Models |-> IF m \in Sees THEN {"low", "high"} ELSE {"high", "max"}]
MCParaText == <<"x", "y", "x">>
=============================================================================
