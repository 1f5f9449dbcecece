--------------------------- MODULE MCPowerManager ---------------------------
(* Instances of PowerManager for TLC: the levels of a screen and a keypad. *)
EXTENDS PowerManager

CONSTANTS screen, keypad

MCLevel == [h \in Handlers |-> IF h = screen THEN 50 ELSE 150]
=============================================================================
