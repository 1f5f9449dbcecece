--------------------------- MODULE MCEarlySuspend ---------------------------
(* Instances of EarlySuspend for TLC: three handlers, two of them of the   *)
(* same level, one without a resume hook.                                  *)
EXTENDS EarlySuspend

CONSTANTS screen, keypad, console

MCLevel == [h \in Handlers |-> IF h = screen THEN 50 ELSE 150]
=============================================================================
