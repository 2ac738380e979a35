--------------------------- MODULE MCPowerManager ---------------------------
(***************************************************************************)
(* Instances of PowerManager for TLC.                                      *)
(***************************************************************************)
EXTENDS PowerManager

CONSTANT HighHandlers   \* the handlers of the higher of two levels

MCLevel == [h \in Handlers |-> IF h \in HighHandlers THEN 2 ELSE 1]
=============================================================================
