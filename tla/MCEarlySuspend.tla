--------------------------- MODULE MCEarlySuspend ---------------------------
(* Early suspend with two handlers: drawing stops before the frame buffer  *)
(* is switched off.                                                        *)
EXTENDS FbEarlySuspend
CONSTANTS evdev, disable
MCLevel == [h \in Handler |-> IF h = fb THEN 100 ELSE 150]
=============================================================================
