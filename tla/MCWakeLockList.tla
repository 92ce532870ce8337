--------------------------- MODULE MCWakeLockList ---------------------------
(* Constants of the instance of WakeLockList that TLC checks. *)
EXTENDS WakeLockList
CONSTANTS usb, alarm, idle
=============================================================================
