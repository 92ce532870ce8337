----------------------------- MODULE MCWakeLock -----------------------------
(* Constants of the instances of WakeLock that TLC checks. *)
EXTENDS WakeLock
CONSTANTS usb, alarm, idle
=============================================================================
