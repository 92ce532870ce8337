------------------------------ MODULE MCAlarm -------------------------------
(* Alarm with the two types that wake the system. *)
EXTENDS Alarm
=============================================================================
