----------------------------- MODULE MCDevicePM -----------------------------
(* A host, its card, the disk on it, and a device without relations. *)
EXTENDS DevicePM
CONSTANTS host, card, disk, keypad
MCParent == [d \in Device |-> CASE d = card -> host [] d = disk -> card [] OTHER -> NoDevice]
=============================================================================
