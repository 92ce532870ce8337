---------------------------- MODULE MCDpramRing ----------------------------
(* One port, with rings of a few bytes. *)
EXTENDS DpramRing
=============================================================================
