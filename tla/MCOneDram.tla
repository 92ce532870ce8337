----------------------------- MODULE MCOneDram -----------------------------
(* One port of a few bytes. *)
EXTENDS OneDram
=============================================================================
