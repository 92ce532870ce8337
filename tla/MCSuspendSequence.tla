------------------------- MODULE MCSuspendSequence -------------------------
(* A user task, a vfork parent and a kernel thread. *)
EXTENDS SuspendSequence
=============================================================================
