----------------------------- MODULE KernelList -----------------------------
(***************************************************************************)
(* The doubly linked lists of Kernel/include/linux/list.h, as sequences of *)
(* the objects that are linked into them.                                  *)
(***************************************************************************)
EXTENDS Integers, Sequences, SequencesExt

(* The list s behind list_del(&d->link), if d is on it. *)
list_del(s, d) ==
  IF d \in ToSet(s) THEN RemoveAt(s, CHOOSE i \in 1..Len(s) : s[i] = d) ELSE s
=============================================================================
