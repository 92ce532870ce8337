----------------------------- MODULE AndroidLog -----------------------------
(***************************************************************************)
(* What a log device of drivers/staging/android/logger.c promises: each    *)
(* open reader has a queue of whole entries.  A write appends its entry to *)
(* every queue; where the bytes of the ring it takes are still queued, the *)
(* oldest entries of that queue are dropped first.  A write that fails may *)
(* have dropped them all the same, and nothing else.                       *)
(***************************************************************************)
EXTENDS Naturals, Sequences

CONSTANTS
  Reader,    \* the files that may be opened for reading
  Fresh,     \* stands for the next reader to be opened
  Entry,     \* the entries, sequences of bytes
  Size       \* bytes of the ring

VARIABLES
  opened,    \* the open readers
  unread     \* the entries each of them, and Fresh, has still to read

vars == <<opened, unread>>

(* The bytes of the entries of q. *)
Bytes(q) ==
  LET sum[n \in 0 .. Len(q)] == IF n = 0 THEN 0 ELSE sum[n - 1] + Len(q[n])
  IN sum[Len(q)]

(* The least number of entries of q that hold len bytes. *)
Oldest(q, len) ==
  CHOOSE n \in 1 .. Len(q) :
    /\ Bytes(SubSeq(q, 1, n)) >= len
    /\ Bytes(SubSeq(q, 1, n - 1)) < len

(* q without the entries that have to go for a new one of len bytes.  One  *)
(* byte of the ring stays free, so that a full ring is not an empty one.   *)
Room(q, len) ==
  IF Bytes(q) + len < Size THEN q
  ELSE SubSeq(q, Oldest(q, len) + 1, Len(q))

Init ==
  /\ opened = {}
  /\ unread = [x \in Reader \cup {Fresh} |-> <<>>]

Open(r) ==
  /\ r \notin opened
  /\ opened' = opened \cup {r}
  /\ unread' = [unread EXCEPT ![r] = unread[Fresh]]

Close(r) ==
  /\ r \in opened
  /\ opened' = opened \ {r}
  /\ unread' = [unread EXCEPT ![r] = <<>>]

(* Queues of closed readers are empty and stay so. *)
Kept(x) == x \in opened \cup {Fresh}

(* The entries that must go are dropped, whatever becomes of the write. *)
Drop(len) ==
  /\ unread' = [x \in DOMAIN unread |-> IF Kept(x) THEN Room(unread[x], len) ELSE <<>>]
  /\ UNCHANGED opened

Write(e) ==
  /\ unread' = [x \in DOMAIN unread |-> IF Kept(x) THEN Append(unread[x], e) ELSE <<>>]
  /\ \A x \in opened \cup {Fresh} : Bytes(unread'[x]) < Size
  /\ UNCHANGED opened

(* One entry, the oldest, is handed over. *)
Read(r) ==
  /\ r \in opened /\ unread[r] # <<>>
  /\ unread' = [unread EXCEPT ![r] = Tail(unread[r])]
  /\ UNCHANGED opened

Flush ==
  /\ unread' = [x \in DOMAIN unread |-> <<>>]
  /\ UNCHANGED opened

Next ==
  \/ \E r \in Reader : Open(r) \/ Close(r) \/ Read(r)
  \/ \E e \in Entry : Drop(Len(e)) \/ Write(e)
  \/ Flush

Spec == Init /\ [][Next]_vars
=============================================================================
