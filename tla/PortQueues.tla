----------------------------- MODULE PortQueues -----------------------------
(***************************************************************************)
(* What a port of the modem link promises: two bounded first-in first-out  *)
(* queues of bytes, one in each direction.  DpramRing implements it.       *)
(***************************************************************************)
EXTENDS Integers, Sequences

CONSTANTS
  Byte,
  OutRoom,   \* bytes the queue to the phone holds
  InRoom     \* bytes the queue from the phone holds

VARIABLES
  outq,      \* written by the driver, not yet read by the phone
  inq,       \* written by the phone, not yet read by the driver
  io         \* the latest transfer: what was done, and with which bytes

qvars == <<outq, inq, io>>

Init == outq = <<>> /\ inq = <<>> /\ io.bytes = <<>>

(* The bytes of the transfer go behind q, or come from its front. *)
Put(q) == q \o io'.bytes
Got(q, rest) == q = io'.bytes \o rest

DriverWrite ==
  /\ io'.op = "write"
  /\ outq' = Put(outq)
  /\ Len(outq') <= OutRoom
  /\ UNCHANGED inq

PhoneRead ==
  /\ io'.op = "phone_read"
  /\ Got(outq, outq')
  /\ UNCHANGED inq

PhoneWrite ==
  /\ io'.op = "phone_write"
  /\ inq' = Put(inq)
  /\ Len(inq') <= InRoom
  /\ UNCHANGED outq

(* The line discipline gets a prefix of the queue, and the rest stays. *)
DriverRead ==
  /\ io'.op = "read"
  /\ Got(inq, inq')
  /\ UNCHANGED outq

(* With nobody to hand them to, the bytes are dropped. *)
DriverDrop ==
  /\ io'.op = "drop"
  /\ inq' = <<>>
  /\ UNCHANGED outq

Reset ==
  /\ io'.op = "reset"
  /\ outq' = <<>>
  /\ inq' = <<>>

Next ==
  \/ DriverWrite \/ PhoneRead \/ PhoneWrite
  \/ DriverRead \/ DriverDrop \/ Reset

Spec == Init /\ [][Next]_qvars
=============================================================================
