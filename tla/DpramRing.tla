----------------------------- MODULE DpramRing -----------------------------
(***************************************************************************)
(* The two ring buffers of one port of the modem link, in the memory bank  *)
(* shared with the phone: dpram_write, dpram_read, dpram_drop_data,        *)
(* dpram_init_and_report and the write_room and chars_in_buffer methods of *)
(* modules/dpram/dpram.c.                                                  *)
(*                                                                         *)
(* Either side touches the bank only while the semaphore is with it (see   *)
(* OneDram), so each access of a ring is one action.  The phone's side is  *)
(* not in the repository: it is taken to use the rings as the driver does. *)
(***************************************************************************)
EXTENDS Integers, Sequences

CONSTANTS
  Byte,      \* the values of a byte, zero among them
  OutSize,   \* out_buff_size
  InSize,    \* in_buff_size
  MaxLen,    \* bound on the length of one write, of either side
  Short,     \* by how much tty_insert_flip_string may fall short of the
             \* bytes passed to it; {0} while the flip buffer has room
  Segment    \* CLUSTER_SEGMENT, which applies to the raw port alone; at
             \* least InSize for the formatted one

ASSUME RingAssumption ==
  /\ 0 \in Byte
  /\ OutSize \in Nat \ {0}
  /\ InSize \in Nat \ {0}
  /\ MaxLen \in Nat \ {0}
  /\ Short \subseteq Nat
  /\ Segment \in Nat

VARIABLES
  out_head, out_tail, out_buff,    \* PDA2PHONE, in the shared bank
  in_head, in_tail, in_buff,       \* PHONE2PDA, in the shared bank
  out_head_saved, out_tail_saved,  \* of dpram_device_t
  io                               \* history: the latest transfer

outVars == <<out_head, out_tail, out_buff>>
inVars == <<in_head, in_tail, in_buff>>
saved == <<out_head_saved, out_tail_saved>>
ringVars == <<outVars, inVars, saved, io>>

OutPos == 0 .. OutSize - 1
InPos == 0 .. InSize - 1

Io(op, bytes) == [op |-> op, bytes |-> bytes]

(* dpram_clear zeroes the bank; init_devices clears the saved positions. *)
Init ==
  /\ out_head = 0 /\ out_tail = 0
  /\ in_head = 0 /\ in_tail = 0
  /\ out_buff = [p \in OutPos |-> 0]
  /\ in_buff = [p \in InPos |-> 0]
  /\ out_head_saved = 0 /\ out_tail_saved = 0
  /\ io = Io("none", <<>>)
-----------------------------------------------------------------------------
(* Mutant: the byte that tells a full ring from an empty one is not kept   *)
(* free.                                                                   *)
FreeSizeFull(head, tail, size) ==
  IF head < tail THEN tail - head ELSE size - head + tail

(* The computation of freesize in dpram_write. *)
FreeSize(head, tail, size) ==
  IF head < tail THEN tail - head - 1 ELSE size - head + tail - 1

(* The position len bytes on from pos. *)
Advance(pos, len, size) == IF pos + len < size THEN pos + len ELSE pos + len - size

(* buff with the bytes s at head, the rest of them at the start. *)
Store(buff, head, s, size) ==
  [p \in 0 .. size - 1 |->
     IF head <= p /\ p < head + Len(s) THEN s[p - head + 1]
     ELSE IF p < head + Len(s) - size THEN s[p + size - head + 1]
     ELSE buff[p]]

(* The n bytes of buff from position p on. *)
Bytes(buff, p, n) == [i \in 1 .. n |-> buff[p + i - 1]]
-----------------------------------------------------------------------------
(* A write for which there is room; without room dpram_write spins. *)
dpram_write(s) ==
  /\ FreeSize(out_head, out_tail, OutSize) >= Len(s)
  /\ out_buff' = Store(out_buff, out_head, s, OutSize)
  /\ out_head' = Advance(out_head, Len(s), OutSize)
  /\ out_head_saved' = Advance(out_head, Len(s), OutSize)
  /\ out_tail_saved' = out_tail
  /\ io' = Io("write", s)
  /\ UNCHANGED <<out_tail, inVars>>

(* dpram_tty_insert_data of size bytes, of which added go in: its result. *)
(* It passes a large block of the raw port on in segments and takes them   *)
(* all for added.                                                          *)
InsertResult(size, added) == IF size > Segment THEN size ELSE added

Added(size) == {size - k : k \in {k \in Short : k <= size}}

ReadUpTo(retval) ==
  /\ in_tail' = (in_tail + retval) % InSize
  /\ out_head_saved' = in_head
  /\ out_tail_saved' = in_tail
  /\ UNCHANGED <<outVars, in_head, in_buff>>

dpram_read ==
  \/ /\ in_head = in_tail
     /\ ReadUpTo(0)
     /\ io' = Io("read", <<>>)
  \/ /\ in_head > in_tail
     /\ \E added \in Added(in_head - in_tail) :
          /\ io' = Io("read", Bytes(in_buff, in_tail, added))
          /\ ReadUpTo(InsertResult(in_head - in_tail, added))
  \/ /\ in_head < in_tail
     /\ \E added \in Added(InSize - in_tail), more \in Added(in_head) :
          /\ io' = Io("read", Bytes(in_buff, in_tail, added) \o Bytes(in_buff, 0, more))
          /\ ReadUpTo(InsertResult(InSize - in_tail, added) + in_head)

dpram_drop_data ==
  /\ in_tail' = in_head
  /\ io' = Io("drop", <<>>)
  /\ UNCHANGED <<outVars, in_head, in_buff, saved>>

(* dpram_clear; the saved positions are left alone. *)
dpram_init_and_report ==
  /\ out_head' = 0 /\ out_tail' = 0
  /\ in_head' = 0 /\ in_tail' = 0
  /\ out_buff' = [p \in OutPos |-> 0]
  /\ in_buff' = [p \in InPos |-> 0]
  /\ io' = Io("reset", <<>>)
  /\ UNCHANGED saved

dpram_tty_write_room ==
  IF out_head_saved < out_tail_saved THEN out_tail_saved - out_head_saved - 1
  ELSE OutSize + out_tail_saved - out_head_saved - 1
-----------------------------------------------------------------------------
(* The bytes a ring holds. *)
Used(head, tail, size) == IF tail <= head THEN head - tail ELSE size - tail + head

PhoneRead(n) ==
  /\ n \in 1 .. Used(out_head, out_tail, OutSize)
  /\ out_tail' = Advance(out_tail, n, OutSize)
  /\ io' = Io("phone_read", [i \in 1 .. n |-> out_buff[Advance(out_tail, i - 1, OutSize)]])
  /\ UNCHANGED <<out_head, out_buff, inVars, saved>>

PhoneWrite(s) ==
  /\ FreeSize(in_head, in_tail, InSize) >= Len(s)
  /\ in_buff' = Store(in_buff, in_head, s, InSize)
  /\ in_head' = Advance(in_head, Len(s), InSize)
  /\ io' = Io("phone_write", s)
  /\ UNCHANGED <<outVars, in_tail, saved>>

Message == UNION {[1 .. n -> Byte] : n \in 1 .. MaxLen}

Next ==
  \/ \E s \in Message : dpram_write(s) \/ PhoneWrite(s)
  \/ \E n \in 1 .. MaxLen : PhoneRead(n)
  \/ dpram_read
  \/ dpram_drop_data
  \/ dpram_init_and_report

Spec == Init /\ [][Next]_ringVars
-----------------------------------------------------------------------------
TypeOK ==
  /\ out_head \in OutPos /\ out_tail \in OutPos
  /\ in_head \in InPos /\ in_tail \in InPos
  /\ out_buff \in [OutPos -> Byte]
  /\ in_buff \in [InPos -> Byte]
  /\ out_head_saved \in Nat /\ out_tail_saved \in Nat
  /\ io.bytes \in Seq(Byte)

(* The unread bytes of a ring, oldest first. *)
Contents(buff, head, tail, size) ==
  [i \in 1 .. Used(head, tail, size) |-> buff[Advance(tail, i - 1, size)]]

Queues == INSTANCE PortQueues WITH
  OutRoom <- OutSize - 1,
  InRoom <- InSize - 1,
  outq <- Contents(out_buff, out_head, out_tail, OutSize),
  inq <- Contents(in_buff, in_head, in_tail, InSize)

(***************************************************************************)
(* The rings are queues: whatever the lengths written and read and         *)
(* wherever the positions wrap, no unread byte is overwritten, none is     *)
(* read twice, skipped or out of order, and a full ring is never taken for *)
(* an empty one.                                                           *)
(***************************************************************************)
RingsAreQueues == Queues!Spec

(***************************************************************************)
(* include/linux/tty_driver.h: write_room "returns the numbers of          *)
(* characters the tty driver will accept for queuing to be written".       *)
(***************************************************************************)
WriteRoomAccepted == dpram_tty_write_room <= FreeSize(out_head, out_tail, OutSize)

(***************************************************************************)
(* The comments of dpram_read have it pass on "1. tail -> buffer end",     *)
(* then "2. buffer start -> head", and set the "new tail" behind that; and *)
(* tty_insert_flip_string "Returns the number added".  So what the flip    *)
(* buffer has no room for would stay in the ring for the next read.        *)
(***************************************************************************)
ReadKeepsRest == [][dpram_read => Queues!DriverRead]_ringVars
=============================================================================
