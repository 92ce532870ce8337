------------------------------- MODULE Logger -------------------------------
(***************************************************************************)
(* One log device of drivers/staging/android/logger.c: a ring of entries   *)
(* of varying length, its writers, its readers and the mutex between them. *)
(*                                                                         *)
(* An entry is a header followed by the payload.  Of the header only the   *)
(* length of the payload matters here, two bytes that may lie at both ends *)
(* of the ring.  Steps are split where log->mutex is taken or released, at *)
(* each copy from user space under it, which may sleep in a page fault,    *)
(* and where a reader goes to sleep.  The copy of a reader only keeps the  *)
(* mutex longer, so it is one step.                                        *)
(***************************************************************************)
EXTENDS Integers, Sequences

CONSTANTS
  Writer,      \* threads that write to the log
  Reader,      \* files opened for reading
  Radix,       \* number of values of a byte
  Payload,     \* the bytes a payload is made of
  HdrLen,      \* sizeof(struct logger_entry)
  MaxPayload,  \* LOGGER_ENTRY_MAX_PAYLOAD
  Size,        \* log->size
  StaleFault   \* whether a copy may fail in a write that another write
               \* overtook between its reading of w_off and its mutex_lock

(* DEFINE_LOGGER_DEVICE: the size is a power of two greater than           *)
(* LOGGER_ENTRY_MAX_LEN, itself one; so it is twice that at least.         *)
ASSUME LoggerAssumption ==
  /\ Radix \in Nat \ {0, 1}
  /\ Payload \subseteq 0 .. Radix - 1
  /\ HdrLen \in Nat \ {0, 1}
  /\ MaxPayload \in 1 .. Radix * Radix - 1
  /\ Size \in Nat /\ Size >= 2 * (HdrLen + MaxPayload)
  /\ StaleFault \in BOOLEAN

VARIABLES
  buffer, w_off, head,   \* of struct logger_log
  r_off,                 \* of struct logger_reader
  wr,                    \* where each writer is in logger_aio_write
  rd                     \* where each reader is in logger_read

vars == <<buffer, w_off, head, r_off, wr, rd>>
ringVars == <<buffer, w_off, head, r_off>>

Off == 0 .. Size - 1
logger_offset(n) == n % Size

Idle == [st |-> "idle"]
Locked == \E w \in Writer : wr[w].st = "writing"
Open == {r \in Reader : rd[r] # "closed"}

Init ==
  /\ buffer = [p \in Off |-> 0]
  /\ w_off = 0 /\ head = 0
  /\ r_off = [r \in Reader |-> 0]
  /\ wr = [w \in Writer |-> Idle]
  /\ rd = [r \in Reader |-> "closed"]
-----------------------------------------------------------------------------
(* The n bytes of the ring from off on, wrapped. *)
Span(off, n) == [i \in 1 .. n |-> buffer[logger_offset(off + i - 1)]]

(* The ring with the bytes s at off, wrapped. *)
Put(buf, off, s) ==
  [p \in Off |-> LET i == logger_offset(p - off) IN IF i < Len(s) THEN s[i + 1] ELSE buf[p]]

Fill(n, b) == [i \in 1 .. n |-> b]

(* The header of an entry, low byte of the length first. *)
Header(len) == <<len % Radix, len \div Radix>> \o Fill(HdrLen - 2, 0)

(* Mutant: the second byte of the length is not looked for at the start.   *)
get_entry_len_nowrap(off) ==
  HdrLen + buffer[off] + Radix * (IF off + 1 = Size THEN 0 ELSE buffer[off + 1])

(* The length of the entry at off, its header included. *)
get_entry_len(off) ==
  HdrLen + buffer[off] + Radix * (IF off + 1 = Size THEN buffer[0] ELSE buffer[off + 1])

(* The offset of the first entry at least len bytes after off, with left   *)
(* of them still to go.                                                    *)
get_next_entry(off, len) ==
  LET next[left \in 1 .. len] ==
        LET o == logger_offset(off + len - left)
            nr == get_entry_len(o)
        IN IF nr >= left THEN logger_offset(o + nr) ELSE next[left - nr]
  IN next[len]

(* Mutant: the new write offset itself is not taken to be crossed.         *)
clock_interval_open(a, b, c) ==
  IF b < a THEN a < c \/ b > c ELSE a < c /\ b > c

(* Does the way from a to b cross c? *)
clock_interval(a, b, c) ==
  IF b < a THEN a < c \/ b >= c ELSE a < c /\ b >= c

(* Where fix_up_readers puts the position pos, a reader's or the head. *)
FixUp(pos, len) ==
  IF clock_interval(w_off, logger_offset(w_off + len), pos)
    THEN get_next_entry(pos, len) ELSE pos
-----------------------------------------------------------------------------
(* logger_aio_write up to mutex_lock.  A null write returns before it.     *)
logger_aio_write(w) ==
  /\ wr[w].st = "idle"
  /\ wr' = [wr EXCEPT ![w] = [st |-> "waiting", orig |-> w_off]]
  /\ UNCHANGED <<ringVars, rd>>

(* The mutex is taken; for a payload of len bytes b, readers in the way    *)
(* are moved on and the header is written (do_write_log).  "at" is where   *)
(* the entry starts.                                                       *)
write_header(w, len, b) ==
  /\ wr[w].st = "waiting" /\ ~Locked
  /\ head' = FixUp(head, HdrLen + len)
  /\ r_off' = [r \in Reader |-> IF r \in Open THEN FixUp(r_off[r], HdrLen + len) ELSE r_off[r]]
  /\ buffer' = Put(buffer, w_off, Header(len))
  /\ w_off' = logger_offset(w_off + HdrLen)
  /\ wr' = [wr EXCEPT ![w] = [st |-> "writing", orig |-> @.orig, at |-> w_off,
                              len |-> len, byte |-> b, ret |-> 0]]
  /\ UNCHANGED rd

(* Mutant: a reader that has found the log empty is not on the queue yet.  *)
wake_up_late ==
  rd' = [r \in Reader |-> IF rd[r] = "asleep" THEN "wait" ELSE rd[r]]

(* wake_up_interruptible: a reader on the queue runs again. *)
wake_up ==
  rd' = [r \in Reader |-> IF rd[r] \in {"asleep", "empty"} THEN "wait" ELSE rd[r]]

(* do_write_log_from_user for a segment of n bytes; after the last one the *)
(* mutex is released and the readers are woken.                            *)
write_segment(w, n) ==
  /\ wr[w].st = "writing" /\ n <= wr[w].len - wr[w].ret
  /\ buffer' = Put(buffer, w_off, Fill(n, wr[w].byte))
  /\ w_off' = logger_offset(w_off + n)
  /\ IF wr[w].ret + n = wr[w].len
       THEN wr' = [wr EXCEPT ![w] = Idle] /\ wake_up
       ELSE wr' = [wr EXCEPT ![w].ret = @ + n] /\ UNCHANGED rd
  /\ UNCHANGED <<head, r_off>>

(* A segment of n bytes of which only m can be read: copy_from_user clears *)
(* the rest of the part, up to the end of the ring or past it, that it was *)
(* copying, and the write is undone.                                       *)
write_fault(w, n, m) ==
  /\ wr[w].st = "writing" /\ n <= wr[w].len - wr[w].ret /\ m < n
  /\ StaleFault \/ wr[w].orig = wr[w].at
  /\ LET part == IF n <= Size - w_off \/ m >= Size - w_off THEN n ELSE Size - w_off
     IN buffer' = Put(buffer, w_off, Fill(m, wr[w].byte) \o Fill(part - m, 0))
  /\ w_off' = wr[w].orig
  /\ wr' = [wr EXCEPT ![w] = Idle]
  /\ UNCHANGED <<head, r_off, rd>>
-----------------------------------------------------------------------------
logger_open(r) ==
  /\ rd[r] = "closed" /\ ~Locked
  /\ rd' = [rd EXCEPT ![r] = "idle"]
  /\ r_off' = [r_off EXCEPT ![r] = head]
  /\ UNCHANGED <<buffer, w_off, head, wr>>

(* list_del without the mutex. *)
logger_release(r) ==
  /\ rd[r] = "idle"
  /\ rd' = [rd EXCEPT ![r] = "closed"]
  /\ r_off' = [r_off EXCEPT ![r] = 0]
  /\ UNCHANGED <<buffer, w_off, head, wr>>

(* The steps of logger_read that only move the reader on: prepare_to_wait, *)
(* the check under the mutex, -EAGAIN or -EINTR, schedule, a signal.       *)
read_step(r) ==
  /\ \/ rd[r] = "idle" /\ rd' = [rd EXCEPT ![r] = "wait"]
     \/ /\ rd[r] = "wait" /\ ~Locked
        /\ rd' = [rd EXCEPT ![r] = IF w_off = r_off[r] THEN "empty" ELSE "ready"]
     \/ rd[r] = "empty" /\ \E s \in {"idle", "asleep"} : rd' = [rd EXCEPT ![r] = s]
     \/ rd[r] = "asleep" /\ rd' = [rd EXCEPT ![r] = "wait"]
  /\ UNCHANGED <<ringVars, wr>>

(* The second half of logger_read, under the mutex: the log may be empty   *)
(* again; do_read_log_to_user copies one entry.                            *)
read_entry(r) ==
  /\ rd[r] = "ready" /\ ~Locked
  /\ IF w_off = r_off[r]
       THEN rd' = [rd EXCEPT ![r] = "wait"] /\ UNCHANGED r_off
       ELSE /\ r_off' = [r_off EXCEPT ![r] = logger_offset(@ + get_entry_len(@))]
            /\ rd' = [rd EXCEPT ![r] = "idle"]
  /\ UNCHANGED <<buffer, w_off, head, wr>>

(* -EINVAL for a buffer too small, -EFAULT for one that cannot be written. *)
read_fails(r) ==
  /\ rd[r] = "ready" /\ ~Locked /\ w_off # r_off[r]
  /\ rd' = [rd EXCEPT ![r] = "idle"]
  /\ UNCHANGED <<ringVars, wr>>

(* LOGGER_FLUSH_LOG *)
flush_log ==
  /\ ~Locked
  /\ r_off' = [r \in Reader |-> IF r \in Open THEN w_off ELSE r_off[r]]
  /\ head' = w_off
  /\ UNCHANGED <<buffer, w_off, wr, rd>>

Write(w) ==
  \/ logger_aio_write(w)
  \/ \E len \in 1 .. MaxPayload, b \in Payload : write_header(w, len, b)
  \/ \E n \in 1 .. MaxPayload : write_segment(w, n) \/ \E m \in 0 .. n - 1 : write_fault(w, n, m)

Read(r) == logger_open(r) \/ logger_release(r) \/ read_step(r) \/ read_entry(r) \/ read_fails(r)

Next ==
  \/ \E w \in Writer : Write(w)
  \/ \E r \in Reader : Read(r)
  \/ flush_log

Spec == Init /\ [][Next]_vars
-----------------------------------------------------------------------------
(* What the next write will follow: during a write, the entry being        *)
(* written is not in the log yet.                                          *)
End == IF Locked THEN wr[CHOOSE w \in Writer : wr[w].st = "writing"].at ELSE w_off

(* The whole entries to be read from off on, and the bytes left over       *)
(* between them and End.                                                   *)
Entries(off) ==
  LET walk[left \in Off] ==
        LET at == logger_offset(End - left)
            n == get_entry_len(at)
        IN IF n > left THEN <<>> ELSE <<Span(at, n)>> \o walk[left - n]
  IN walk[logger_offset(End - off)]

LeftOver(off) ==
  LET walk[left \in Off] ==
        LET n == get_entry_len(logger_offset(End - left))
        IN IF n > left THEN left ELSE walk[left - n]
  IN walk[logger_offset(End - off)]

(* Mutant: the two sides of the comparison are swapped. *)
LogLenSwapped(r) ==
  IF w_off <= r_off[r] THEN r_off[r] - w_off ELSE Size - r_off[r] + w_off

(* LOGGER_GET_LOG_LEN *)
LogLen(r) ==
  IF w_off >= r_off[r] THEN w_off - r_off[r] ELSE Size - r_off[r] + w_off

(* Wherever a reader, or a new one, stands in the ring, what it will read  *)
(* from there is whole entries up to the write offset: no position is ever *)
(* left inside an entry or on bytes a later or failed write has taken, for *)
(* logger_read takes the length it finds there on trust.                   *)
WholeEntries == \A pos \in {r_off[r] : r \in Open} \cup {head} : LeftOver(pos) = 0

(* No reader sleeps on an entry it could read: whatever the order in which *)
(* it checks, goes to sleep and is woken.                                  *)
SleeperHasNothing ==
  \A r \in Reader : rd[r] = "asleep" => r_off[r] = End

(* The log gives every reader all entries in order, whole and unaltered,   *)
(* but for the oldest ones a write had to overwrite.                       *)
Fresh == "fresh"
Unread ==
  [x \in Reader \cup {Fresh} |-> IF x = Fresh THEN Entries(head)
                                 ELSE IF x \in Open THEN Entries(r_off[x]) ELSE <<>>]
NewEntry(len, b) == Header(len) \o Fill(len, b)
LogEntry == {NewEntry(len, b) : len \in 1 .. MaxPayload, b \in Payload}

Log == INSTANCE AndroidLog WITH
  Entry <- LogEntry,
  opened <- Open,
  unread <- Unread

ImplementsLog == Log!Spec

(* LOGGER_GET_LOG_LEN is the number of bytes of the entries still to read. *)
LogLenExact ==
  ~Locked => \A r \in Open : LogLen(r) = Log!Bytes(Entries(r_off[r]))
=============================================================================
