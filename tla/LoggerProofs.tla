---------------------------- MODULE LoggerProofs ----------------------------
(***************************************************************************)
(* Proofs about a log device, for any number of writers and readers, any   *)
(* size of the ring and any entries.                                       *)
(*                                                                         *)
(* That nobody sleeps on an entry is not inductive: it has to hold from    *)
(* the moment the log was found empty, before the reader is asleep, and    *)
(* through a write, where it is about the place the entry will start at,   *)
(* with one writer under the mutex.                                        *)
(*                                                                         *)
(* That a position is never inside an entry is not inductive either: it    *)
(* says nothing of the entries between two positions.  LogInv has a set of *)
(* distances from the end, closed under going on by the length found in    *)
(* the ring, with every position in it; while an entry is written, the     *)
(* bytes it takes are between the end and all of them, and those already   *)
(* there are its own.                                                      *)
(***************************************************************************)
EXTENDS Logger, ListFacts

WriterState ==
  [st : {"idle"}] \cup [st : {"waiting"}, orig : Off]
    \cup [st : {"writing"}, orig : Off, at : Off, len : 1 .. MaxPayload, byte : Payload,
          ret : Nat]

ControlOK ==
  /\ w_off \in Off
  /\ DOMAIN r_off = Reader
  /\ wr \in [Writer -> WriterState]
  /\ rd \in [Reader -> {"closed", "idle", "wait", "empty", "ready", "asleep"}]

Writing(w) == wr[w].st = "writing"

(* log->mutex *)
OneWriter == \A v, w \in Writer : Writing(v) /\ Writing(w) => v = w

(* A reader that has found the log empty and not been woken since. *)
FoundEmpty == \A r \in Reader : rd[r] \in {"empty", "asleep"} => r_off[r] = End

SleepInv == ControlOK /\ OneWriter /\ FoundEmpty
-----------------------------------------------------------------------------
(* logger_offset brings any number back into the ring. *)
LEMMA Offsets ==
  ASSUME NEW x \in Nat
  PROVE  logger_offset(x) \in Off
BY LoggerAssumption DEF logger_offset, Off

(* The writer under the mutex is the one that End chooses. *)
LEMMA TheWriter ==
  ASSUME NEW f, NEW w \in Writer, f[w].st = "writing",
         \A v \in Writer : f[v].st = "writing" => v = w
  PROVE  (CHOOSE v \in Writer : f[v].st = "writing") = w
OBVIOUS

(* End, seen from the writer under the mutex, and without one. *)
LEMMA EndIs ==
  ASSUME OneWriter
  PROVE  /\ \A w \in Writer : Writing(w) => End = wr[w].at
         /\ (\A w \in Writer : ~Writing(w)) => End = w_off
<1>1. ASSUME NEW w \in Writer, Writing(w) PROVE End = wr[w].at
  <2>1. (CHOOSE v \in Writer : wr[v].st = "writing") = w
    BY <1>1, TheWriter DEF OneWriter, Writing
  <2> QED BY <1>1, <2>1, Zenon DEF End, Locked, Writing
<1>2. ASSUME \A w \in Writer : ~Writing(w) PROVE End = w_off
  BY <1>2, Zenon DEF End, Locked, Writing
<1> QED BY <1>1, <1>2

(* The same behind a step. *)
LEMMA EndIsNext ==
  ASSUME OneWriter'
  PROVE  /\ \A w \in Writer : Writing(w)' => End' = wr'[w].at
         /\ (\A w \in Writer : ~Writing(w)') => End' = w_off'
<1>1. ASSUME NEW w \in Writer, Writing(w)' PROVE End' = wr'[w].at
  <2>1. (CHOOSE v \in Writer : wr'[v].st = "writing") = w
    BY <1>1, TheWriter DEF OneWriter, Writing
  <2> QED BY <1>1, <2>1, Zenon DEF End, Locked, Writing
<1>2. ASSUME \A w \in Writer : ~Writing(w)' PROVE End' = w_off'
  BY <1>2, Zenon DEF End, Locked, Writing
<1> QED BY <1>1, <1>2

(* A position at the write offset is in nobody's way. *)
LEMMA FixUpKeepsEnd ==
  ASSUME w_off \in Off, NEW len \in Nat
  PROVE  FixUp(w_off, len) = w_off
<1>1. w_off \in Int /\ w_off + len \in Nat
  BY LoggerAssumption DEF Off
<1>2. logger_offset(w_off + len) \in Int
  BY <1>1, Offsets DEF Off
<1>3. ~clock_interval(w_off, logger_offset(w_off + len), w_off)
  BY <1>1, <1>2 DEF clock_interval
<1> QED BY <1>3 DEF FixUp
-----------------------------------------------------------------------------
(* The steps of a writer. *)
LEMMA WriteKeeps ==
  ASSUME StaleFault = FALSE, SleepInv, NEW w \in Writer, Write(w)
  PROVE  SleepInv'
<1>0. ControlOK /\ OneWriter /\ FoundEmpty
  BY DEF SleepInv
<1>1. CASE logger_aio_write(w)
  <2>1. wr' = [wr EXCEPT ![w] = [st |-> "waiting", orig |-> w_off]] /\ wr[w].st = "idle"
        /\ UNCHANGED <<w_off, r_off, rd>>
    BY <1>1 DEF logger_aio_write, ringVars
  <2>2. ControlOK'
    BY <1>0, <2>1 DEF ControlOK, WriterState
  <2>3. /\ \A v \in Writer : Writing(v)' <=> Writing(v)
        /\ \A v \in Writer : Writing(v) => wr'[v] = wr[v]
    BY <1>0, <2>1 DEF ControlOK, Writing
  <2>4. OneWriter'
    BY <1>0, <2>3 DEF OneWriter
  <2>5. End' = End
    BY <1>0, <2>1, <2>3, <2>4, EndIs, EndIsNext
  <2>6. FoundEmpty'
    BY <1>0, <2>1, <2>5 DEF FoundEmpty
  <2> QED BY <2>2, <2>4, <2>6 DEF SleepInv
<1>2. ASSUME NEW len \in 1 .. MaxPayload, NEW b \in Payload, write_header(w, len, b)
      PROVE  SleepInv'
  <2> DEFINE x == [st |-> "writing", orig |-> wr[w].orig, at |-> w_off, len |-> len,
                   byte |-> b, ret |-> 0]
  <2>1. /\ wr' = [wr EXCEPT ![w] = x] /\ wr[w].st = "waiting" /\ rd' = rd
        /\ \A v \in Writer : ~Writing(v)
        /\ w_off' = logger_offset(w_off + HdrLen)
    BY <1>2 DEF write_header, Locked, Writing
  <2>2. wr[w].orig \in Off /\ w_off \in Nat /\ HdrLen + len \in Nat /\ w_off + HdrLen \in Nat
    BY <1>0, <2>1, LoggerAssumption DEF ControlOK, WriterState, Off
  <2>3. x \in WriterState
    BY <1>0, <2>2 DEF WriterState, ControlOK
  <2>4. ControlOK'
    <3>1. w_off' \in Off
      BY <2>1, <2>2, Offsets
    <3>2. DOMAIN r_off' = Reader
      BY <1>2 DEF write_header
    <3>3. wr' \in [Writer -> WriterState] /\ rd' = rd
      BY <1>0, <2>1, <2>3 DEF ControlOK
    <3> HIDE DEF x
    <3> QED BY <1>0, <3>1, <3>2, <3>3 DEF ControlOK, WriterState, Off
  <2>5. wr'[w] = x /\ \A v \in Writer : Writing(v)' => v = w
    BY <1>0, <2>1 DEF ControlOK, Writing
  <2>6. OneWriter' /\ Writing(w)'
    BY <2>5 DEF OneWriter, Writing
  <2>7. End' = w_off /\ End = w_off
    BY <1>0, <2>1, <2>5, <2>6, EndIs, EndIsNext
  <2>8. FixUp(w_off, HdrLen + len) = w_off
    BY <1>0, <2>2, FixUpKeepsEnd DEF ControlOK
  <2>9. FoundEmpty'
    <3> SUFFICES ASSUME NEW r \in Reader, rd[r] \in {"empty", "asleep"} PROVE r_off'[r] = w_off
      BY <2>1, <2>7 DEF FoundEmpty
    <3>1. r_off[r] = w_off /\ r \in Open
      BY <1>0, <2>7 DEF FoundEmpty, Open
    <3>2. r_off'[r] = FixUp(r_off[r], HdrLen + len)
      BY <1>2, <3>1 DEF write_header
    <3> QED BY <2>8, <3>1, <3>2
  <2> QED BY <2>4, <2>6, <2>9 DEF SleepInv
<1>3. ASSUME NEW n \in 1 .. MaxPayload, write_segment(w, n) PROVE SleepInv'
  <2>1. /\ Writing(w) /\ r_off' = r_off /\ w_off' = logger_offset(w_off + n)
        /\ \A v \in Writer : Writing(v) => v = w
    BY <1>0, <1>3 DEF write_segment, Writing, OneWriter
  <2>2. w_off' \in Off
    <3>1. w_off + n \in Nat
      BY <1>0, LoggerAssumption DEF ControlOK, Off
    <3> QED BY <2>1, <3>1, Offsets
  <2>3. CASE wr' = [wr EXCEPT ![w] = Idle] /\ wake_up
    <3>1. ControlOK'
      BY <1>0, <2>1, <2>2, <2>3 DEF ControlOK, WriterState, Idle, wake_up, Off
    <3>2. \A v \in Writer : ~Writing(v)'
      BY <1>0, <2>1, <2>3 DEF ControlOK, Writing, Idle
    <3>3. \A r \in Reader : rd'[r] \notin {"empty", "asleep"}
      BY <2>3 DEF wake_up
    <3> QED BY <3>1, <3>2, <3>3 DEF SleepInv, OneWriter, FoundEmpty
  <2>4. CASE wr' = [wr EXCEPT ![w].ret = @ + n] /\ UNCHANGED rd
    <3>1. /\ wr[w] \in [st : {"writing"}, orig : Off, at : Off, len : 1 .. MaxPayload,
                        byte : Payload, ret : Nat]
      BY <1>0, <2>1 DEF ControlOK, WriterState, Writing
    <3>2. /\ wr'[w] \in [st : {"writing"}, orig : Off, at : Off, len : 1 .. MaxPayload,
                         byte : Payload, ret : Nat]
          /\ wr'[w].at = wr[w].at /\ wr'[w].st = "writing"
      BY <1>0, <2>4, <3>1 DEF ControlOK
    <3>3. wr' \in [Writer -> WriterState]
      BY <1>0, <2>4, <3>2 DEF ControlOK, WriterState
    <3>4. \A v \in Writer : Writing(v)' => v = w
      BY <1>0, <2>1, <2>4 DEF ControlOK, Writing
    <3>5. OneWriter' /\ Writing(w)'
      BY <3>2, <3>4 DEF OneWriter, Writing
    <3>6. End' = End
      BY <1>0, <2>1, <3>2, <3>5, EndIs, EndIsNext
    <3>7. ControlOK'
      BY <1>0, <2>1, <2>2, <2>4, <3>3 DEF ControlOK, WriterState, Off
    <3>8. FoundEmpty'
      BY <1>0, <2>1, <2>4, <3>6 DEF FoundEmpty
    <3> QED BY <3>5, <3>7, <3>8 DEF SleepInv
  <2> QED BY <1>3, <2>3, <2>4 DEF write_segment
(* The write is undone up to where its entry began. *)
<1>4. ASSUME NEW n \in 1 .. MaxPayload, NEW m \in 0 .. n - 1, write_fault(w, n, m)
      PROVE  SleepInv'
  <2>1. /\ Writing(w) /\ r_off' = r_off /\ rd' = rd /\ wr' = [wr EXCEPT ![w] = Idle]
        /\ w_off' = wr[w].at
        /\ \A v \in Writer : Writing(v) => v = w
    BY <1>0, <1>4 DEF write_fault, Writing, OneWriter
  <2>2. wr[w].at \in Off
    BY <1>0, <2>1 DEF ControlOK, WriterState, Writing
  <2>3. ControlOK'
    BY <1>0, <2>1, <2>2 DEF ControlOK, WriterState, Idle, Off
  <2>4. \A v \in Writer : ~Writing(v)'
    BY <1>0, <2>1 DEF ControlOK, Writing, Idle
  <2>5. OneWriter'
    BY <2>4 DEF OneWriter
  <2>6. End' = End
    BY <1>0, <2>1, <2>4, <2>5, EndIs, EndIsNext
  <2>7. FoundEmpty'
    BY <1>0, <2>1, <2>6 DEF FoundEmpty
  <2> QED BY <2>3, <2>5, <2>7 DEF SleepInv
<1> QED BY <1>1, <1>2, <1>3, <1>4 DEF Write

(* The other steps leave the writers and the write offset alone. *)
LEMMA ReadKeeps ==
  ASSUME SleepInv, (\E r \in Reader : Read(r)) \/ flush_log \/ UNCHANGED vars
  PROVE  SleepInv'
<1>0. ControlOK /\ OneWriter /\ FoundEmpty
  BY DEF SleepInv
<1>1. w_off' = w_off /\ wr' = wr
  BY Zenon DEF Read, logger_open, logger_release, read_step, read_entry, read_fails,
    flush_log, ringVars, vars
<1>2. OneWriter' /\ \A w \in Writer : Writing(w)' <=> Writing(w)
  BY <1>0, <1>1 DEF OneWriter, Writing
<1>3. End' = End
  BY <1>0, <1>1, <1>2, EndIs, EndIsNext
<1>4. ~Locked => End = w_off
  BY <1>0, EndIs DEF Locked, Writing
<1>5. SUFFICES ControlOK' /\ FoundEmpty'
  BY <1>2 DEF SleepInv
<1> USE DEF ControlOK, FoundEmpty
<1>6. ASSUME NEW r \in Reader, Read(r) PROVE ControlOK' /\ FoundEmpty'
  <2>1. CASE logger_open(r)
    BY <1>0, <1>1, <1>3, <2>1 DEF logger_open, WriterState, Off
  <2>2. CASE logger_release(r)
    BY <1>0, <1>1, <1>3, <2>2 DEF logger_release, WriterState, Off
  <2>3. CASE read_step(r)
    BY <1>0, <1>1, <1>3, <1>4, <2>3 DEF read_step, ringVars, WriterState, Off
  <2>4. CASE read_entry(r)
    BY <1>0, <1>1, <1>3, <2>4 DEF read_entry, WriterState, Off
  <2>5. CASE read_fails(r)
    BY <1>0, <1>1, <1>3, <2>5 DEF read_fails, ringVars, WriterState, Off
  <2> QED BY <1>6, <2>1, <2>2, <2>3, <2>4, <2>5 DEF Read
<1>7. CASE flush_log
  BY <1>0, <1>1, <1>3, <1>4, <1>7 DEF flush_log, Open, WriterState, Off
<1>8. CASE UNCHANGED vars
  BY <1>0, <1>1, <1>3, <1>8 DEF vars, WriterState, Off
<1> QED BY <1>6, <1>7, <1>8

(* At first nobody writes and nobody reads. *)
LEMMA InitSleepInv == Init => SleepInv
<1> SUFFICES ASSUME Init PROVE SleepInv
  OBVIOUS
<1>1. ControlOK
  BY LoggerAssumption DEF Init, ControlOK, WriterState, Idle, Off
<1>2. \A w \in Writer : ~Writing(w)
  BY DEF Init, Writing, Idle
<1>3. \A r \in Reader : rd[r] = "closed"
  BY DEF Init
<1> QED BY <1>1, <1>2, <1>3 DEF SleepInv, OneWriter, FoundEmpty

(***************************************************************************)
(* No reader sleeps on an entry it could read, whatever the order in which *)
(* readers check, go to sleep and are woken while any number of threads    *)
(* write, as long as no write that another one overtook fails.             *)
(***************************************************************************)
THEOREM SleeperNeverHasAny ==
  ASSUME StaleFault = FALSE
  PROVE  Spec => []SleeperHasNothing
<1>1. Init => SleepInv
  BY InitSleepInv
<1>2. SleepInv /\ [Next]_vars => SleepInv'
  BY WriteKeeps, ReadKeeps DEF Next
<1>3. SleepInv => SleeperHasNothing
  BY DEF SleepInv, FoundEmpty, SleeperHasNothing
<1> QED BY <1>1, <1>2, <1>3, PTL DEF Spec
-----------------------------------------------------------------------------
(***************************************************************************)
(* The ring of entries.  Places are counted back from End, the place the   *)
(* next entry will follow: the distance of a start from it is what has     *)
(* still to be read, and the walks of the model are recursions on it.      *)
(***************************************************************************)
Byte == 0 .. Radix - 1

(* logger_offset, near the ring. *)
LEMMA Wrap ==
  ASSUME NEW x \in Int, -Size <= x, x < 2 * Size
  PROVE  logger_offset(x) = IF x < 0 THEN x + Size ELSE IF x < Size THEN x ELSE x - Size
<1>1. Size \in Nat /\ Size > 0
  BY LoggerAssumption
<1> QED BY <1>1 DEF logger_offset

(* The distance from off to end. *)
Dist(end, off) == logger_offset(end - off)

(* The position a distance before end, and back. *)
LEMMA Distances ==
  ASSUME NEW end \in Off, NEW o \in Off
  PROVE  /\ Dist(end, o) \in Off
         /\ Dist(end, Dist(end, o)) = o
         /\ Dist(end, o) = IF o <= end THEN end - o ELSE end - o + Size
<1>1. Size \in Nat /\ Size > 0 /\ end \in Int /\ o \in Int /\ 0 <= end /\ end < Size /\ 0 <= o /\ o < Size
  BY LoggerAssumption DEF Off
<1>2. Dist(end, o) = IF o <= end THEN end - o ELSE end - o + Size
  BY <1>1, Wrap DEF Dist
<1>3. Dist(end, o) \in Off
  BY <1>1, <1>2 DEF Off
<1> DEFINE d == Dist(end, o)
<1> HIDE DEF d
<1>4. Dist(end, d) = IF d <= end THEN end - d ELSE end - d + Size
  BY <1>1, <1>3, Wrap DEF Dist, d, Off
<1>5. Dist(end, d) = o
  BY <1>1, <1>2, <1>4 DEF d
<1> QED BY <1>2, <1>3, <1>5 DEF d

(* What follows by n is at a distance less by n. *)
LEMMA Onward ==
  ASSUME NEW end \in Off, NEW o \in Off, NEW n \in Nat, n <= Dist(end, o)
  PROVE  /\ logger_offset(o + n) \in Off
         /\ Dist(end, logger_offset(o + n)) = Dist(end, o) - n
         /\ logger_offset(o + n) = Dist(end, Dist(end, o) - n)
<1>1. Size \in Nat /\ Size > 0 /\ end \in Int /\ o \in Int /\ 0 <= end /\ end < Size /\ 0 <= o /\ o < Size
  BY LoggerAssumption DEF Off
<1>2. /\ Dist(end, o) \in Off
      /\ Dist(end, o) = IF o <= end THEN end - o ELSE end - o + Size
  BY Distances
<1>3. o + n \in Nat /\ o + n < 2 * Size
  BY <1>1, <1>2
<1>4. logger_offset(o + n) = IF o + n < Size THEN o + n ELSE o + n - Size
  BY <1>1, <1>3, Wrap
<1>5. logger_offset(o + n) \in Off
  BY <1>1, <1>3, <1>4 DEF Off
<1> DEFINE p == logger_offset(o + n)
<1> HIDE DEF p
<1>6. /\ Dist(end, p) = IF p <= end THEN end - p ELSE end - p + Size
      /\ Dist(end, Dist(end, p)) = p
  BY <1>5, Distances DEF p
<1>7. Dist(end, p) = Dist(end, o) - n
  BY <1>1, <1>2, <1>4, <1>6 DEF p
<1> QED BY <1>5, <1>6, <1>7 DEF p

(* The length of the entry at off, in the ring buf. *)
LenAt(buf, off) == HdrLen + buf[off] + Radix * (IF off + 1 = Size THEN buf[0] ELSE buf[off + 1])

(* The two bytes of a length give it back. *)
LEMMA TwoBytes ==
  ASSUME NEW len \in 1 .. MaxPayload
  PROVE  /\ len % Radix \in Byte /\ len \div Radix \in Byte
         /\ (len % Radix) + Radix * (len \div Radix) = len
<1>1. Radix \in Nat /\ Radix > 1 /\ len \in Nat /\ len < Radix * Radix
  BY LoggerAssumption
<1>2. len % Radix \in Byte
  BY <1>1 DEF Byte
<1>3. len = Radix * (len \div Radix) + (len % Radix) /\ len \div Radix \in Int
  BY <1>1
<1>4. len \div Radix \in Byte
  <2> DEFINE q == len \div Radix
  <2> HIDE DEF q
  <2>1. q \in Int /\ Radix * q <= len /\ len < Radix * q + Radix
    BY <1>1, <1>2, <1>3 DEF q, Byte
  <2>2. q >= 0
    BY <1>1, <2>1
  <2>3. q < Radix
    BY <1>1, <2>1
  <2> QED BY <2>1, <2>2, <2>3, <1>1 DEF q, Byte
<1> DEFINE q == len \div Radix
           r == len % Radix
<1> HIDE DEF q, r
<1>5. r \in Byte /\ q \in Byte /\ len = Radix * q + r
  BY <1>2, <1>3, <1>4 DEF q, r
<1>6. r + Radix * q = len
  BY <1>1, <1>5 DEF Byte
<1> QED BY <1>5, <1>6 DEF q, r

(* An entry has a length, and one that is not less than its header. *)
LEMMA LenAtNat ==
  ASSUME NEW buf \in [Off -> Byte], NEW o \in Off
  PROVE  LenAt(buf, o) \in Nat /\ LenAt(buf, o) >= 2
<1>1. /\ Size \in Nat /\ Size > 0 /\ Radix \in Nat /\ HdrLen \in Nat /\ HdrLen >= 2
      /\ o \in Int /\ 0 <= o /\ o < Size
  BY LoggerAssumption DEF Off
<1> DEFINE c == IF o + 1 = Size THEN buf[0] ELSE buf[o + 1]
<1>2. c \in Nat /\ buf[o] \in Nat
  <2>1. 0 \in Off /\ (o + 1 # Size => o + 1 \in Off)
    BY <1>1 DEF Off
  <2> QED BY <1>1, <2>1 DEF Byte
<1> HIDE DEF c
<1>3. Radix * c \in Nat
  BY <1>1, <1>2
<1>4. LenAt(buf, o) = HdrLen + buf[o] + Radix * c
  BY DEF LenAt, c
<1> QED BY <1>1, <1>2, <1>3, <1>4

(* n bytes of the ring buf from off on. *)
SpanOf(buf, off, n) == [i \in 1 .. n |-> buf[logger_offset(off + i - 1)]]

(* They are bytes. *)
LEMMA SpanBytes ==
  ASSUME NEW buf \in [Off -> Byte], NEW o \in Off, NEW n \in Nat
  PROVE  SpanOf(buf, o, n) \in Seq(Byte) /\ Len(SpanOf(buf, o, n)) = n
<1>1. \A i \in 1 .. n : logger_offset(o + i - 1) \in Off
  <2> TAKE i \in 1 .. n
  <2>1. o + i - 1 \in Nat
    BY DEF Off
  <2> QED BY <2>1, Offsets
<1>2. SpanOf(buf, o, n) \in [1 .. n -> Byte]
  BY <1>1 DEF SpanOf
<1>3. DOMAIN SpanOf(buf, o, n) = 1 .. n
  BY DEF SpanOf
<1> DEFINE s == SpanOf(buf, o, n)
<1> HIDE DEF s
<1>4. s \in Seq(Byte) /\ Len(s) = n
  BY <1>2, <1>3 DEF s
<1> QED BY <1>4 DEF s

(* f has, for each distance from end, the whole entries from there on. *)
IsEntries(buf, end, f) ==
  /\ f \in [Off -> Seq(Seq(Byte))]
  /\ \A d \in Off : LET n == LenAt(buf, Dist(end, d))
                    IN  f[d] = IF n > d THEN << >> ELSE <<SpanOf(buf, Dist(end, d), n)>> \o f[d - n]

(* The first of them. *)
LEMMA EntryAt ==
  ASSUME NEW buf, NEW end, NEW f, IsEntries(buf, end, f), NEW d \in Off,
         NEW n, LenAt(buf, Dist(end, d)) = n, ~(n > d)
  PROVE  f[d] = <<SpanOf(buf, Dist(end, d), n)>> \o f[d - n]
BY DEF IsEntries

(* g has what is left over behind them. *)
IsLeftOver(buf, end, g) ==
  \A d \in Off : LET n == LenAt(buf, Dist(end, d)) IN g[d] = IF n > d THEN d ELSE g[d - n]

(* The lengths of the entries by distance, as GoesBack takes them. *)
LEMMA LensBack ==
  ASSUME NEW buf \in [Off -> Byte], NEW end \in Off
  PROVE  /\ Size - 1 \in Nat /\ Off = 0 .. Size - 1
         /\ [d \in Off |-> LenAt(buf, Dist(end, d))] \in [Off -> Nat \ {0}]
<1>1. Size - 1 \in Nat /\ Off = 0 .. Size - 1
  BY LoggerAssumption DEF Off
<1>2. ASSUME NEW d \in Off PROVE LenAt(buf, Dist(end, d)) \in Nat \ {0}
  <2>1. Dist(end, d) \in Off
    BY Distances
  <2>2. LenAt(buf, Dist(end, d)) \in Nat /\ LenAt(buf, Dist(end, d)) >= 2
    BY <2>1, LenAtNat
  <2> QED BY <2>2
<1> QED BY <1>1, <1>2

(* There are such functions. *)
LEMMA WalksExist ==
  ASSUME NEW buf \in [Off -> Byte], NEW end \in Off
  PROVE  (\E f : IsEntries(buf, end, f)) /\ (\E g \in [Off -> Off] : IsLeftOver(buf, end, g))
<1> DEFINE n == [d \in Off |-> LenAt(buf, Dist(end, d))]
           N == Size - 1
           V == Seq(Seq(Byte))
           base == [d \in Off |-> << >>]
           step == [d \in Off |-> [v \in V |-> <<SpanOf(buf, Dist(end, d), n[d])>> \o v]]
           same == [d \in Off |-> [v \in Off |-> v]]
           self == [d \in Off |-> d]
<1>1. N \in Nat /\ Off = 0 .. N /\ n \in [Off -> Nat \ {0}]
  BY LensBack
<1>2. base \in [Off -> V]
  OBVIOUS
<1>3. step \in [Off -> [V -> V]]
  <2>1. ASSUME NEW d \in Off, NEW v \in V PROVE <<SpanOf(buf, Dist(end, d), n[d])>> \o v \in V
    <3>1. SpanOf(buf, Dist(end, d), n[d]) \in Seq(Byte)
      BY <1>1, Distances, SpanBytes
    <3> QED BY <3>1
  <2> QED BY <2>1
<1>4. self \in [Off -> Off] /\ same \in [Off -> [Off -> Off]]
  OBVIOUS
<1>5. \A d \in Off : n[d] = LenAt(buf, Dist(end, d))
  OBVIOUS
<1>6. \A d \in Off : base[d] = << >> /\ self[d] = d
  OBVIOUS
<1>7. /\ \A d \in Off : \A v \in V : step[d][v] = <<SpanOf(buf, Dist(end, d), n[d])>> \o v
      /\ \A d \in Off : \A v \in Off : same[d][v] = v
  OBVIOUS
<1> HIDE DEF n, base, step, same, self, N
<1>8. PICK f : Back(0, N, V, base, n, step, f)
  <2> HIDE DEF V
  <2> QED BY <1>1, <1>2, <1>3, GoesBack
<1>9. PICK g : Back(0, N, Off, self, n, same, g)
  BY <1>1, <1>4, GoesBack
<1>10. \A d \in Off : n[d] \in Nat /\ (d - n[d] < 0 <=> n[d] > d) /\ (~(n[d] > d) => d - n[d] \in Off)
  BY <1>1
<1>11. IsEntries(buf, end, f)
  <2>1. f \in [Off -> V] /\ \A d \in Off : f[d] = IF d - n[d] < 0 THEN base[d] ELSE step[d][f[d - n[d]]]
    BY <1>1, <1>8 DEF Back
  <2>2. ASSUME NEW d \in Off
        PROVE  f[d] = IF n[d] > d THEN << >> ELSE <<SpanOf(buf, Dist(end, d), n[d])>> \o f[d - n[d]]
    <3>1. CASE n[d] > d
      BY <1>6, <1>10, <2>1, <3>1
    <3>2. CASE ~(n[d] > d)
      <4>1. d - n[d] \in Off /\ f[d - n[d]] \in V
        BY <1>10, <2>1, <3>2
      <4> HIDE DEF V
      <4> QED BY <1>7, <1>10, <2>1, <3>2, <4>1
    <3> QED BY <3>1, <3>2
  <2> QED BY <1>5, <2>1, <2>2 DEF IsEntries
<1>12. g \in [Off -> Off] /\ IsLeftOver(buf, end, g)
  <2>1. g \in [Off -> Off] /\ \A d \in Off : g[d] = IF d - n[d] < 0 THEN self[d] ELSE same[d][g[d - n[d]]]
    BY <1>1, <1>9 DEF Back
  <2>2. ASSUME NEW d \in Off PROVE g[d] = IF n[d] > d THEN d ELSE g[d - n[d]]
    BY <1>6, <1>7, <1>10, <2>1
  <2> QED BY <1>5, <2>1, <2>2 DEF IsLeftOver
<1> QED BY <1>11, <1>12

(* They are what the model walks along. *)
LEMMA WalksAre ==
  buffer \in [Off -> Byte] /\ End \in Off =>
    /\ \E f : IsEntries(buffer, End, f) /\ \A o \in Off : Entries(o) = f[Dist(End, o)]
    /\ \E g : IsLeftOver(buffer, End, g) /\ \A o \in Off : LeftOver(o) = g[Dist(End, o)]
<1> SUFFICES ASSUME buffer \in [Off -> Byte], End \in Off
             PROVE  /\ \E f : IsEntries(buffer, End, f) /\ \A o \in Off : Entries(o) = f[Dist(End, o)]
                    /\ \E g : IsLeftOver(buffer, End, g) /\ \A o \in Off : LeftOver(o) = g[Dist(End, o)]
  OBVIOUS
<1> DEFINE L(d) == LenAt(buffer, Dist(End, d))
           A(f) == [d \in Off |-> IF L(d) > d THEN << >>
                                  ELSE <<SpanOf(buffer, Dist(End, d), L(d))>> \o f[d - L(d)]]
           B(g) == [d \in Off |-> IF L(d) > d THEN d ELSE g[d - L(d)]]
           f0 == CHOOSE f : f = A(f)
           g0 == CHOOSE g : g = B(g)
<1>1. \A o \in Off : Entries(o) = f0[Dist(End, o)]
  BY DEF Entries, Dist, LenAt, get_entry_len, SpanOf, Span
<1>2. \A o \in Off : LeftOver(o) = g0[Dist(End, o)]
  BY DEF LeftOver, Dist, LenAt, get_entry_len
<1>3. PICK f : IsEntries(buffer, End, f)
  BY WalksExist
<1>4. PICK g \in [Off -> Off] : IsLeftOver(buffer, End, g)
  BY WalksExist
<1>5. f = A(f)
  <2>1. f \in [Off -> Seq(Seq(Byte))] /\ \A d \in Off : f[d] = A(f)[d]
    BY <1>3 DEF IsEntries
  <2> QED BY <2>1
<1>6. g = B(g)
  <2>1. \A d \in Off : g[d] = B(g)[d]
    BY <1>4 DEF IsLeftOver
  <2> QED BY <2>1
<1>7. f0 = A(f0) /\ g0 = B(g0)
  <2> HIDE DEF A, B
  <2> QED BY <1>5, <1>6
<1>8. \A d \in Off : f0[d] = f[d]
  <2> SUFFICES ASSUME {d \in Off : f0[d] # f[d]} # {} PROVE FALSE
    OBVIOUS
  <2> DEFINE T == {d \in Off : f0[d] # f[d]}
  <2> HIDE DEF f0
  <2>1. Off \in SUBSET Nat
    BY DEF Off
  <2>2. PICK d \in T : \A e \in T : d <= e
    <3>1. T \in SUBSET Nat /\ T # {}
      BY <2>1
    <3> HIDE DEF T
    <3> QED BY <3>1, LeastNumber
  <2>3. L(d) \in Nat /\ L(d) >= 2 /\ d \in Off /\ d \in Nat /\ f0[d] # f[d]
    BY <2>1, <2>2, Distances, LenAtNat
  <2> HIDE DEF L
  <2>4. L(d) <= d => d - L(d) \in Off /\ d - L(d) < d
    <3>1. Size \in Nat
      BY LoggerAssumption
    <3> DEFINE k == L(d)
    <3> HIDE DEF k
    <3>2. k \in Nat /\ k >= 2 /\ d \in 0 .. Size - 1
      BY <2>3 DEF k, Off
    <3>3. k <= d => d - k \in 0 .. Size - 1 /\ d - k < d
      BY <3>1, <3>2
    <3> QED BY <3>3 DEF k, Off
  <2>5. L(d) <= d => f0[d - L(d)] = f[d - L(d)]
    <3> SUFFICES ASSUME L(d) <= d PROVE f0[d - L(d)] = f[d - L(d)]
      OBVIOUS
    <3>1. d - L(d) \in Off /\ ~(d <= d - L(d))
      BY <2>3, <2>4
    <3> QED BY <2>2, <3>1
  <2>6. f0[d] = A(f0)[d] /\ f[d] = A(f)[d]
    BY <1>5, <1>7, Zenon
  <2>7. A(f0)[d] = A(f)[d]
    BY <2>3, <2>5
  <2> QED BY <2>3, <2>6, <2>7
<1>9. \A d \in Off : g0[d] = IF L(d) > d THEN d ELSE g0[d - L(d)]
  <2> HIDE DEF g0, L
  <2>1. \A d \in Off : g0[d] = B(g0)[d]
    BY <1>7, Zenon
  <2> QED BY <2>1
<1> HIDE DEF f0, g0
<1>10. IsLeftOver(buffer, End, g0)
  BY <1>9 DEF IsLeftOver
<1>11. \A o \in Off : Entries(o) = f[Dist(End, o)]
  BY <1>1, <1>8, Distances
<1> QED BY <1>2, <1>3, <1>10, <1>11

(* s has the bytes of the first entries of q, for each number of them. *)
Sums(q, s) ==
  /\ s \in [0 .. Len(q) -> Nat]
  /\ s[0] = 0
  /\ \A n \in 1 .. Len(q) : s[n] = s[n - 1] + Len(q[n])

(* Bytes is the last of these. *)
LEMMA BytesSums ==
  ASSUME NEW q \in Seq(Seq(Byte))
  PROVE  \E s : Sums(q, s) /\ Log!Bytes(q) = s[Len(q)]
<1> DEFINE N == Len(q)
           step == [n \in 1 .. N |-> [v \in Nat |-> v + Len(q[n])]]
           Body(s) == [n \in 0 .. N |-> IF n = 0 THEN 0 ELSE s[n - 1] + Len(q[n])]
           s0 == CHOOSE s : s = Body(s)
<1>1. N \in Nat /\ \A n \in 1 .. N : Len(q[n]) \in Nat
  OBVIOUS
<1>2. step \in [1 .. N -> [Nat -> Nat]] /\ \A n \in 1 .. N : \A v \in Nat : step[n][v] = v + Len(q[n])
  BY <1>1
<1>3. Log!Bytes(q) = s0[N]
  BY DEF Log!Bytes
<1> HIDE DEF N, step
<1>4. PICK s : Loop(N, Nat, 0, step, s)
  <2>1. 0 \in Nat
    OBVIOUS
  <2> QED BY <1>1, <1>2, <2>1, Iterates
<1>5. s \in [0 .. N -> Nat] /\ s[0] = 0 /\ \A n \in 1 .. N : s[n] = step[n][s[n - 1]]
  BY <1>4 DEF Loop
<1>6. \A n \in 1 .. N : n - 1 \in 0 .. N /\ s[n - 1] \in Nat /\ n \in 0 .. N /\ n # 0
  BY <1>1, <1>5
<1>7. \A n \in 1 .. N : s[n] = s[n - 1] + Len(q[n])
  BY <1>2, <1>5, <1>6
<1>8. s = Body(s)
  <2>1. \A n \in 0 .. N : s[n] = IF n = 0 THEN 0 ELSE s[n - 1] + Len(q[n])
    BY <1>1, <1>5, <1>7
  <2> QED BY <1>5, <2>1
<1>9. s0 = Body(s0)
  <2> HIDE DEF Body
  <2> QED BY <1>8
<1> HIDE DEF s0
<1>10. \A n \in 0 .. N : s0[n] = IF n = 0 THEN 0 ELSE s0[n - 1] + Len(q[n])
  <2>1. \A n \in 0 .. N : s0[n] = Body(s0)[n]
    BY <1>9, Zenon
  <2> QED BY <2>1
<1>11. 0 .. N \subseteq {n \in 0 .. N : s0[n] = s[n]}
  <2> DEFINE T == {n \in 0 .. N : s0[n] = s[n]}
  <2>1. 0 \in T
    BY <1>1, <1>5, <1>10
  <2>2. \A n \in 1 .. N : n - 1 \in T => n \in T
    BY <1>6, <1>7, <1>10
  <2> HIDE DEF T
  <2>3. 0 .. N \subseteq T
    BY <1>1, <2>1, <2>2, InductionTo
  <2> QED BY <2>3 DEF T
<1>12. Log!Bytes(q) = s[N]
  BY <1>1, <1>3, <1>11
<1>13. Sums(q, s)
  BY <1>5, <1>7 DEF Sums, N
<1> QED BY <1>12, <1>13 DEF N

(* p is the part of q from its j-th entry on. *)
PartOf(q, j, p) == j + Len(p) <= Len(q) /\ \A i \in 1 .. Len(p) : p[i] = q[j + i]

(* The sums t go on from s at j, for n entries. *)
GoOn(s, j, t, n) == \A i \in 0 .. n : s[j + i] = s[j] + t[i]

(* The sums along a part of q are those of q from there on. *)
LEMMA SumsShift ==
  ASSUME NEW q \in Seq(Seq(Byte)), NEW p \in Seq(Seq(Byte)), NEW s, Sums(q, s), NEW t, Sums(p, t),
         NEW j \in Nat, PartOf(q, j, p)
  PROVE  GoOn(s, j, t, Len(p))
<1> USE DEF PartOf, GoOn
<1> DEFINE T == {i \in 0 .. Len(p) : s[j + i] = s[j] + t[i]}
<1>1. 0 \in T
  <2>1. j \in 0 .. Len(q) /\ j + 0 = j
    OBVIOUS
  <2>2. s[j] \in Nat /\ t[0] = 0
    BY <2>1 DEF Sums
  <2> QED BY <2>1, <2>2
<1>0. Len(q) \in Nat /\ Len(p) \in Nat
  OBVIOUS
<1>2. ASSUME NEW i \in 1 .. Len(p), i - 1 \in T PROVE i \in T
  <2>1. /\ j + i \in 1 .. Len(q) /\ (j + i) - 1 = j + (i - 1) /\ i \in 0 .. Len(p)
        /\ j \in 0 .. Len(q) /\ i - 1 \in 0 .. Len(p)
    OBVIOUS
  <2>2. s[j + i] = s[j + (i - 1)] + Len(q[j + i]) /\ t[i] = t[i - 1] + Len(p[i])
    BY <2>1 DEF Sums
  <2>3. /\ s[j] \in Nat /\ t[i - 1] \in Nat /\ s[j + (i - 1)] = s[j] + t[i - 1]
        /\ t[i] \in Nat
    BY <1>2, <2>1 DEF Sums
  <2>4. Len(p[i]) = Len(q[j + i])
    OBVIOUS
  <2>5. Len(p[i]) \in Nat
    OBVIOUS
  <2>6. s[j + i] = s[j] + t[i]
    <3> DEFINE a == s[j]
               b == t[i - 1]
               c == Len(p[i])
    <3>1. a \in Nat /\ b \in Nat /\ c \in Nat
      BY <2>3, <2>5
    <3>2. s[j + i] = (a + b) + c /\ t[i] = b + c
      BY <2>2, <2>3, <2>4, Zenon
    <3> HIDE DEF a, b, c
    <3>3. (a + b) + c = a + (b + c)
      BY <3>1
    <3> QED BY <3>2, <3>3, Zenon DEF a
  <2> QED BY <2>1, <2>6
<1> HIDE DEF T
<1>3. 0 .. Len(p) \subseteq T
  BY <1>0, <1>1, <1>2, InductionTo
<1> QED BY <1>3 DEF T

(* The entries behind the first. *)
LEMMA BytesFirst ==
  ASSUME NEW e \in Seq(Byte), NEW q \in Seq(Seq(Byte))
  PROVE  /\ <<e>> \o q \in Seq(Seq(Byte)) /\ Log!Bytes(<<e>> \o q) = Len(e) + Log!Bytes(q)
         /\ Log!Bytes(q) \in Nat
<1> DEFINE r == <<e>> \o q
<1>1. /\ r \in Seq(Seq(Byte)) /\ Len(r) = 1 + Len(q) /\ Len(q) \in Nat /\ r[1] = e
      /\ \A i \in 1 .. Len(q) : q[i] = r[1 + i]
  OBVIOUS
<1> HIDE DEF r
<1>2. PICK s : Sums(r, s) /\ Log!Bytes(r) = s[Len(r)]
  BY <1>1, BytesSums
<1>3. PICK t : Sums(q, t) /\ Log!Bytes(q) = t[Len(q)]
  BY BytesSums
<1>4. GoOn(s, 1, t, Len(q))
  <2>1. 1 \in Nat /\ PartOf(r, 1, q)
    BY <1>1 DEF PartOf
  <2> QED BY <1>1, <1>2, <1>3, <2>1, SumsShift
<1>5. s[1 + Len(q)] = s[1] + t[Len(q)]
  BY <1>1, <1>4 DEF GoOn
<1>6. s[1] = s[1 - 1] + Len(r[1]) /\ s[0] = 0
  BY <1>1, <1>2 DEF Sums
<1>7. s[1] = Len(e) /\ t[Len(q)] \in Nat
  <2>1. Len(q) \in 0 .. Len(q) /\ t \in [0 .. Len(q) -> Nat]
    BY <1>1, <1>3 DEF Sums
  <2>2. 1 - 1 = 0 /\ Len(e) \in Nat
    OBVIOUS
  <2>3. s[1] = 0 + Len(e)
    BY <1>1, <1>6, <2>2
  <2> QED BY <2>1, <2>2, <2>3
<1> QED BY <1>1, <1>2, <1>3, <1>5, <1>7 DEF r

(* No entries have no bytes. *)
LEMMA BytesNone == Log!Bytes(<< >>) = 0
<1>1. << >> \in Seq(Seq(Byte)) /\ Len(<< >>) = 0
  OBVIOUS
<1>2. PICK s : Sums(<< >>, s) /\ Log!Bytes(<< >>) = s[Len(<< >>)]
  BY <1>1, BytesSums
<1> QED BY <1>1, <1>2 DEF Sums

(* The entries before the k-th of q, and it, have the sum at k; and there  *)
(* is one number of entries at which the sum reaches len.                  *)
LEMMA OldestIs ==
  ASSUME NEW q \in Seq(Seq(Byte)), NEW s, Sums(q, s), NEW len \in Nat,
         NEW k \in 1 .. Len(q), s[k] >= len, s[k - 1] < len
  PROVE  Log!Oldest(q, len) = k
<1>1. Len(q) \in Nat
  OBVIOUS
<1>2. ASSUME NEW n \in 0 .. Len(q) PROVE Log!Bytes(SubSeq(q, 1, n)) = s[n]
  <2> DEFINE p == SubSeq(q, 1, n)
  <2>1. p \in Seq(Seq(Byte)) /\ Len(p) = n /\ \A i \in 1 .. n : p[i] = q[0 + i]
    BY <1>1
  <2> HIDE DEF p
  <2>2. PICK t : Sums(p, t) /\ Log!Bytes(p) = t[Len(p)]
    BY <2>1, BytesSums
  <2>3. GoOn(s, 0, t, Len(p))
    <3>1. 0 \in Nat /\ PartOf(q, 0, p)
      BY <1>1, <2>1 DEF PartOf
    <3> QED BY <2>1, <2>2, <3>1, SumsShift
  <2>4. n \in 0 .. Len(p) /\ 0 + n = n /\ t[n] \in Nat
    BY <1>1, <2>1, <2>2 DEF Sums
  <2>5. s[n] = t[n]
    BY <2>3, <2>4 DEF Sums, GoOn
  <2> QED BY <2>1, <2>2, <2>5 DEF p
<1>3. ASSUME NEW m \in 0 .. Len(q), NEW n \in 0 .. Len(q), m <= n PROVE s[m] <= s[n]
  <2> DEFINE T == {i \in 0 .. n - m : s[m] <= s[m + i]}
  <2>1. 0 \in T /\ n - m \in Nat
    <3>1. n - m \in Nat /\ 0 \in 0 .. n - m /\ m + 0 = m
      BY <1>1, <1>3
    <3>2. s[m] \in Nat
      BY DEF Sums
    <3> QED BY <3>1, <3>2
  <2>2. ASSUME NEW i \in 1 .. n - m, i - 1 \in T PROVE i \in T
    <3>1. /\ m + i \in 1 .. Len(q) /\ m + i \in 0 .. Len(q) /\ (m + i) - 1 = m + (i - 1)
          /\ m + (i - 1) \in 0 .. Len(q)
      BY <1>1
    <3>2. s[m + i] = s[m + (i - 1)] + Len(q[m + i])
      BY <3>1 DEF Sums
    <3>3. s[m + (i - 1)] \in Nat /\ s[m] \in Nat
      BY <3>1 DEF Sums
    <3>4. Len(q[m + i]) \in Nat /\ s[m] <= s[m + (i - 1)]
      BY <2>2, <3>1
    <3> DEFINE a == s[m + (i - 1)]
               b == Len(q[m + i])
               c == s[m]
    <3>5. a \in Nat /\ b \in Nat /\ c \in Nat /\ c <= a /\ s[m + i] = a + b
      BY <3>2, <3>3, <3>4
    <3> HIDE DEF a, b, c
    <3>6. c <= s[m + i] /\ i \in 0 .. n - m
      BY <3>5
    <3> QED BY <3>6 DEF c
  <2> HIDE DEF T
  <2>3. 0 .. n - m \subseteq T
    BY <2>1, <2>2, InductionTo
  <2>4. n - m \in T /\ m + (n - m) = n
    BY <2>1, <2>3
  <2> QED BY <2>4 DEF T
<1>4. \A n \in 1 .. Len(q) : n \in 0 .. Len(q) /\ n - 1 \in 0 .. Len(q)
  BY <1>1
<1>5. \A n \in 0 .. Len(q) : s[n] \in Nat
  BY DEF Sums
<1> DEFINE Reach(n) == Log!Bytes(SubSeq(q, 1, n)) >= len /\ Log!Bytes(SubSeq(q, 1, n - 1)) < len
<1>6. ASSUME NEW n \in 1 .. Len(q) PROVE Reach(n) <=> s[n] >= len /\ s[n - 1] < len
  BY <1>2, <1>4
<1>7. ASSUME NEW n \in 1 .. Len(q), Reach(n) PROVE n = k
  <2>1. s[n] >= len /\ s[n - 1] < len
    BY <1>6, <1>7
  <2>2. CASE n < k
    <3>1. s[n] <= s[k - 1]
      <4>1. n <= k - 1 /\ n \in 0 .. Len(q) /\ k - 1 \in 0 .. Len(q)
        BY <1>1, <1>4, <2>2
      <4> QED BY <1>3, <4>1
    <3>2. s[n] \in Nat /\ s[k - 1] \in Nat
      BY <1>4, <1>5
    <3> QED BY <2>1, <3>1, <3>2
  <2>3. CASE k < n
    <3>1. s[k] <= s[n - 1]
      <4>1. k <= n - 1 /\ k \in 0 .. Len(q) /\ n - 1 \in 0 .. Len(q)
        BY <1>1, <1>4, <2>3
      <4> QED BY <1>3, <4>1
    <3>2. s[k] \in Nat /\ s[n - 1] \in Nat
      BY <1>4, <1>5
    <3> QED BY <2>1, <3>1, <3>2
  <2> QED BY <2>2, <2>3
<1>8. Reach(k)
  BY <1>6
<1>9. Log!Oldest(q, len) = CHOOSE n \in 1 .. Len(q) : Reach(n)
  BY DEF Log!Oldest
<1> HIDE DEF Reach
<1> QED BY <1>7, <1>8, <1>9

(* D are distances from end at which entries start, each entry followed by *)
(* one that starts at a distance of D too, or by end.                      *)
Starts(buf, end, D) ==
  /\ D \in SUBSET Off /\ 0 \in D
  /\ \A d \in D \ {0} : LET n == LenAt(buf, Dist(end, d)) IN n <= d /\ d - n \in D

(* What a start has, one entry on. *)
LEMMA StartAt ==
  ASSUME NEW buf \in [Off -> Byte], NEW end \in Off, NEW D, Starts(buf, end, D), NEW d \in D, d # 0,
         NEW n, n = LenAt(buf, Dist(end, d))
  PROVE  /\ d \in Off /\ d \in Nat /\ n \in Nat /\ 2 <= n /\ n <= d /\ d - n \in D /\ d - n < d
         /\ Dist(end, d) \in Off
         /\ \A f : IsEntries(buf, end, f) =>
              f[d] = <<SpanOf(buf, Dist(end, d), n)>> \o f[d - n]
<1>1. d \in Off /\ d \in Nat
  BY DEF Starts, Off
<1>2. Dist(end, d) \in Off
  BY <1>1, Distances
<1>3. n \in Nat /\ n >= 2
  BY <1>2, LenAtNat
<1>4. n <= d /\ d - n \in D
  BY DEF Starts
<1>5. \A f : IsEntries(buf, end, f) => f[d] = <<SpanOf(buf, Dist(end, d), n)>> \o f[d - n]
  <2>1. ~(n > d)
    BY <1>1, <1>3, <1>4
  <2> QED BY <1>1, <2>1 DEF IsEntries
<1> QED BY <1>1, <1>2, <1>3, <1>4, <1>5

(* At the end there is no entry. *)
LEMMA NoneAtEnd ==
  ASSUME NEW buf \in [Off -> Byte], NEW end \in Off
  PROVE  /\ \A f : IsEntries(buf, end, f) => f[0] = << >>
         /\ \A g : IsLeftOver(buf, end, g) => g[0] = 0
<1>1. 0 \in Off
  BY LoggerAssumption DEF Off
<1>2. LenAt(buf, Dist(end, 0)) \in Nat /\ LenAt(buf, Dist(end, 0)) >= 2
  BY <1>1, Distances, LenAtNat
<1>3. LenAt(buf, Dist(end, 0)) > 0
  BY <1>2
<1> QED BY <1>1, <1>3 DEF IsEntries, IsLeftOver

(* From a start on there are whole entries up to the end, and no byte is   *)
(* left over.                                                              *)
LEMMA StartsWhole ==
  ASSUME NEW buf \in [Off -> Byte], NEW end \in Off, NEW D, Starts(buf, end, D),
         NEW f, IsEntries(buf, end, f), NEW g, IsLeftOver(buf, end, g)
  PROVE  \A d \in D : g[d] = 0 /\ Log!Bytes(f[d]) = d
<1> DEFINE T == {d \in D : ~(g[d] = 0 /\ Log!Bytes(f[d]) = d)}
<1> SUFFICES ASSUME T # {} PROVE FALSE
  OBVIOUS
<1>1. PICK d \in T : \A e \in T : d <= e
  <2>1. T \in SUBSET Nat
    <3>1. Off \subseteq Nat
      BY DEF Off
    <3>2. D \subseteq Off
      BY DEF Starts
    <3> QED BY <3>1, <3>2
  <2> HIDE DEF T
  <2> QED BY <2>1, LeastNumber
<1>2. CASE d = 0
  BY <1>1, <1>2, NoneAtEnd, BytesNone
<1>3. CASE d # 0
  <2> DEFINE n == LenAt(buf, Dist(end, d))
             e == SpanOf(buf, Dist(end, d), n)
  <2>1. /\ d \in Off /\ d \in Nat /\ n \in Nat /\ 2 <= n /\ n <= d /\ d - n \in D /\ d - n < d
        /\ Dist(end, d) \in Off
        /\ f[d] = <<e>> \o f[d - n]
    BY <1>1, <1>3, StartAt
  <2>2. e \in Seq(Byte) /\ Len(e) = n
    BY <2>1, SpanBytes
  <2>3. g[d] = g[d - n]
    BY <2>1 DEF IsLeftOver
  <2> HIDE DEF n, e
  <2>4. d - n \notin T
    BY <1>1, <2>1
  <2>5. g[d - n] = 0 /\ Log!Bytes(f[d - n]) = d - n
    BY <2>1, <2>4
  <2>6. f[d - n] \in Seq(Seq(Byte))
    BY <2>1 DEF IsEntries, Starts
  <2>7. Log!Bytes(f[d]) = n + (d - n)
    BY <2>1, <2>2, <2>5, <2>6, BytesFirst
  <2>8. n + (d - n) = d
    BY <2>1
  <2> QED BY <1>1, <2>3, <2>5, <2>7, <2>8
<1> QED BY <1>2, <1>3

(* Two rings agree on the last m bytes before end. *)
Agree(buf, old, end, m) == \A e \in 1 .. m : buf[Dist(end, e)] = old[Dist(end, e)]

(* Then they agree on an entry there. *)
LEMMA AgreeEntry ==
  ASSUME NEW buf, NEW old, NEW end \in Off, NEW m \in Off, Agree(buf, old, end, m),
         NEW d \in 2 .. m
  PROVE  /\ LenAt(buf, Dist(end, d)) = LenAt(old, Dist(end, d))
         /\ \A n \in 1 .. d : SpanOf(buf, Dist(end, d), n) = SpanOf(old, Dist(end, d), n)
<1> DEFINE o == Dist(end, d)
<1>1. Size \in Nat /\ Size > 0 /\ m \in Int /\ 0 <= m /\ m < Size /\ d \in Nat /\ 2 <= d /\ d <= m
  BY LoggerAssumption DEF Off
<1>2. d \in Off
  BY <1>1 DEF Off
<1>3. o \in Off /\ Dist(end, o) = d
  BY <1>2, Distances
<1> HIDE DEF o
<1>4. ASSUME NEW i \in 0 .. d - 1 PROVE buf[logger_offset(o + i)] = old[logger_offset(o + i)]
  <2>1. i \in Nat /\ i <= Dist(end, o)
    BY <1>1, <1>3
  <2>2. logger_offset(o + i) = Dist(end, Dist(end, o) - i)
    BY <1>3, <2>1, Onward
  <2>3. d - i \in 1 .. m
    BY <1>1
  <2> QED BY <1>3, <2>2, <2>3 DEF Agree
<1>5. logger_offset(o + 0) = o /\ logger_offset(o + 1) = IF o + 1 = Size THEN 0 ELSE o + 1
  <2>1. o \in Int /\ 0 <= o /\ o < Size
    BY <1>1, <1>3 DEF Off
  <2> QED BY <1>1, <2>1, Wrap
<1>6. buf[o] = old[o]
  <2>1. 0 \in 0 .. d - 1
    BY <1>1
  <2>2. buf[logger_offset(o + 0)] = old[logger_offset(o + 0)]
    BY <1>4, <2>1
  <2> QED BY <1>5, <2>2
<1>7. IF o + 1 = Size THEN buf[0] = old[0] ELSE buf[o + 1] = old[o + 1]
  <2>1. 1 \in 0 .. d - 1
    BY <1>1
  <2>2. buf[logger_offset(o + 1)] = old[logger_offset(o + 1)]
    BY <1>4, <2>1
  <2> QED BY <1>5, <2>2
<1>8. LenAt(buf, o) = LenAt(old, o)
  BY <1>6, <1>7 DEF LenAt
<1>9. ASSUME NEW n \in 1 .. d PROVE SpanOf(buf, o, n) = SpanOf(old, o, n)
  <2>1. ASSUME NEW i \in 1 .. n PROVE buf[logger_offset(o + i - 1)] = old[logger_offset(o + i - 1)]
    <3>1. i - 1 \in 0 .. d - 1 /\ o + (i - 1) = o + i - 1
      BY <1>1, <1>3 DEF Off
    <3> DEFINE k == i - 1
    <3>2. buf[logger_offset(o + k)] = old[logger_offset(o + k)]
      <4> HIDE DEF k
      <4> QED BY <1>4, <3>1 DEF k
    <3> QED BY <3>1, <3>2
  <2> QED BY <2>1 DEF SpanOf
<1> QED BY <1>8, <1>9 DEF o

(* What is written elsewhere leaves the starts and the entries. *)
LEMMA StartsSame ==
  ASSUME NEW buf \in [Off -> Byte], NEW old \in [Off -> Byte], NEW end \in Off, NEW m \in Off,
         Agree(buf, old, end, m), NEW D, Starts(old, end, D), \A d \in D : d <= m
  PROVE  /\ Starts(buf, end, D)
         /\ \A f, g : IsEntries(old, end, f) /\ IsEntries(buf, end, g) => \A d \in D : g[d] = f[d]
<1>1. ASSUME NEW d \in D, d # 0, NEW n, n = LenAt(old, Dist(end, d))
      PROVE  /\ LenAt(buf, Dist(end, d)) = n
             /\ SpanOf(buf, Dist(end, d), n) = SpanOf(old, Dist(end, d), n)
  <2>1. d \in Nat /\ n \in Nat /\ 2 <= n /\ n <= d
    BY <1>1, StartAt
  <2>2. m \in Int
    BY DEF Off
  <2>3. d \in 2 .. m /\ n \in 1 .. d
    BY <2>1, <2>2
  <2> QED BY <1>1, <2>3, AgreeEntry
<1>2. Starts(buf, end, D)
  <2>1. ASSUME NEW d \in D \ {0}
        PROVE  LenAt(buf, Dist(end, d)) <= d /\ d - LenAt(buf, Dist(end, d)) \in D
    BY <1>1 DEF Starts
  <2> QED BY <2>1 DEF Starts
<1>3. ASSUME NEW f, NEW g, IsEntries(old, end, f), IsEntries(buf, end, g)
      PROVE  \A d \in D : g[d] = f[d]
  <2> DEFINE T == {d \in D : g[d] # f[d]}
  <2> SUFFICES ASSUME T # {} PROVE FALSE
    OBVIOUS
  <2>1. PICK d \in T : \A e \in T : d <= e
    <3>1. Off \subseteq Nat
      BY DEF Off
    <3>2. D \subseteq Off
      BY DEF Starts
    <3>3. T \in SUBSET Nat
      BY <3>1, <3>2
    <3> HIDE DEF T
    <3> QED BY <3>3, LeastNumber
  <2>2. d # 0
    BY <1>3, <2>1, NoneAtEnd
  <2> DEFINE n == LenAt(old, Dist(end, d))
             e == SpanOf(old, Dist(end, d), n)
  <2>3. LenAt(buf, Dist(end, d)) = n /\ SpanOf(buf, Dist(end, d), n) = e
    BY <1>1, <2>1, <2>2
  <2>4. d - n \in D /\ d - n < d /\ d \in Nat /\ n \in Nat /\ f[d] = <<e>> \o f[d - n]
    BY <1>3, <2>1, <2>2, StartAt
  <2>5. g[d] = <<SpanOf(buf, Dist(end, d), n)>> \o g[d - n]
    BY <1>2, <1>3, <2>1, <2>2, <2>3, StartAt
  <2> HIDE DEF n, e
  <2>6. d - n \notin T
    BY <2>1, <2>4
  <2>7. g[d - n] = f[d - n]
    BY <2>4, <2>6
  <2>8. g[d] = f[d]
    BY <2>3, <2>4, <2>5, <2>7
  <2> QED BY <2>1, <2>8
<1> QED BY <1>2, <1>3

(* What is len bytes on from end, seen from there. *)
LEMMA FurtherEnd ==
  ASSUME NEW end \in Off, NEW len \in Nat, NEW new, new = logger_offset(end + len),
         NEW d \in Nat, d + len < Size
  PROVE  new \in Off /\ Dist(new, d + len) = Dist(end, d)
<1>1. Size \in Nat /\ end \in Int /\ 0 <= end /\ end < Size /\ len < Size /\ d < Size
  BY LoggerAssumption DEF Off
<1>2. new = IF end + len < Size THEN end + len ELSE end + len - Size
  BY <1>1, Wrap
<1>3. new \in Off /\ new \in Int /\ 0 <= new /\ new < Size
  BY <1>1, <1>2 DEF Off
<1>4. d + len \in Off /\ d \in Off
  BY <1>1 DEF Off
<1>5. Dist(new, d + len) = IF d + len <= new THEN new - (d + len) ELSE new - (d + len) + Size
  BY <1>3, <1>4, Distances
<1>6. Dist(end, d) = IF d <= end THEN end - d ELSE end - d + Size
  BY <1>4, Distances
<1> QED BY <1>1, <1>2, <1>3, <1>5, <1>6

(* An entry more at the end. *)
More(D, len) == {0} \cup {d + len : d \in D}

(* It moves the starts away from the end and is one more of the entries. *)
LEMMA StartsMore ==
  ASSUME NEW buf \in [Off -> Byte], NEW end \in Off, NEW D, Starts(buf, end, D),
         NEW len, len = LenAt(buf, end), \A d \in D : d + len < Size,
         NEW new, new = logger_offset(end + len)
  PROVE  /\ new \in Off /\ Starts(buf, new, More(D, len))
         /\ \A f, g : IsEntries(buf, end, f) /\ IsEntries(buf, new, g) =>
              \A d \in D : g[d + len] = Append(f[d], SpanOf(buf, end, len))
<1>0. len \in Nat /\ len >= 2
  BY LenAtNat
<1>1. D \subseteq Off /\ Off \subseteq Nat /\ 0 \in D /\ 0 \in Off
  BY LoggerAssumption DEF Starts, Off
<1>2. new \in Off /\ \A d \in D : Dist(new, d + len) = Dist(end, d)
  BY <1>0, <1>1, FurtherEnd
<1>3. Dist(end, 0) = end
  <2>1. end \in Nat
    BY <1>1
  <2> QED BY <1>1, <2>1, Distances
<1>4. ASSUME NEW d \in D, d # 0, NEW n, n = LenAt(buf, Dist(end, d))
      PROVE  /\ LenAt(buf, Dist(new, d + len)) = n /\ n \in Nat /\ n <= d + len
             /\ (d + len) - n = (d - n) + len /\ d - n \in D /\ d - n < d
             /\ d + len \in Off /\ ~(n > d + len)
  <2>1. d \in Nat /\ n \in Nat /\ n <= d /\ d - n \in D /\ d - n < d
    BY <1>4, StartAt
  <2>2. d + len \in Off
    BY <1>0, <2>1, LoggerAssumption DEF Off
  <2> QED BY <1>0, <1>2, <1>4, <2>1, <2>2
<1>5. LenAt(buf, Dist(new, 0 + len)) = len /\ 0 + len = len /\ len - len = 0 /\ len \in Off
  <2>1. 0 + len < Size
    BY <1>1
  <2>2. len \in Off /\ 0 + len = len /\ len - len = 0
    BY <1>0, <2>1, LoggerAssumption DEF Off
  <2> QED BY <1>1, <1>2, <1>3, <2>2
<1>6. Starts(buf, new, More(D, len))
  <2>1. More(D, len) \in SUBSET Off /\ 0 \in More(D, len)
    <3>1. ASSUME NEW d \in D PROVE d + len \in Off
      <4>1. CASE d = 0
        BY <1>5, <4>1
      <4>2. CASE d # 0
        BY <1>4, <4>2
      <4> QED BY <4>1, <4>2
    <3> QED BY <1>1, <3>1 DEF More
  <2>2. ASSUME NEW e \in More(D, len) \ {0}
        PROVE  LenAt(buf, Dist(new, e)) <= e /\ e - LenAt(buf, Dist(new, e)) \in More(D, len)
    <3>1. PICK d \in D : e = d + len
      BY <2>2 DEF More
    <3>2. CASE d = 0
      BY <1>0, <1>5, <2>1, <3>1, <3>2
    <3>3. CASE d # 0
      <4> DEFINE n == LenAt(buf, Dist(end, d))
      <4>1. LenAt(buf, Dist(new, e)) = n /\ n <= e /\ e - n = (d - n) + len /\ d - n \in D
        BY <1>4, <3>1, <3>3
      <4> HIDE DEF n
      <4>2. (d - n) + len \in More(D, len)
        BY <4>1 DEF More
      <4> QED BY <4>1, <4>2
    <3> QED BY <3>2, <3>3
  <2> QED BY <2>1, <2>2 DEF Starts
<1>7. ASSUME NEW f, NEW g, IsEntries(buf, end, f), IsEntries(buf, new, g)
      PROVE  \A d \in D : g[d + len] = Append(f[d], SpanOf(buf, end, len))
  <2> DEFINE a == SpanOf(buf, end, len)
             T == {d \in D : g[d + len] # Append(f[d], a)}
  <2> SUFFICES ASSUME T # {} PROVE FALSE
    OBVIOUS
  <2>1. PICK d \in T : \A e \in T : d <= e
    <3>1. T \in SUBSET Nat
      BY <1>1
    <3> HIDE DEF T
    <3> QED BY <3>1, LeastNumber
  <2>2. d # 0
    <3>1. f[0] = << >> /\ g[0] = << >>
      BY <1>2, <1>7, NoneAtEnd
    <3>2. g[len] = <<SpanOf(buf, Dist(new, len), len)>> \o g[len - len]
      <4>1. ~(len > len) /\ LenAt(buf, Dist(new, len)) = len /\ len \in Off
        BY <1>0, <1>5
      <4> QED BY <1>7, <4>1, EntryAt
    <3>3. Dist(new, len) = end
      BY <1>1, <1>2, <1>3, <1>5
    <3> HIDE DEF a
    <3>4. g[0 + len] = <<a>> \o << >>
      BY <1>5, <3>1, <3>2, <3>3 DEF a
    <3>5. <<a>> \o << >> = Append(<< >>, a)
      OBVIOUS
    <3> QED BY <2>1, <3>1, <3>4, <3>5
  <2> DEFINE n == LenAt(buf, Dist(end, d))
             e == SpanOf(buf, Dist(end, d), n)
  <2>3. /\ LenAt(buf, Dist(new, d + len)) = n /\ n \in Nat /\ d + len \in Off
        /\ (d + len) - n = (d - n) + len /\ d - n \in D /\ d - n < d /\ ~(n > d + len)
    BY <1>4, <2>1, <2>2
  <2>4. f[d] = <<e>> \o f[d - n] /\ d \in Nat
    BY <1>7, <2>1, <2>2, StartAt
  <2>5. g[d + len] = <<SpanOf(buf, Dist(new, d + len), n)>> \o g[(d + len) - n]
    BY <1>7, <2>3, EntryAt
  <2>6. Dist(new, d + len) = Dist(end, d)
    BY <1>2, <2>1
  <2>7. g[d + len] = <<e>> \o g[(d - n) + len]
    BY <2>3, <2>5, <2>6
  <2> HIDE DEF n, e, a
  <2>8. d - n \notin T
    BY <2>1, <2>3, <2>4
  <2>9. g[(d - n) + len] = Append(f[d - n], a)
    BY <2>3, <2>8
  <2>10. f[d - n] \in Seq(Seq(Byte)) /\ e \in Seq(Byte) /\ a \in Seq(Byte)
    BY <1>0, <1>1, <1>7, <2>1, <2>3, Distances, SpanBytes DEF IsEntries, e, a
  <2>11. <<e>> \o Append(f[d - n], a) = Append(<<e>> \o f[d - n], a)
    <3> DEFINE q == f[d - n]
    <3> HIDE DEF q
    <3>1. q \in Seq(Seq(Byte))
      BY <2>10 DEF q
    <3>2. <<e>> \o Append(q, a) = Append(<<e>> \o q, a)
      BY <2>10, <3>1
    <3> QED BY <3>2 DEF q
  <2> QED BY <2>1, <2>4, <2>7, <2>9, <2>11
<1> QED BY <1>2, <1>6, <1>7

(* The entries of q but the first k. *)
Behind(q, k) == SubSeq(q, k + 1, Len(q))

(* Entry by entry. *)
LEMMA BehindShape ==
  ASSUME NEW q \in Seq(Seq(Byte)), NEW k \in 0 .. Len(q)
  PROVE  /\ Behind(q, k) \in Seq(Seq(Byte)) /\ Len(Behind(q, k)) = Len(q) - k
         /\ \A i \in 1 .. (Len(q) - k) : Behind(q, k)[i] = q[k + i]
<1>0. Len(q) \in Nat /\ k \in Nat /\ k <= Len(q)
  OBVIOUS
<1> DEFINE b == SubSeq(q, k + 1, Len(q))
<1>1. \A i \in (k + 1) .. Len(q) : q[i] \in Seq(Byte)
  BY <1>0
<1>2. /\ b \in Seq(Seq(Byte)) /\ Len(b) = IF k + 1 <= Len(q) THEN Len(q) - (k + 1) + 1 ELSE 0
      /\ \A i \in 1 .. (Len(q) - (k + 1) + 1) : b[i] = q[(k + 1) + i - 1]
  <2> DEFINE m == k + 1
             n == Len(q)
             S == Seq(Byte)
  <2>1. m \in Int /\ n \in Int /\ \A i \in m .. n : q[i] \in S
    BY <1>0, <1>1
  <2> HIDE DEF m, n, S
  <2>2. /\ SubSeq(q, m, n) \in Seq(S) /\ Len(SubSeq(q, m, n)) = IF m <= n THEN n - m + 1 ELSE 0
        /\ \A i \in 1 .. n - m + 1 : SubSeq(q, m, n)[i] = q[m + i - 1]
    BY <2>1, SubSeqProperties
  <2> QED BY <2>2, Zenon DEF m, n, S
<1> HIDE DEF b
<1>3. Len(b) = Len(q) - k
  <2> DEFINE n == Len(q)
             l == Len(b)
  <2>1. l = IF k + 1 <= n THEN n - (k + 1) + 1 ELSE 0
    BY <1>2
  <2>2. n \in Nat /\ k \in Nat /\ k <= n
    BY <1>0
  <2> HIDE DEF n, l
  <2>3. l = n - k
    BY <2>1, <2>2
  <2> QED BY <2>3 DEF n, l
<1>4. Len(q) - (k + 1) + 1 = Len(q) - k /\ \A i \in 1 .. (Len(q) - k) : (k + 1) + i - 1 = k + i
  BY <1>0
<1>5. \A i \in 1 .. (Len(q) - k) : b[i] = q[k + i]
  <2> TAKE i \in 1 .. (Len(q) - k)
  <2>1. b[i] = q[(k + 1) + i - 1] /\ (k + 1) + i - 1 = k + i
    BY <1>2, <1>4
  <2> QED BY <2>1
<1> QED BY <1>2, <1>3, <1>5 DEF Behind, b

(* One entry more is behind. *)
LEMMA BehindOne ==
  ASSUME NEW q \in Seq(Seq(Byte)), NEW k \in 0 .. Len(q), NEW e \in Seq(Byte),
         NEW r \in Seq(Seq(Byte)), Behind(q, k) = <<e>> \o r
  PROVE  k + 1 \in 1 .. Len(q) /\ q[k + 1] = e /\ r = Behind(q, k + 1)
<1> DEFINE b == Behind(q, k)
           c == Behind(q, k + 1)
           n == Len(q)
<1>0. n \in Nat /\ k \in Nat /\ k <= n
  OBVIOUS
<1>1. b \in Seq(Seq(Byte)) /\ Len(b) = n - k /\ \A i \in 1 .. n - k : b[i] = q[k + i]
  BY BehindShape
<1> DEFINE a == <<e>> \o r
<1>2. a \in Seq(Seq(Byte)) /\ Len(a) = 1 + Len(r) /\ Len(r) \in Nat /\ a[1] = e
      /\ \A i \in 1 .. Len(r) : a[1 + i] = r[i]
  OBVIOUS
<1>3. b = a
  OBVIOUS
<1> HIDE DEF a, b, n
<1>4. k + 1 \in 1 .. n /\ k + 1 \in 0 .. n /\ Len(r) = n - (k + 1)
  BY <1>0, <1>1, <1>2, <1>3
<1>5. q[k + 1] = e
  <2>1. 1 \in 1 .. n - k
    BY <1>0, <1>4
  <2> QED BY <1>1, <1>2, <1>3, <2>1
<1>6. c \in Seq(Seq(Byte)) /\ Len(c) = n - (k + 1) /\ \A i \in 1 .. n - (k + 1) : c[i] = q[(k + 1) + i]
  BY <1>4, BehindShape DEF n
<1> HIDE DEF c
<1>7. ASSUME NEW i \in 1 .. Len(r) PROVE r[i] = c[i]
  <2>1. 1 + i \in 1 .. n - k /\ k + (1 + i) = (k + 1) + i /\ i \in 1 .. n - (k + 1)
    BY <1>0, <1>4
  <2>2. b[1 + i] = q[k + (1 + i)] /\ c[i] = q[(k + 1) + i] /\ a[1 + i] = r[i]
    BY <1>1, <1>2, <1>6, <2>1
  <2> QED BY <1>3, <2>1, <2>2
<1>8. r = c
  BY <1>4, <1>6, <1>7, SeqEqual
<1> QED BY <1>4, <1>5, <1>8 DEF c, n

(* get_next_entry, as a loop with left bytes to go. *)
LEMMA NextIs ==
  ASSUME buffer \in [Off -> Byte], NEW off \in Off, NEW len \in Nat \ {0}
  PROVE  \E h : /\ get_next_entry(off, len) = h[len]
                /\ \A left \in 1 .. len :
                     LET o == logger_offset(off + len - left)
                         nr == LenAt(buffer, o)
                     IN  h[left] = IF nr >= left THEN logger_offset(o + nr) ELSE h[left - nr]
<1> DEFINE o(left) == logger_offset(off + len - left)
           nr(left) == LenAt(buffer, o(left))
           Body(h) == [left \in 1 .. len |-> IF nr(left) >= left THEN logger_offset(o(left) + nr(left))
                                             ELSE h[left - nr(left)]]
           h0 == CHOOSE h : h = Body(h)
<1>1. get_next_entry(off, len) = h0[len]
  BY DEF get_next_entry, LenAt, get_entry_len
<1>2. ASSUME NEW left \in 1 .. len
      PROVE  o(left) \in Off /\ nr(left) \in Nat \ {0} /\ logger_offset(o(left) + nr(left)) \in Off
  <2>1. off + len - left \in Nat
    BY DEF Off
  <2>2. o(left) \in Off
    BY <2>1, Offsets
  <2>3. nr(left) \in Nat /\ nr(left) >= 2
    BY <2>2, LenAtNat
  <2> HIDE DEF o, nr
  <2>4. o(left) + nr(left) \in Nat
    BY <2>2, <2>3 DEF Off
  <2> QED BY <2>2, <2>3, <2>4, Offsets
<1> DEFINE n == [left \in 1 .. len |-> nr(left)]
           base == [left \in 1 .. len |-> logger_offset(o(left) + nr(left))]
           step == [left \in 1 .. len |-> [v \in Off |-> v]]
<1>3. /\ n \in [1 .. len -> Nat \ {0}] /\ base \in [1 .. len -> Off]
      /\ step \in [1 .. len -> [Off -> Off]]
  BY <1>2
<1>4. /\ \A left \in 1 .. len : n[left] = nr(left) /\ base[left] = logger_offset(o(left) + nr(left))
      /\ \A left \in 1 .. len : \A v \in Off : step[left][v] = v
  OBVIOUS
<1> HIDE DEF n, base, step, o, nr
<1>5. PICK h : Back(1, len, Off, base, n, step, h)
  <2>1. 1 \in Nat /\ len \in Nat
    OBVIOUS
  <2> QED BY <1>3, <2>1, GoesBack
<1>6. /\ h \in [1 .. len -> Off]
      /\ \A left \in 1 .. len :
           h[left] = IF left - n[left] < 1 THEN base[left] ELSE step[left][h[left - n[left]]]
  BY <1>5 DEF Back
<1>7. ASSUME NEW left \in 1 .. len
      PROVE  h[left] = IF nr(left) >= left THEN logger_offset(o(left) + nr(left))
                       ELSE h[left - nr(left)]
  <2>1. nr(left) \in Nat \ {0} /\ n[left] = nr(left)
    BY <1>2, <1>4
  <2>2. CASE nr(left) >= left
    <3>1. left - n[left] < 1
      BY <2>1, <2>2
    <3> QED BY <1>4, <1>6, <2>2, <3>1
  <2>3. CASE ~(nr(left) >= left)
    <3>1. ~(left - n[left] < 1) /\ left - n[left] \in 1 .. len
      BY <2>1, <2>3
    <3>2. h[left - n[left]] \in Off
      BY <1>6, <3>1
    <3> QED BY <1>4, <1>6, <2>1, <2>3, <3>1, <3>2
  <2> QED BY <2>2, <2>3
<1>8. h = Body(h)
  BY <1>6, <1>7
<1>9. h0 = Body(h0)
  <2> HIDE DEF Body
  <2> QED BY <1>8
<1> HIDE DEF h0
<1>10. \A left \in 1 .. len :
        h0[left] = IF nr(left) >= left THEN logger_offset(o(left) + nr(left)) ELSE h0[left - nr(left)]
  <2>1. \A left \in 1 .. len : h0[left] = Body(h0)[left]
    BY <1>9, Zenon
  <2> QED BY <2>1
<1> QED BY <1>1, <1>10 DEF o, nr

(* p is where the entries that hold the first len bytes of those from the  *)
(* distance d on are behind.                                               *)
Lands(f, D, end, d, len, p) ==
  /\ p \in Off /\ Dist(end, p) \in D /\ Dist(end, p) <= d - len
  /\ f[Dist(end, p)] = Behind(f[d], Log!Oldest(f[d], len))

(* get_next_entry finds that place. *)
LEMMA NextEntry ==
  ASSUME buffer \in [Off -> Byte], NEW end \in Off, NEW off \in Off,
         NEW D, Starts(buffer, end, D), NEW d \in D, d = Dist(end, off), NEW len \in 1 .. d,
         NEW f, IsEntries(buffer, end, f)
  PROVE  Lands(f, D, end, d, len, get_next_entry(off, len))
<1> DEFINE q == f[d]
<1>1. D \subseteq Off /\ Off \subseteq Nat /\ d \in Off /\ d \in Nat /\ len \in Nat \ {0} /\ len <= d
  BY DEF Starts, Off
<1>2. q \in Seq(Seq(Byte)) /\ \A e \in D : f[e] \in Seq(Seq(Byte))
  BY <1>1 DEF IsEntries
<1>3. PICK s : Sums(q, s)
  BY <1>2, BytesSums
<1>4. PICK h : /\ get_next_entry(off, len) = h[len]
               /\ \A left \in 1 .. len :
                    LET o == logger_offset(off + len - left)
                        nr == LenAt(buffer, o)
                    IN  h[left] = IF nr >= left THEN logger_offset(o + nr) ELSE h[left - nr]
  BY <1>1, NextIs
<1> DEFINE x(left) == (d - len) + left
           Got(left) == x(left) \in D /\ \E k \in 0 .. Len(q) : f[x(left)] = Behind(q, k) /\ s[k] = len - left
           Good(left) == Lands(f, D, end, d, len, h[left])
           T == {left \in 1 .. len : Got(left) /\ ~Good(left)}
<1> HIDE DEF q
<1>5. T = {}
  <2> SUFFICES ASSUME T # {} PROVE FALSE
    OBVIOUS
  <2>1. PICK left \in T : \A e \in T : left <= e
    <3>1. T \in SUBSET Nat
      OBVIOUS
    <3> HIDE DEF T
    <3> QED BY <3>1, LeastNumber
  <2>2. left \in 1 .. len /\ left \in Nat /\ Got(left) /\ ~Good(left)
    BY <2>1
  <2>3. PICK k \in 0 .. Len(q) : f[x(left)] = Behind(q, k) /\ s[k] = len - left
    BY <2>2
  <2> HIDE DEF T, Good
  <2> DEFINE y == x(left)
             o == Dist(end, y)
             n == LenAt(buffer, Dist(end, y))
             e == SpanOf(buffer, Dist(end, y), n)
  <2>4. y \in D /\ y \in Nat /\ y # 0 /\ y = (d - len) + left /\ y = d - (len - left)
    BY <1>1, <2>2
  <2> HIDE DEF y, x, Got
  <2>5. /\ n \in Nat /\ 2 <= n /\ n <= y /\ y - n \in D /\ o \in Off
        /\ f[y] = <<e>> \o f[y - n]
    <3>1. n \in Nat /\ 2 <= n /\ n <= y /\ y - n \in D /\ o \in Off
      BY <2>4, StartAt
    <3>2. f[y] = <<e>> \o f[y - n]
      <4>1. y \in Off /\ ~(n > y)
        BY <1>1, <2>4, <3>1
      <4>2. f[y] = IF n > y THEN << >> ELSE <<e>> \o f[y - n]
        BY <4>1 DEF IsEntries
      <4> QED BY <4>1, <4>2
    <3> QED BY <3>1, <3>2
  <2>6. e \in Seq(Byte) /\ Len(e) = n
    BY <2>5, SpanBytes
  <2>7. logger_offset(off + len - left) = o
    <3>1. len - left \in Nat /\ len - left <= d /\ off + (len - left) = off + len - left
      BY <1>1, <2>2
    <3>2. logger_offset(off + (len - left)) = Dist(end, Dist(end, off) - (len - left))
      BY <3>1, Onward
    <3> QED BY <2>4, <3>1, <3>2
  <2>8. h[left] = IF n >= left THEN logger_offset(o + n) ELSE h[left - n]
    BY <1>4, <2>2, <2>7
  <2> HIDE DEF o, n, e
  <2>9. k + 1 \in 1 .. Len(q) /\ q[k + 1] = e /\ f[y - n] = Behind(q, k + 1)
    <3>1. Behind(q, k) = <<e>> \o f[y - n]
      BY <2>3, <2>5 DEF y
    <3>2. f[y - n] \in Seq(Seq(Byte))
      BY <1>2, <2>5
    <3> DEFINE r == f[y - n]
    <3> HIDE DEF r
    <3>3. Behind(q, k) = <<e>> \o r /\ r \in Seq(Seq(Byte))
      BY <3>1, <3>2 DEF r
    <3>4. k + 1 \in 1 .. Len(q) /\ q[k + 1] = e /\ r = Behind(q, k + 1)
      BY <1>2, <2>6, <3>3, BehindOne
    <3> QED BY <3>4 DEF r
  <2>10. s[k + 1] = (len - left) + n
    <3>1. s[k + 1] = s[(k + 1) - 1] + Len(q[k + 1]) /\ (k + 1) - 1 = k
      BY <1>3, <2>9 DEF Sums
    <3> QED BY <2>3, <2>6, <2>9, <3>1
  <2>11. CASE n >= left
    <3>1. Log!Oldest(q, len) = k + 1
      <4>1. s[k + 1] >= len /\ s[(k + 1) - 1] < len
        <5>1. (k + 1) - 1 = k
          OBVIOUS
        <5> QED BY <1>1, <2>2, <2>3, <2>5, <2>10, <2>11, <5>1
      <4> QED BY <1>1, <1>2, <1>3, <2>9, <4>1, OldestIs
    <3>2. h[left] = logger_offset(o + n)
      BY <2>8, <2>11
    <3>3. y \in Off /\ Dist(end, o) = y
      BY <1>1, <2>4, Distances DEF o
    <3>4. logger_offset(o + n) \in Off /\ Dist(end, logger_offset(o + n)) = y - n
      BY <2>5, <3>3, Onward
    <3>5. y - n <= d - len
      <4>1. d \in Nat /\ len \in Nat /\ left \in Nat /\ n \in Nat
        BY <1>1, <2>2, <2>5
      <4>2. (d - len) + left - n <= d - len
        BY <2>11, <4>1
      <4> QED BY <2>4, <4>1, <4>2
    <3>6. Good(left)
      BY <2>5, <2>9, <3>1, <3>2, <3>4, <3>5 DEF Lands, q, Good
    <3> QED BY <2>2, <3>6
  <2>12. CASE ~(n >= left)
    <3> DEFINE m == left - n
    <3>1. m \in 1 .. len /\ x(m) = y - n /\ m < left /\ m \in Nat /\ (len - left) + n = len - m
      BY <1>1, <2>2, <2>4, <2>5, <2>12 DEF x
    <3>2. h[left] = h[m]
      BY <2>8, <2>12
    <3> HIDE DEF m
    <3>3. Got(m)
      <4>1. k + 1 \in 0 .. Len(q)
        BY <2>9
      <4>2. f[x(m)] = Behind(q, k + 1) /\ s[k + 1] = len - m
        BY <2>9, <2>10, <3>1
      <4> QED BY <2>5, <3>1, <4>1, <4>2 DEF Got
    <3>4. ~Good(m)
      BY <2>2, <3>2 DEF Good
    <3>5. m \in T
      BY <3>1, <3>3, <3>4 DEF T
    <3> QED BY <2>1, <2>2, <3>1, <3>5
  <2> QED BY <2>11, <2>12
<1>6. Got(len)
  <2>1. x(len) = d /\ Len(q) \in Nat /\ 0 \in 0 .. Len(q)
    BY <1>1, <1>2
  <2>2. s[0] = len - len
    BY <1>1, <1>3 DEF Sums
  <2>3. Behind(q, 0) = q
    <3>1. Behind(q, 0) \in Seq(Seq(Byte)) /\ Len(Behind(q, 0)) = Len(q) - 0
          /\ \A i \in 1 .. (Len(q) - 0) : Behind(q, 0)[i] = q[0 + i]
      BY <1>2, <2>1, BehindShape
    <3>2. Len(Behind(q, 0)) = Len(q) /\ \A i \in 1 .. Len(q) : Behind(q, 0)[i] = q[i]
      BY <2>1, <3>1
    <3> DEFINE b == Behind(q, 0)
    <3> HIDE DEF b
    <3>3. b \in Seq(Seq(Byte)) /\ Len(b) = Len(q) /\ \A i \in 1 .. Len(b) : b[i] = q[i]
      BY <3>1, <3>2 DEF b
    <3>4. b = q
      BY <1>2, <3>3, SeqEqual
    <3> QED BY <3>4 DEF b
  <2>4. f[x(len)] = Behind(q, 0)
    BY <2>1, <2>3 DEF q
  <2> HIDE DEF x
  <2> QED BY <2>1, <2>2, <2>4
<1>7. Good(len)
  <2>1. len \in 1 .. len
    BY <1>1
  <2> HIDE DEF Got, Good
  <2> QED BY <1>5, <1>6, <2>1
<1> QED BY <1>4, <1>7

(* Room for an entry of len bytes is at the end, and twice in the ring. *)
LEMMA EntryFits ==
  ASSUME NEW len \in 1 .. MaxPayload
  PROVE  HdrLen + len \in Nat /\ 2 <= HdrLen + len /\ 2 * (HdrLen + len) <= Size
<1>1. MaxPayload \in Nat /\ HdrLen \in Nat /\ HdrLen >= 2 /\ Size \in Nat /\ Size >= 2 * (HdrLen + MaxPayload)
  BY LoggerAssumption
<1> QED BY <1>1

(* The way of a write crosses a position if the bytes between the position *)
(* and the write offset, and those of the write, take the ring.            *)
LEMMA Crosses ==
  ASSUME w_off \in Off, NEW pos \in Off, NEW n \in Nat, 1 <= n, n < Size
  PROVE  clock_interval(w_off, logger_offset(w_off + n), pos) <=>
           Dist(w_off, pos) # 0 /\ Dist(w_off, pos) + n >= Size
<1>1. /\ Size \in Nat /\ w_off \in Int /\ 0 <= w_off /\ w_off < Size
      /\ pos \in Int /\ 0 <= pos /\ pos < Size
  BY LoggerAssumption DEF Off
<1>2. Dist(w_off, pos) = IF pos <= w_off THEN w_off - pos ELSE w_off - pos + Size
  BY Distances
<1>3. logger_offset(w_off + n) = IF w_off + n < Size THEN w_off + n ELSE w_off + n - Size
  BY <1>1, Wrap
<1> DEFINE d == Dist(w_off, pos)
           new == logger_offset(w_off + n)
<1> HIDE DEF d, new
<1>4. d = IF pos <= w_off THEN w_off - pos ELSE w_off - pos + Size
  BY <1>2 DEF d
<1>5. new = IF w_off + n < Size THEN w_off + n ELSE w_off + n - Size
  BY <1>3 DEF new
<1>6. clock_interval(w_off, new, pos) <=> d # 0 /\ d + n >= Size
  BY <1>1, <1>4, <1>5 DEF clock_interval
<1> QED BY <1>6 DEF d, new

(* p is a start with room for len bytes between the end and it, and has    *)
(* the entries from the distance d on that may stay.                       *)
MovesTo(f, D, end, d, len, p) ==
  /\ p \in Off /\ Dist(end, p) \in D /\ Dist(end, p) + len < Size
  /\ f[Dist(end, p)] = Log!Room(f[d], len)

(* That is where fix_up_readers moves a position. *)
LEMMA FixUpIs ==
  ASSUME buffer \in [Off -> Byte], w_off \in Off, NEW D, Starts(buffer, w_off, D),
         NEW f, IsEntries(buffer, w_off, f), NEW pos \in Off, Dist(w_off, pos) \in D,
         NEW len \in 1 .. MaxPayload
  PROVE  MovesTo(f, D, w_off, Dist(w_off, pos), HdrLen + len, FixUp(pos, HdrLen + len))
<1> DEFINE d == Dist(w_off, pos)
           n == HdrLen + len
<1>1. n \in Nat /\ 2 <= n /\ 2 * n <= Size /\ Size \in Nat
  BY EntryFits, LoggerAssumption
<1>2. d \in Off /\ d \in Nat /\ d < Size
  BY <1>1, Distances DEF Off
<1> HIDE DEF n
<1>3. clock_interval(w_off, logger_offset(w_off + n), pos) <=> d # 0 /\ d + n >= Size
  BY <1>1, Crosses
<1>4. Log!Bytes(f[d]) = d
  <2>1. PICK g \in [Off -> Off] : IsLeftOver(buffer, w_off, g)
    BY WalksExist
  <2> QED BY <2>1, StartsWhole
<1>5. CASE d + n < Size
  <2>1. ~(d # 0 /\ d + n >= Size)
    BY <1>1, <1>2, <1>5
  <2>2. FixUp(pos, n) = pos
    BY <1>3, <2>1 DEF FixUp
  <2>3. Log!Room(f[d], n) = f[d]
    BY <1>4, <1>5 DEF Log!Room
  <2> QED BY <1>5, <2>2, <2>3 DEF MovesTo, n
<1>6. CASE ~(d + n < Size)
  <2>1. d # 0 /\ d + n >= Size /\ n \in 1 .. d
    BY <1>1, <1>2, <1>6
  <2> DEFINE p == get_next_entry(pos, n)
  <2>2. FixUp(pos, n) = p
    BY <1>3, <2>1 DEF FixUp
  <2>3. Lands(f, D, w_off, d, n, p)
    BY <2>1, NextEntry
  <2> HIDE DEF p
  <2>4. /\ p \in Off /\ Dist(w_off, p) \in D /\ Dist(w_off, p) <= d - n
        /\ f[Dist(w_off, p)] = Behind(f[d], Log!Oldest(f[d], n))
    BY <2>3 DEF Lands
  <2>5. Log!Room(f[d], n) = SubSeq(f[d], Log!Oldest(f[d], n) + 1, Len(f[d]))
    BY <1>4, <1>6 DEF Log!Room
  <2>6. Dist(w_off, p) + n < Size
    <3>1. Dist(w_off, p) \in Off
      BY <2>4, Distances
    <3>2. Dist(w_off, p) \in Nat
      BY <3>1 DEF Off
    <3> QED BY <1>1, <1>2, <2>4, <3>2
  <2> QED BY <2>2, <2>4, <2>5, <2>6 DEF MovesTo, Behind, n
<1> QED BY <1>5, <1>6

-----------------------------------------------------------------------------
(* The bytes of an entry. *)
LEMMA EntryShape ==
  ASSUME NEW len \in 1 .. MaxPayload, NEW b \in Payload
  PROVE  /\ Header(len) \in Seq(Byte) /\ Len(Header(len)) = HdrLen
         /\ Header(len)[1] = len % Radix /\ Header(len)[2] = len \div Radix
         /\ NewEntry(len, b) \in Seq(Byte) /\ Len(NewEntry(len, b)) = HdrLen + len
         /\ \A i \in 1 .. HdrLen : NewEntry(len, b)[i] = Header(len)[i]
         /\ \A i \in HdrLen + 1 .. HdrLen + len : NewEntry(len, b)[i] = b
<1>0. /\ HdrLen \in Nat /\ HdrLen >= 2 /\ MaxPayload \in Nat /\ Radix \in Nat /\ Radix > 1
      /\ HdrLen - 2 \in Nat /\ len \in Nat
  BY LoggerAssumption
<1>1. 0 \in Byte /\ b \in Byte
  BY <1>0, LoggerAssumption DEF Byte
<1>2. len % Radix \in Byte /\ len \div Radix \in Byte
  BY TwoBytes
<1>3. ASSUME NEW n \in Nat, NEW c \in Byte
      PROVE  Fill(n, c) \in Seq(Byte) /\ Len(Fill(n, c)) = n /\ \A i \in 1 .. n : Fill(n, c)[i] = c
  BY <1>3 DEF Fill
<1> DEFINE z == Fill(HdrLen - 2, 0)
           two == <<len % Radix, len \div Radix>>
           h == two \o z
           y == Fill(len, b)
<1>4. z \in Seq(Byte) /\ Len(z) = HdrLen - 2 /\ y \in Seq(Byte) /\ Len(y) = len /\ \A i \in 1 .. len : y[i] = b
  BY <1>0, <1>1, <1>3
<1>5. two \in Seq(Byte) /\ Len(two) = 2 /\ two[1] = len % Radix /\ two[2] = len \div Radix
  BY <1>2
<1> HIDE DEF z, two, y
<1>6. /\ h \in Seq(Byte) /\ Len(h) = Len(two) + Len(z)
      /\ \A i \in 1 .. Len(two) + Len(z) : h[i] = IF i <= Len(two) THEN two[i] ELSE z[i - Len(two)]
  BY <1>4, <1>5, ConcatProperties, Zenon
<1> HIDE DEF h
<1>7. Len(h) = HdrLen /\ h[1] = len % Radix /\ h[2] = len \div Radix
  <2>1. Len(two) + Len(z) = HdrLen
    BY <1>0, <1>4, <1>5
  <2>2. 1 \in 1 .. HdrLen /\ 2 \in 1 .. HdrLen /\ 1 <= Len(two) /\ 2 <= Len(two)
    BY <1>0, <1>5
  <2> QED BY <1>5, <1>6, <2>1, <2>2
<1> DEFINE e == h \o y
<1>8. /\ e \in Seq(Byte) /\ Len(e) = Len(h) + Len(y)
      /\ \A i \in 1 .. Len(h) + Len(y) : e[i] = IF i <= Len(h) THEN h[i] ELSE y[i - Len(h)]
  <2>1. h \in Seq(Byte) /\ y \in Seq(Byte)
    BY <1>4, <1>6
  <2> QED BY <2>1, ConcatProperties, Zenon
<1> HIDE DEF e
<1>9. Len(e) = HdrLen + len /\ \A i \in 1 .. HdrLen : e[i] = h[i]
  <2>1. Len(h) + Len(y) = HdrLen + len
    BY <1>4, <1>7
  <2>2. \A i \in 1 .. HdrLen : i \in 1 .. HdrLen + len /\ i <= HdrLen
    BY <1>0
  <2> QED BY <1>7, <1>8, <2>1, <2>2
<1>10. ASSUME NEW i \in HdrLen + 1 .. HdrLen + len PROVE e[i] = b
  <2>1. i - HdrLen \in 1 .. len /\ i \in 1 .. HdrLen + len /\ ~(i <= HdrLen)
    BY <1>0
  <2>2. e[i] = y[i - HdrLen]
    BY <1>4, <1>7, <1>8, <2>1
  <2> QED BY <1>4, <2>1, <2>2
<1>11. Header(len) = h /\ NewEntry(len, b) = e
  BY DEF Header, NewEntry, h, e, two, z, y
<1> QED BY <1>6, <1>7, <1>8, <1>9, <1>10, <1>11

(* new is the ring buf with the bytes s from the j-th place on, counted    *)
(* from at.                                                                *)
HasPut(new, buf, at, j, s) ==
  \A i \in Off : new[logger_offset(at + i)] =
    IF j <= i /\ i < j + Len(s) THEN s[(i - j) + 1] ELSE buf[logger_offset(at + i)]

(* Put, in places counted from a place at of the ring. *)
LEMMA PutShape ==
  ASSUME NEW at \in Off, NEW buf \in [Off -> Byte], NEW j \in Nat, NEW s \in Seq(Byte),
         j + Len(s) < Size, NEW off, off = logger_offset(at + j),
         NEW new, new = Put(buf, off, s)
  PROVE  /\ new \in [Off -> Byte]
         /\ HasPut(new, buf, at, j, s)
<1>1. /\ Size \in Nat /\ Size > 0 /\ at \in Int /\ 0 <= at /\ at < Size
      /\ Len(s) \in Nat /\ j < Size
  BY LoggerAssumption DEF Off
<1>2. off = IF at + j < Size THEN at + j ELSE at + j - Size
  BY <1>1, Wrap
<1>3. off \in Int /\ 0 <= off /\ off < Size /\ off \in Off
  BY <1>1, <1>2 DEF Off
<1>4. \A p \in Off : new[p] = IF logger_offset(p - off) < Len(s) THEN s[logger_offset(p - off) + 1] ELSE buf[p]
  BY DEF Put
<1>5. ASSUME NEW p \in Off PROVE logger_offset(p - off) \in Nat
  <2>1. p \in Int /\ 0 <= p /\ p < Size
    BY <1>1 DEF Off
  <2>2. logger_offset(p - off) = IF p - off < 0 THEN p - off + Size ELSE p - off
    BY <1>1, <1>3, <2>1, Wrap
  <2> QED BY <1>1, <1>3, <2>1, <2>2
<1>6. new \in [Off -> Byte]
  <2>1. ASSUME NEW p \in Off PROVE new[p] \in Byte
    <3> DEFINE k == logger_offset(p - off)
    <3> HIDE DEF k
    <3>1. k \in Nat /\ new[p] = IF k < Len(s) THEN s[k + 1] ELSE buf[p]
      BY <1>4, <1>5 DEF k
    <3>2. k < Len(s) => k + 1 \in 1 .. Len(s)
      BY <1>1, <3>1
    <3> QED BY <3>1, <3>2
  <2>2. new = [p \in Off |-> new[p]]
    BY DEF Put
  <2> QED BY <2>1, <2>2
<1>7. ASSUME NEW i \in Off
      PROVE  new[logger_offset(at + i)] =
               IF j <= i /\ i < j + Len(s) THEN s[(i - j) + 1] ELSE buf[logger_offset(at + i)]
  <2> DEFINE p == logger_offset(at + i)
             k == logger_offset(p - off)
  <2>1. i \in Int /\ 0 <= i /\ i < Size
    BY <1>1 DEF Off
  <2>2. p = IF at + i < Size THEN at + i ELSE at + i - Size
    BY <1>1, <2>1, Wrap
  <2> HIDE DEF p
  <2>3. p \in Int /\ 0 <= p /\ p < Size /\ p \in Off
    BY <1>1, <2>1, <2>2 DEF Off
  <2>4. k = IF p - off < 0 THEN p - off + Size ELSE p - off
    BY <1>1, <1>3, <2>3, Wrap
  <2>5. new[p] = IF k < Len(s) THEN s[k + 1] ELSE buf[p]
    BY <1>4, <2>3
  <2> HIDE DEF k
  <2>6. k = IF i - j < 0 THEN i - j + Size ELSE i - j
    BY <1>1, <1>2, <1>3, <2>1, <2>2, <2>3, <2>4
  <2>7. k < Len(s) <=> j <= i /\ i < j + Len(s)
    BY <1>1, <2>1, <2>6
  <2>8. j <= i => k = i - j
    BY <1>1, <2>1, <2>6
  <2> QED BY <2>5, <2>7, <2>8 DEF p
<1> QED BY <1>6, <1>7 DEF HasPut

(* Bytes put at the end leave those before it. *)
LEMMA PutAgrees ==
  ASSUME NEW at \in Off, NEW buf \in [Off -> Byte], NEW j \in Nat, NEW s \in Seq(Byte),
         NEW n \in Nat, j + Len(s) <= n, 1 <= n, n < Size, NEW off, off = logger_offset(at + j),
         NEW new, new = Put(buf, off, s)
  PROVE  Size - n \in Off /\ Agree(new, buf, at, Size - n)
<1>1. /\ Size \in Nat /\ Size > 0 /\ at \in Int /\ 0 <= at /\ at < Size
      /\ Len(s) \in Nat /\ j + Len(s) < Size
  BY LoggerAssumption DEF Off
<1>2. HasPut(new, buf, at, j, s)
  BY <1>1, PutShape
<1>3. Size - n \in Off
  BY <1>1 DEF Off
<1>4. ASSUME NEW e \in 1 .. Size - n PROVE new[Dist(at, e)] = buf[Dist(at, e)]
  <2>1. Size - e \in Off /\ e \in Off /\ e \in Int /\ 1 <= e
    BY <1>1 DEF Off
  <2>2. Dist(at, e) = IF e <= at THEN at - e ELSE at - e + Size
    BY <2>1, Distances
  <2> DEFINE x == at + (Size - e)
  <2>3. x \in Int /\ -Size <= x /\ x < 2 * Size /\ x = at - e + Size
    BY <1>1, <2>1
  <2> HIDE DEF x
  <2>4. logger_offset(x) = IF x < 0 THEN x + Size ELSE IF x < Size THEN x ELSE x - Size
    BY <2>3, Wrap
  <2>5. logger_offset(at + (Size - e)) = Dist(at, e)
    <3> DEFINE u == logger_offset(x)
               v == Dist(at, e)
    <3> HIDE DEF u, v
    <3>1. u = IF x < 0 THEN x + Size ELSE IF x < Size THEN x ELSE x - Size
      BY <2>4 DEF u
    <3>2. v = IF e <= at THEN at - e ELSE at - e + Size
      BY <2>2 DEF v
    <3>3. u = v
      BY <1>1, <2>1, <2>3, <3>1, <3>2
    <3> QED BY <3>3 DEF u, v, x
  <2>6. ~(Size - e < j + Len(s))
    BY <1>1, <2>1
  <2> DEFINE i == Size - e
  <2>7. i \in Off /\ ~(i < j + Len(s)) /\ logger_offset(at + i) = Dist(at, e)
    BY <2>1, <2>5, <2>6
  <2> HIDE DEF i
  <2> QED BY <1>2, <2>7 DEF HasPut
<1> QED BY <1>3, <1>4 DEF Agree

-----------------------------------------------------------------------------
(***************************************************************************)
(* The ring, the positions in it, and the entry being written.             *)
(***************************************************************************)
RingOK == buffer \in [Off -> Byte] /\ head \in Off /\ r_off \in [Reader -> Off]

Positions == {r_off[r] : r \in Open} \cup {head}

(* The positions are starts, and a write has room between the end and any. *)
StartsOK(D) ==
  /\ Starts(buffer, End, D)
  /\ \A p \in Positions : Dist(End, p) \in D
  /\ \A w \in Writer : Writing(w) => \A d \in D : d + (HdrLen + wr[w].len) < Size

(* The ring has the first n bytes of the entry of writer w. *)
Begun(w, n) ==
  \A i \in 0 .. n - 1 :
    buffer[logger_offset(wr[w].at + i)] = NewEntry(wr[w].len, wr[w].byte)[i + 1]

EntryOK(w) ==
  /\ wr[w].ret < wr[w].len
  /\ w_off = logger_offset(wr[w].at + (HdrLen + wr[w].ret))
  /\ Begun(w, HdrLen + wr[w].ret)

EntriesOK == \A w \in Writer : Writing(w) => EntryOK(w)

LogInv == SleepInv /\ RingOK /\ (\E D : StartsOK(D)) /\ EntriesOK

(* Where a writer is. *)
LEMMA WriterIs ==
  ASSUME LogInv, NEW w \in Writer, Writing(w)
  PROVE  /\ wr[w].orig \in Off /\ wr[w].at \in Off /\ wr[w].len \in 1 .. MaxPayload
         /\ wr[w].byte \in Payload /\ wr[w].ret \in Nat /\ End = wr[w].at
         /\ \A v \in Writer : Writing(v) => v = w
<1>1. ControlOK /\ OneWriter
  BY DEF LogInv, SleepInv
<1>2. wr[w] \in [st : {"writing"}, orig : Off, at : Off, len : 1 .. MaxPayload, byte : Payload, ret : Nat]
  BY <1>1 DEF ControlOK, WriterState, Writing
<1>3. End = wr[w].at /\ \A v \in Writer : Writing(v) => v = w
  BY <1>1, EndIs DEF OneWriter
<1> QED BY <1>2, <1>3

(* The end is in the ring. *)
LEMMA EndOK == LogInv => End \in Off
<1> SUFFICES ASSUME LogInv PROVE End \in Off
  OBVIOUS
<1>1. CASE \E w \in Writer : Writing(w)
  BY <1>1, WriterIs
<1>2. CASE \A w \in Writer : ~Writing(w)
  BY <1>2, EndIs DEF LogInv, SleepInv, ControlOK
<1> QED BY <1>1, <1>2

(* The invariant says what the properties do. *)
LEMMA LogInvImplies == LogInv => WholeEntries /\ LogLenExact
<1> SUFFICES ASSUME LogInv PROVE WholeEntries /\ LogLenExact
  OBVIOUS
<1>1. RingOK /\ End \in Off /\ buffer \in [Off -> Byte]
  BY EndOK DEF LogInv, RingOK
<1>2. PICK D : StartsOK(D)
  BY DEF LogInv
<1>3. PICK f : IsEntries(buffer, End, f) /\ \A o \in Off : Entries(o) = f[Dist(End, o)]
  BY <1>1, WalksAre
<1>4. PICK g : IsLeftOver(buffer, End, g) /\ \A o \in Off : LeftOver(o) = g[Dist(End, o)]
  BY <1>1, WalksAre
<1>5. \A d \in D : g[d] = 0 /\ Log!Bytes(f[d]) = d
  BY <1>1, <1>2, <1>3, <1>4, StartsWhole DEF StartsOK
<1>6. ASSUME NEW p \in Positions
      PROVE  p \in Off /\ LeftOver(p) = 0 /\ Log!Bytes(Entries(p)) = Dist(End, p)
  <2>1. p \in Off
    BY <1>1 DEF Positions, RingOK, Open
  <2>2. Dist(End, p) \in D
    BY <1>2 DEF StartsOK
  <2>3. LeftOver(p) = g[Dist(End, p)] /\ Entries(p) = f[Dist(End, p)]
    BY <1>3, <1>4, <2>1
  <2> QED BY <1>5, <2>1, <2>2, <2>3
<1>7. WholeEntries
  BY <1>6 DEF WholeEntries, Positions
<1>8. LogLenExact
  <2> SUFFICES ASSUME ~Locked, NEW r \in Open PROVE LogLen(r) = Log!Bytes(Entries(r_off[r]))
    BY DEF LogLenExact
  <2>1. End = w_off
    BY EndIs DEF LogInv, SleepInv, Locked, Writing
  <2>2. r_off[r] \in Positions
    BY DEF Positions
  <2>3. r_off[r] \in Off /\ Log!Bytes(Entries(r_off[r])) = Dist(w_off, r_off[r])
    BY <1>6, <2>1, <2>2
  <2> DEFINE p == r_off[r]
  <2>4. Dist(w_off, p) = IF p <= w_off THEN w_off - p ELSE w_off - p + Size
    BY <1>1, <2>1, <2>3, Distances
  <2>5. LogLen(r) = IF w_off >= p THEN w_off - p ELSE Size - p + w_off
    BY DEF LogLen
  <2>6. Size \in Nat /\ p \in Int /\ w_off \in Int
    BY <1>1, <2>1, <2>3, LoggerAssumption DEF Off
  <2> HIDE DEF p
  <2>7. Dist(w_off, p) = LogLen(r)
    BY <2>4, <2>5, <2>6
  <2> QED BY <2>3, <2>7 DEF p
<1> QED BY <1>7, <1>8

(* g has, at the new positions, what f has at the old ones, made over by   *)
(* a function of it.                                                       *)
SameUnread(f, g) ==
  /\ g[Dist(End', head')] = f[Dist(End, head)]
  /\ \A r \in Open : g[Dist(End', r_off'[r])] = f[Dist(End, r_off[r])]

RoomUnread(f, g, n) ==
  /\ g[Dist(End', head')] = Log!Room(f[Dist(End, head)], n)
  /\ \A r \in Open : g[Dist(End', r_off'[r])] = Log!Room(f[Dist(End, r_off[r])], n)

MoreUnread(f, g, e) ==
  /\ g[Dist(End', head')] = Append(f[Dist(End, head)], e)
  /\ \A r \in Open : g[Dist(End', r_off'[r])] = Append(f[Dist(End, r_off[r])], e)

(* fix_up_readers and the header. *)
LEMMA HeaderStep ==
  ASSUME StaleFault = FALSE, LogInv, NEW w \in Writer, NEW len \in 1 .. MaxPayload, NEW b \in Payload,
         write_header(w, len, b)
  PROVE  /\ LogInv'
         /\ \A f, g : IsEntries(buffer, End, f) /\ IsEntries(buffer', End', g) =>
                        RoomUnread(f, g, HdrLen + len)
<1> DEFINE n == HdrLen + len
           x == [st |-> "writing", orig |-> wr[w].orig, at |-> w_off, len |-> len,
                 byte |-> b, ret |-> 0]
<1>0. SleepInv /\ RingOK /\ ControlOK /\ OneWriter /\ buffer \in [Off -> Byte] /\ w_off \in Off
  BY DEF LogInv, SleepInv, RingOK, ControlOK
<1>1. /\ wr' = [wr EXCEPT ![w] = x] /\ \A v \in Writer : ~Writing(v)
      /\ w_off' = logger_offset(w_off + HdrLen) /\ rd' = rd
      /\ buffer' = Put(buffer, w_off, Header(len))
      /\ head' = FixUp(head, n)
      /\ r_off' = [r \in Reader |-> IF r \in Open THEN FixUp(r_off[r], n) ELSE r_off[r]]
  BY DEF write_header, Locked, Writing
<1>2. SleepInv'
  <2>1. Write(w)
    BY DEF Write
  <2> QED BY <1>0, <2>1, WriteKeeps
<1>3. wr'[w] = x /\ \A v \in Writer : Writing(v)' => v = w
  BY <1>0, <1>1 DEF ControlOK, Writing
<1>4. Writing(w)' /\ OneWriter'
  BY <1>2, <1>3 DEF Writing, SleepInv
<1>5. End = w_off /\ End' = w_off
  <2>1. End' = wr'[w].at
    BY <1>4, EndIsNext
  <2> QED BY <1>0, <1>1, <1>3, <2>1, EndIs
<1>6. n \in Nat /\ 2 <= n /\ 2 * n <= Size /\ n < Size /\ Size \in Nat
  <2>1. n \in Nat /\ 2 <= n /\ 2 * n <= Size /\ Size \in Nat
    BY EntryFits, LoggerAssumption
  <2> HIDE DEF n
  <2> QED BY <2>1
<1>7. PICK D : Starts(buffer, w_off, D) /\ \A p \in Positions : Dist(w_off, p) \in D
  BY <1>5 DEF LogInv, StartsOK
<1> DEFINE C == {d \in D : d + n < Size}
<1>8. ASSUME NEW f, IsEntries(buffer, w_off, f), NEW p \in Positions
      PROVE  MovesTo(f, D, w_off, Dist(w_off, p), n, FixUp(p, n))
  <2>1. p \in Off
    BY <1>0 DEF Positions, RingOK, Open
  <2>2. Dist(w_off, p) \in D
    BY <1>7
  <2> QED BY <1>0, <1>7, <1>8, <2>1, <2>2, FixUpIs
<1>9. ASSUME NEW p \in Positions PROVE FixUp(p, n) \in Off /\ Dist(w_off, FixUp(p, n)) \in C
  <2>1. PICK f : IsEntries(buffer, w_off, f)
    BY <1>0, WalksExist
  <2>2. MovesTo(f, D, w_off, Dist(w_off, p), n, FixUp(p, n))
    BY <1>8, <2>1
  <2> QED BY <2>2 DEF MovesTo
<1>10. head \in Positions /\ \A r \in Open : r_off[r] \in Positions /\ r \in Reader
  BY DEF Positions, Open
<1>11. Starts(buffer, w_off, C)
  <2>1. 0 \in C
    BY <1>6, <1>7 DEF Starts
  <2>2. ASSUME NEW d \in C \ {0}
        PROVE  LenAt(buffer, Dist(w_off, d)) <= d /\ d - LenAt(buffer, Dist(w_off, d)) \in C
    <3> DEFINE k == LenAt(buffer, Dist(w_off, d))
    <3>1. d \in D /\ d # 0 /\ d + n < Size
      OBVIOUS
    <3>2. d \in Nat /\ k \in Nat /\ k <= d /\ d - k \in D
      BY <1>0, <1>7, <3>1, StartAt
    <3> HIDE DEF k, n
    <3>3. (d - k) + n < Size
      BY <1>6, <3>1, <3>2
    <3> QED BY <3>2, <3>3 DEF k
  <2> QED BY <1>7, <2>1, <2>2 DEF Starts
<1>12. Header(len) \in Seq(Byte) /\ Len(Header(len)) = HdrLen
  BY EntryShape
<1>13. HdrLen \in Nat /\ len \in Nat /\ len >= 1 /\ 0 + HdrLen <= n /\ 0 + HdrLen < Size /\ HdrLen + 0 = HdrLen
  BY <1>6, LoggerAssumption
<1>14. w_off = logger_offset(w_off + 0)
  <2>1. w_off \in Int /\ 0 <= w_off /\ w_off < Size /\ w_off + 0 = w_off
    BY <1>0, <1>6 DEF Off
  <2> QED BY <1>6, <2>1, Wrap
<1>15. buffer' \in [Off -> Byte] /\ HasPut(buffer', buffer, w_off, 0, Header(len))
  <2>1. 0 + Len(Header(len)) < Size /\ 0 \in Nat
    BY <1>12, <1>13
  <2> HIDE DEF n
  <2> QED BY <1>0, <1>1, <1>12, <1>14, <2>1, PutShape
<1>16. Size - n \in Off /\ Agree(buffer', buffer, w_off, Size - n)
  <2>1. 0 + Len(Header(len)) <= n /\ 1 <= n /\ 0 \in Nat
    BY <1>6, <1>12, <1>13
  <2> HIDE DEF n
  <2> QED BY <1>0, <1>1, <1>6, <1>12, <1>14, <2>1, PutAgrees
<1> HIDE DEF n
<1>17. /\ Starts(buffer', w_off, C)
       /\ \A f, g : IsEntries(buffer, w_off, f) /\ IsEntries(buffer', w_off, g) => \A d \in C : g[d] = f[d]
  <2>1. \A d \in C : d <= Size - n
    BY <1>6, <1>7 DEF Starts, Off
  <2> HIDE DEF C
  <2> QED BY <1>0, <1>11, <1>15, <1>16, <2>1, StartsSame
<1>18. ASSUME NEW f, NEW g, IsEntries(buffer, End, f), IsEntries(buffer', End', g)
       PROVE  RoomUnread(f, g, n)
  <2>1. ASSUME NEW p \in Positions
        PROVE  g[Dist(w_off, FixUp(p, n))] = Log!Room(f[Dist(w_off, p)], n)
    <3>1. f[Dist(w_off, FixUp(p, n))] = Log!Room(f[Dist(w_off, p)], n)
      BY <1>5, <1>8, <1>18 DEF MovesTo
    <3>2. Dist(w_off, FixUp(p, n)) \in C
      BY <1>9
    <3>3. g[Dist(w_off, FixUp(p, n))] = f[Dist(w_off, FixUp(p, n))]
      BY <1>5, <1>17, <1>18, <3>2
    <3> QED BY <3>1, <3>3
  <2>2. g[Dist(End', head')] = Log!Room(f[Dist(End, head)], n)
    BY <1>1, <1>5, <1>10, <2>1
  <2>3. ASSUME NEW r \in Open PROVE g[Dist(End', r_off'[r])] = Log!Room(f[Dist(End, r_off[r])], n)
    <3>1. r_off'[r] = FixUp(r_off[r], n) /\ r_off[r] \in Positions
      BY <1>1, <1>10
    <3> QED BY <1>5, <2>1, <3>1
  <2> QED BY <2>2, <2>3 DEF RoomUnread
<1>19. RingOK'
  <2>1. head' \in Off
    BY <1>1, <1>9, <1>10
  <2>2. r_off' \in [Reader -> Off]
    BY <1>0, <1>1, <1>9, <1>10 DEF RingOK
  <2> QED BY <1>15, <2>1, <2>2 DEF RingOK, Off, Byte
<1>20. StartsOK(C)'
  <2>1. Open' = Open
    BY <1>1 DEF Open
  <2>2. ASSUME NEW p \in Positions' PROVE Dist(w_off, p) \in C
    <3>1. p = head' \/ \E r \in Open : p = r_off'[r]
      BY <2>1 DEF Positions
    <3>2. CASE p = head'
      BY <1>1, <1>9, <1>10, <3>2
    <3>3. ASSUME NEW r \in Open, p = r_off'[r] PROVE Dist(w_off, p) \in C
      BY <1>1, <1>9, <1>10, <3>3
    <3> QED BY <3>1, <3>2, <3>3
  <2>3. ASSUME NEW v \in Writer, Writing(v)', NEW d \in C PROVE d + (HdrLen + wr'[v].len) < Size
    <3>1. v = w /\ wr'[v].len = len
      BY <1>3, <2>3
    <3> QED BY <3>1 DEF n
  <2>4. Starts(buffer', End', C)
    BY <1>5, <1>17
  <2> HIDE DEF C
  <2> QED BY <1>5, <2>2, <2>3, <2>4 DEF StartsOK
<1>21. EntriesOK'
  <2>1. wr'[w].at = w_off /\ wr'[w].len = len /\ wr'[w].byte = b /\ wr'[w].ret = 0
    BY <1>3
  <2>2. ASSUME NEW i \in 0 .. HdrLen - 1 PROVE buffer'[logger_offset(w_off + i)] = NewEntry(len, b)[i + 1]
    <3>1. i \in Off /\ 0 <= i /\ i < 0 + Len(Header(len)) /\ (i - 0) + 1 = i + 1 /\ i + 1 \in 1 .. HdrLen
      BY <1>6, <1>12, <1>13 DEF Off
    <3>2. buffer'[logger_offset(w_off + i)] = Header(len)[(i - 0) + 1]
      BY <1>15, <3>1 DEF HasPut
    <3>3. NewEntry(len, b)[i + 1] = Header(len)[i + 1]
      BY <3>1, EntryShape
    <3> QED BY <3>1, <3>2, <3>3
  <2>3. EntryOK(w)'
    <3>1. HdrLen + wr'[w].ret = HdrLen /\ wr'[w].ret < wr'[w].len
      BY <1>13, <2>1
    <3>2. Begun(w, HdrLen)'
      BY <2>1, <2>2 DEF Begun
    <3>3. w_off' = logger_offset(wr'[w].at + (HdrLen + wr'[w].ret))
      BY <1>1, <2>1, <3>1
    <3>4. Begun(w, HdrLen + wr[w].ret)'
      BY <3>1, <3>2 DEF Begun
    <3> QED BY <3>1, <3>3, <3>4 DEF EntryOK
  <2> QED BY <1>3, <2>3 DEF EntriesOK
<1>22. LogInv'
  BY <1>2, <1>19, <1>20, <1>21 DEF LogInv
<1> QED BY <1>18, <1>22 DEF n

(* What a writer copies lies in the room it has made. *)
LEMMA PutStep ==
  ASSUME LogInv, NEW w \in Writer, Writing(w), NEW n \in Nat, n <= wr[w].len - wr[w].ret,
         NEW s \in Seq(Byte), Len(s) <= n, buffer' = Put(buffer, w_off, s),
         NEW D, StartsOK(D)
  PROVE  /\ buffer' \in [Off -> Byte]
         /\ HasPut(buffer', buffer, wr[w].at, HdrLen + wr[w].ret, s)
         /\ Starts(buffer', wr[w].at, D)
         /\ \A f, g : IsEntries(buffer, wr[w].at, f) /\ IsEntries(buffer', wr[w].at, g) =>
                        \A d \in D : g[d] = f[d]
<1> DEFINE at == wr[w].at
           j == HdrLen + wr[w].ret
           L == HdrLen + wr[w].len
<1>1. /\ at \in Off /\ End = at /\ wr[w].len \in 1 .. MaxPayload /\ wr[w].ret \in Nat
      /\ buffer \in [Off -> Byte]
  BY WriterIs DEF LogInv, RingOK
<1>2. w_off = logger_offset(at + j)
  BY DEF LogInv, EntriesOK, EntryOK
<1>3. HdrLen \in Nat /\ Size \in Nat /\ L \in Nat /\ 2 <= L /\ L < Size
  <2>1. L \in Nat /\ 2 <= L /\ 2 * L <= Size /\ Size \in Nat /\ HdrLen \in Nat
    BY <1>1, EntryFits, LoggerAssumption
  <2> HIDE DEF L
  <2> QED BY <2>1
<1>4. j \in Nat /\ j + Len(s) <= L /\ 1 <= L /\ j + Len(s) < Size
  <2> DEFINE len == wr[w].len
             ret == wr[w].ret
             k == Len(s)
  <2>1. k \in Nat /\ len \in Nat /\ ret \in Nat /\ k <= n /\ n <= len - ret
    BY <1>1
  <2>2. j \in Nat /\ j + k <= L
    <3> HIDE DEF len, ret, k
    <3>1. HdrLen + ret \in Nat /\ (HdrLen + ret) + k <= HdrLen + len
      BY <1>3, <2>1
    <3> QED BY <3>1 DEF len, ret
  <2> HIDE DEF L, j
  <2> QED BY <1>3, <2>1, <2>2
<1>5. Starts(buffer, at, D) /\ D \in SUBSET Off /\ \A d \in D : d + L < Size
  BY <1>1 DEF StartsOK, Starts
<1> HIDE DEF at, j, L
<1>6. buffer' \in [Off -> Byte] /\ HasPut(buffer', buffer, at, j, s)
  BY <1>1, <1>2, <1>4, PutShape
<1>7. Size - L \in Off /\ Agree(buffer', buffer, at, Size - L)
  BY <1>1, <1>2, <1>3, <1>4, PutAgrees
<1>8. \A d \in D : d <= Size - L
  BY <1>3, <1>5 DEF Off
<1>9. /\ Starts(buffer', at, D)
      /\ \A f, g : IsEntries(buffer, at, f) /\ IsEntries(buffer', at, g) => \A d \in D : g[d] = f[d]
  BY <1>1, <1>5, <1>6, <1>7, <1>8, StartsSame
<1> QED BY <1>6, <1>9 DEF at, j

(* A segment goes on with the entry. *)
LEMMA Grows ==
  ASSUME LogInv, NEW w \in Writer, Writing(w), NEW n \in Nat, n <= wr[w].len - wr[w].ret,
         HasPut(buffer', buffer, wr[w].at, HdrLen + wr[w].ret, Fill(n, wr[w].byte))
  PROVE  \A i \in 0 .. (HdrLen + wr[w].ret + n) - 1 :
           buffer'[logger_offset(wr[w].at + i)] = NewEntry(wr[w].len, wr[w].byte)[i + 1]
<1> DEFINE at == wr[w].at
           ret == wr[w].ret
           len == wr[w].len
           b == wr[w].byte
           s == Fill(n, b)
<1>1. at \in Off /\ len \in 1 .. MaxPayload /\ ret \in Nat /\ b \in Payload
  BY WriterIs
<1>2. \A i \in 0 .. (HdrLen + ret) - 1 : buffer[logger_offset(at + i)] = NewEntry(len, b)[i + 1]
  <2>1. Begun(w, HdrLen + ret)
    BY DEF LogInv, EntriesOK, EntryOK
  <2> QED BY <2>1, Zenon DEF Begun
<1>3. HdrLen \in Nat /\ Size \in Nat /\ HdrLen + len \in Nat /\ HdrLen + len < Size
  <2> DEFINE L == HdrLen + len
  <2>1. L \in Nat /\ 2 <= L /\ 2 * L <= Size /\ Size \in Nat /\ HdrLen \in Nat
    BY <1>1, EntryFits, LoggerAssumption
  <2> HIDE DEF L
  <2>2. L < Size
    BY <2>1
  <2> QED BY <2>1, <2>2 DEF L
<1>4. Len(s) = n /\ \A i \in 1 .. n : s[i] = b
  BY DEF Fill
<1>5. n <= len - ret
  OBVIOUS
<1>6. HasPut(buffer', buffer, at, HdrLen + ret, s)
  OBVIOUS
<1>7. \A i \in HdrLen + 1 .. HdrLen + len : NewEntry(len, b)[i] = b
  BY <1>1, EntryShape
<1> HIDE DEF at, ret, len, b, s
<1>8. ASSUME NEW i \in 0 .. (HdrLen + ret + n) - 1
      PROVE  buffer'[logger_offset(at + i)] = NewEntry(len, b)[i + 1]
  <2>1. i \in Off /\ i \in Nat
    BY <1>1, <1>3, <1>5 DEF Off
  <2>2. CASE i < HdrLen + ret
    <3>1. i \in 0 .. (HdrLen + ret) - 1
      BY <1>1, <1>3, <2>1, <2>2
    <3>2. buffer'[logger_offset(at + i)] = buffer[logger_offset(at + i)]
      BY <1>1, <1>3, <1>6, <2>1, <2>2 DEF HasPut
    <3> QED BY <1>2, <3>1, <3>2
  <2>3. CASE ~(i < HdrLen + ret)
    <3>1. /\ HdrLen + ret <= i /\ i < HdrLen + ret + n
          /\ (i - (HdrLen + ret)) + 1 \in 1 .. n /\ i + 1 \in HdrLen + 1 .. HdrLen + len
      BY <1>1, <1>3, <1>5, <2>1, <2>3
    <3>2. buffer'[logger_offset(at + i)] = s[(i - (HdrLen + ret)) + 1]
      BY <1>4, <1>6, <2>1, <3>1 DEF HasPut
    <3> QED BY <1>4, <1>7, <3>1, <3>2
  <2> QED BY <2>2, <2>3
<1> QED BY <1>8 DEF at, ret, len, b

(* The entry, once it is all there. *)
LEMMA Written ==
  ASSUME NEW buf \in [Off -> Byte], NEW at \in Off, NEW len \in 1 .. MaxPayload, NEW b \in Payload,
         \A i \in 0 .. (HdrLen + len) - 1 : buf[logger_offset(at + i)] = NewEntry(len, b)[i + 1]
  PROVE  LenAt(buf, at) = HdrLen + len /\ SpanOf(buf, at, HdrLen + len) = NewEntry(len, b)
<1> DEFINE L == HdrLen + len
           e == NewEntry(len, b)
<1>1. /\ HdrLen \in Nat /\ HdrLen >= 2 /\ Size \in Nat /\ Size > 1 /\ at \in Int /\ 0 <= at /\ at < Size
      /\ L \in Nat /\ 2 <= L /\ Radix \in Nat
  <2>1. L \in Nat /\ 2 <= L /\ 2 * L <= Size /\ Size \in Nat /\ HdrLen \in Nat /\ HdrLen >= 2 /\ Radix \in Nat
    BY EntryFits, LoggerAssumption
  <2> HIDE DEF L
  <2> QED BY <2>1 DEF Off
<1>2. /\ e \in Seq(Byte) /\ Len(e) = L
      /\ e[1] = len % Radix /\ e[2] = len \div Radix
  <2>1. 1 \in 1 .. HdrLen /\ 2 \in 1 .. HdrLen
    BY <1>1
  <2> QED BY <2>1, EntryShape
<1>3. \A i \in 0 .. L - 1 : buf[logger_offset(at + i)] = e[i + 1]
  BY Zenon
<1> HIDE DEF L, e
<1>4. buf[logger_offset(at + 0)] = e[0 + 1] /\ buf[logger_offset(at + 1)] = e[1 + 1]
  <2>1. 0 \in 0 .. L - 1 /\ 1 \in 0 .. L - 1
    BY <1>1
  <2> QED BY <1>3, <2>1
<1>5. logger_offset(at + 0) = at /\ logger_offset(at + 1) = IF at + 1 = Size THEN 0 ELSE at + 1
  <2>1. logger_offset(at + 0) = at
    BY <1>1, Wrap
  <2>2. logger_offset(at + 1) = IF at + 1 < Size THEN at + 1 ELSE at + 1 - Size
    BY <1>1, Wrap
  <2> QED BY <1>1, <2>1, <2>2
<1>6. buf[at] = len % Radix /\ (IF at + 1 = Size THEN buf[0] ELSE buf[at + 1]) = len \div Radix
  BY <1>2, <1>4, <1>5
<1>7. LenAt(buf, at) = HdrLen + len
  <2> DEFINE r == len % Radix
             q == len \div Radix
  <2>1. r \in Byte /\ q \in Byte /\ r + Radix * q = len
    BY TwoBytes
  <2>2. LenAt(buf, at) = HdrLen + r + Radix * q
    BY <1>6 DEF LenAt
  <2> HIDE DEF r, q
  <2>3. r \in Nat /\ Radix * q \in Nat
    BY <1>1, <2>1 DEF Byte
  <2> QED BY <1>1, <2>1, <2>2, <2>3
<1>8. SpanOf(buf, at, L) = e
  <2> DEFINE s == SpanOf(buf, at, L)
  <2>1. s \in Seq(Byte) /\ Len(s) = L
    BY <1>1, SpanBytes
  <2>2. ASSUME NEW i \in 1 .. L PROVE s[i] = e[i]
    <3>1. i - 1 \in 0 .. L - 1 /\ at + (i - 1) = at + i - 1 /\ (i - 1) + 1 = i
      BY <1>1
    <3>2. s[i] = buf[logger_offset(at + i - 1)]
      BY DEF SpanOf
    <3> QED BY <1>3, <3>1, <3>2
  <2> HIDE DEF s
  <2>3. s = e
    BY <1>2, <2>1, <2>2, SeqEqual
  <2> QED BY <2>3 DEF s
<1> QED BY <1>7, <1>8 DEF L, e

(* What the steps below need of a writer and of the positions. *)
LEMMA OpenAre ==
  ASSUME LogInv
  PROVE  /\ buffer \in [Off -> Byte] /\ Positions \in SUBSET Off
         /\ head \in Positions /\ \A r \in Open : r_off[r] \in Positions /\ r \in Reader
BY DEF LogInv, RingOK, Positions, Open

(* do_write_log_from_user: the entry is no part of the log before its last *)
(* byte is there, and is then the newest for everybody.                    *)
LEMMA SegmentStep ==
  ASSUME StaleFault = FALSE, LogInv, NEW w \in Writer, NEW n \in 1 .. MaxPayload, write_segment(w, n)
  PROVE  /\ LogInv' /\ Open' = Open
         /\ \A f, g : IsEntries(buffer, End, f) /\ IsEntries(buffer', End', g) =>
              IF wr[w].ret + n = wr[w].len THEN MoreUnread(f, g, NewEntry(wr[w].len, wr[w].byte))
              ELSE SameUnread(f, g)
<1> DEFINE at == wr[w].at
           ret == wr[w].ret
           len == wr[w].len
           b == wr[w].byte
           L == HdrLen + len
<1>1. /\ Writing(w) /\ n \in Nat /\ n <= len - ret
      /\ buffer' = Put(buffer, w_off, Fill(n, b))
      /\ w_off' = logger_offset(w_off + n)
      /\ head' = head /\ r_off' = r_off
  BY DEF write_segment, Writing
<1>2. SleepInv'
  <2>1. Write(w)
    BY DEF Write
  <2> QED BY <2>1, WriteKeeps DEF LogInv
<1>3. /\ at \in Off /\ len \in 1 .. MaxPayload /\ b \in Payload /\ ret \in Nat /\ End = at
      /\ \A v \in Writer : Writing(v) => v = w
  BY <1>1, WriterIs
<1>4. Open' = Open
  BY DEF write_segment, Open, wake_up
<1>5. PICK D : StartsOK(D)
  BY DEF LogInv
<1>6. Fill(n, b) \in Seq(Byte) /\ Len(Fill(n, b)) <= n
  <2>1. b \in Byte
    BY <1>3, LoggerAssumption DEF Byte
  <2>2. Fill(n, b) \in [1 .. n -> Byte]
    BY <2>1 DEF Fill
  <2>3. DOMAIN Fill(n, b) = 1 .. n
    BY DEF Fill
  <2> DEFINE s == Fill(n, b)
  <2> HIDE DEF s
  <2>4. s \in Seq(Byte) /\ Len(s) = n
    BY <1>1, <2>2, <2>3 DEF s
  <2> QED BY <1>1, <2>4 DEF s
<1>7. /\ buffer' \in [Off -> Byte]
      /\ HasPut(buffer', buffer, at, HdrLen + ret, Fill(n, b))
      /\ Starts(buffer', at, D)
      /\ \A f, g : IsEntries(buffer, at, f) /\ IsEntries(buffer', at, g) => \A d \in D : g[d] = f[d]
  BY <1>1, <1>5, <1>6, PutStep
<1>8. \A i \in 0 .. (HdrLen + ret + n) - 1 : buffer'[logger_offset(at + i)] = NewEntry(len, b)[i + 1]
  BY <1>1, <1>7, Grows
<1>9. HdrLen \in Nat /\ Size \in Nat /\ L \in Nat /\ 2 <= L /\ L < Size
  <2>1. L \in Nat /\ 2 <= L /\ 2 * L <= Size /\ Size \in Nat /\ HdrLen \in Nat
    BY <1>3, EntryFits, LoggerAssumption
  <2> HIDE DEF L
  <2> QED BY <2>1
<1>10. w_off' = logger_offset(at + (HdrLen + ret + n))
  <2>1. w_off = logger_offset(at + (HdrLen + ret))
    BY <1>1 DEF LogInv, EntriesOK, EntryOK
  <2>2. HdrLen + ret + n < Size /\ HdrLen + ret + n \in Nat /\ HdrLen + ret \in Nat
    <3> HIDE DEF len, ret
    <3> QED BY <1>1, <1>3, <1>9 DEF L
  <2> DEFINE j == HdrLen + ret
  <2>3. w_off = logger_offset(at + j) /\ w_off' = logger_offset(w_off + n)
        /\ j \in Nat /\ j + n \in Nat /\ j + n < Size
    BY <1>1, <2>1, <2>2
  <2> HIDE DEF j, at
  <2>4. at \in Int /\ 0 <= at /\ at < Size
    BY <1>3, <1>9 DEF Off
  <2>5. w_off = IF at + j < Size THEN at + j ELSE at + j - Size
    BY <1>1, <1>9, <2>3, <2>4, Wrap
  <2>6. w_off \in Int /\ 0 <= w_off /\ w_off < Size
    BY <1>1, <1>9, <2>3, <2>4, <2>5
  <2>7. w_off' = IF w_off + n < Size THEN w_off + n ELSE (w_off + n) - Size
    <3>1. w_off + n \in Int /\ -Size <= w_off + n /\ w_off + n < 2 * Size /\ ~(w_off + n < 0)
      BY <1>1, <1>9, <2>3, <2>6
    <3> DEFINE x == w_off + n
    <3> HIDE DEF x
    <3>2. logger_offset(x) = IF x < Size THEN x ELSE x - Size
      BY <3>1, Wrap DEF x
    <3> QED BY <2>3, <3>2 DEF x
  <2>8. logger_offset(at + (j + n)) = IF at + (j + n) < Size THEN at + (j + n) ELSE (at + (j + n)) - Size
    <3>1. at + (j + n) \in Int /\ -Size <= at + (j + n) /\ at + (j + n) < 2 * Size /\ ~(at + (j + n) < 0)
      BY <1>9, <2>3, <2>4
    <3> DEFINE x == at + (j + n)
    <3> HIDE DEF x
    <3>2. logger_offset(x) = IF x < Size THEN x ELSE x - Size
      BY <3>1, Wrap DEF x
    <3> QED BY <3>2 DEF x
  <2>9. w_off' = logger_offset(at + (j + n))
    <3> DEFINE u == w_off'
               v == logger_offset(at + (j + n))
    <3>1. u = IF w_off + n < Size THEN w_off + n ELSE (w_off + n) - Size
      BY <2>7
    <3>2. v = IF at + (j + n) < Size THEN at + (j + n) ELSE (at + (j + n)) - Size
      BY <2>8
    <3> HIDE DEF u, v
    <3>3. u = v
      BY <1>1, <1>9, <2>3, <2>4, <2>5, <2>6, <3>1, <3>2
    <3> QED BY <3>3 DEF u, v
  <2> QED BY <2>9 DEF j
<1>11. RingOK'
  BY <1>1, <1>7 DEF LogInv, RingOK, Off, Byte
<1>12. /\ Positions' = Positions /\ Positions \in SUBSET Off
       /\ head \in Positions /\ \A r \in Open : r_off[r] \in Positions /\ r \in Reader
  BY <1>1, <1>4, OpenAre DEF Positions
<1>13. /\ \A p \in Positions : Dist(at, p) \in D
       /\ D \in SUBSET Off /\ \A d \in D : d + L < Size
  BY <1>1, <1>3, <1>5 DEF StartsOK, Starts
(* More of it is to come. *)
<1>14. CASE ret + n # len
  <2>1. wr' = [wr EXCEPT ![w].ret = @ + n]
    BY <1>14 DEF write_segment
  <2>2. /\ wr'[w].at = at /\ wr'[w].len = len /\ wr'[w].byte = b /\ wr'[w].ret = ret + n
        /\ Writing(w)' /\ \A v \in Writer : Writing(v)' => v = w
    <3>1. wr \in [Writer -> WriterState]
      BY DEF LogInv, SleepInv, ControlOK
    <3>2. wr[w] \in [st : {"writing"}, orig : Off, at : Off, len : 1 .. MaxPayload, byte : Payload, ret : Nat]
      BY <1>1, <3>1 DEF WriterState, Writing
    <3>3. wr'[w] = [wr[w] EXCEPT !.ret = @ + n] /\ \A v \in Writer \ {w} : wr'[v] = wr[v]
      BY <2>1, <3>1
    <3> QED BY <1>1, <1>3, <3>2, <3>3 DEF Writing
  <2>3. End' = at
    BY <1>2, <2>2, EndIsNext DEF SleepInv
  <2>4. StartsOK(D)'
    <3>1. Starts(buffer', End', D)
      BY <1>7, <2>3
    <3>2. \A p \in Positions' : Dist(End', p) \in D
      BY <1>12, <1>13, <2>3
    <3>3. ASSUME NEW v \in Writer, Writing(v)', NEW d \in D PROVE d + (HdrLen + wr'[v].len) < Size
      BY <1>13, <2>2, <3>3
    <3> QED BY <3>1, <3>2, <3>3 DEF StartsOK
  <2>5. EntriesOK'
    <3>1. HdrLen + wr'[w].ret = HdrLen + ret + n /\ wr'[w].ret < wr'[w].len
      BY <1>1, <1>3, <1>9, <1>14, <2>2
    <3>2. w_off' = logger_offset(wr'[w].at + (HdrLen + wr'[w].ret))
      BY <1>10, <2>2, <3>1
    <3>3. Begun(w, HdrLen + wr[w].ret)'
      BY <1>8, <2>2, <3>1 DEF Begun
    <3>4. EntryOK(w)'
      BY <3>1, <3>2, <3>3 DEF EntryOK
    <3> QED BY <2>2, <3>4 DEF EntriesOK
  <2>6. LogInv'
    BY <1>2, <1>11, <2>4, <2>5 DEF LogInv
  <2>7. ASSUME NEW f, NEW g, IsEntries(buffer, End, f), IsEntries(buffer', End', g) PROVE SameUnread(f, g)
    <3>1. \A p \in Positions : g[Dist(at, p)] = f[Dist(at, p)]
      BY <1>3, <1>7, <1>13, <2>3, <2>7
    <3> QED BY <1>1, <1>3, <1>12, <2>3, <3>1 DEF SameUnread
  <2> QED BY <1>4, <1>14, <2>6, <2>7
(* That was the last of it. *)
<1>15. CASE ret + n = len
  <2>1. wr' = [wr EXCEPT ![w] = Idle]
    BY <1>15 DEF write_segment
  <2>2. \A v \in Writer : ~Writing(v)'
    <3>1. wr \in [Writer -> WriterState]
      BY DEF LogInv, SleepInv, ControlOK
    <3> QED BY <1>3, <2>1, <3>1 DEF Writing, Idle
  <2>3. HdrLen + ret + n = L
    BY <1>1, <1>3, <1>9, <1>15
  <2>4. End' = logger_offset(at + L)
    BY <1>2, <1>10, <2>2, <2>3, EndIsNext DEF SleepInv
  <2>5. LenAt(buffer', at) = L /\ SpanOf(buffer', at, L) = NewEntry(len, b)
    <3>1. \A i \in 0 .. (HdrLen + len) - 1 : buffer'[logger_offset(at + i)] = NewEntry(len, b)[i + 1]
      BY <1>8, <2>3
    <3> HIDE DEF at, len, b
    <3> QED BY <1>3, <1>7, <3>1, Written
  <2> HIDE DEF at, len, b, L
  <2>6. /\ End' \in Off /\ Starts(buffer', End', More(D, L))
        /\ \A f, g : IsEntries(buffer', at, f) /\ IsEntries(buffer', End', g) =>
             \A d \in D : g[d + L] = Append(f[d], NewEntry(len, b))
    <3>1. PICK e : e = End'
      OBVIOUS
    <3>2. e = logger_offset(at + L) /\ L = LenAt(buffer', at)
      BY <2>4, <2>5, <3>1
    <3>3. /\ e \in Off /\ Starts(buffer', e, More(D, L))
          /\ \A f, g : IsEntries(buffer', at, f) /\ IsEntries(buffer', e, g) =>
               \A d \in D : g[d + L] = Append(f[d], SpanOf(buffer', at, L))
      BY <1>3, <1>7, <1>13, <3>2, StartsMore
    <3> QED BY <2>5, <3>1, <3>3, Zenon
  <2>7. ASSUME NEW p \in Positions PROVE Dist(End', p) = Dist(at, p) + L
    <3> DEFINE d == Dist(at, p)
    <3>1. p \in Off /\ d \in D /\ d \in Off /\ d + L < Size /\ Dist(at, d) = p
      BY <1>3, <1>12, <1>13, Distances
    <3> HIDE DEF d
    <3>2. d \in Nat /\ d + L \in Off
      BY <1>9, <3>1 DEF Off
    <3>3. Dist(End', d + L) = p
      <4>1. PICK e : e = End'
        OBVIOUS
      <4>2. e = logger_offset(at + L)
        BY <2>4, <4>1
      <4>3. Dist(e, d + L) = Dist(at, d)
        <5>1. at \in Off /\ L \in Nat /\ d \in Nat /\ d + L < Size
          BY <1>3, <1>9, <3>1, <3>2
        <5> QED BY <4>2, <5>1, FurtherEnd, Zenon
      <4> QED BY <3>1, <4>1, <4>3
    <3>4. Dist(End', Dist(End', d + L)) = d + L
      BY <2>6, <3>2, Distances
    <3> QED BY <3>3, <3>4 DEF d
  <2>8. \E E : StartsOK(E)'
    <3>1. ASSUME NEW p \in Positions' PROVE Dist(End', p) \in More(D, L)
      BY <1>12, <1>13, <2>7 DEF More
    <3>2. Starts(buffer', End', More(D, L))
      BY <2>6
    <3>3. PICK E : E = More(D, L)
      OBVIOUS
    <3>4. StartsOK(E)'
      BY <2>2, <3>1, <3>2, <3>3 DEF StartsOK
    <3> QED BY <3>4
  <2>9. EntriesOK'
    BY <2>2 DEF EntriesOK
  <2>10. LogInv'
    BY <1>2, <1>11, <2>8, <2>9 DEF LogInv
  <2>11. ASSUME NEW f, NEW g, IsEntries(buffer, End, f), IsEntries(buffer', End', g)
         PROVE  MoreUnread(f, g, NewEntry(len, b))
    <3>1. PICK h : IsEntries(buffer', at, h)
      BY <1>3, <1>7, WalksExist
    <3>2. ASSUME NEW p \in Positions
          PROVE  g[Dist(End', p)] = Append(f[Dist(at, p)], NewEntry(len, b))
      <4>1. h[Dist(at, p)] = f[Dist(at, p)]
        BY <1>3, <1>7, <1>13, <2>11, <3>1
      <4>2. g[Dist(at, p) + L] = Append(h[Dist(at, p)], NewEntry(len, b))
        BY <1>13, <2>6, <2>11, <3>1
      <4> QED BY <2>7, <4>1, <4>2
    <3> QED BY <1>1, <1>3, <1>12, <3>2 DEF MoreUnread
  <2> QED BY <1>4, <1>15, <2>10, <2>11 DEF at, len, b
<1> QED BY <1>14, <1>15

(* What copy_from_user leaves of a segment it cannot read is bytes. *)
LEMMA FaultBytes ==
  ASSUME NEW m \in Nat, NEW part \in Nat, m <= part, NEW b \in Payload
  PROVE  /\ Fill(m, b) \o Fill(part - m, 0) \in Seq(Byte)
         /\ Len(Fill(m, b) \o Fill(part - m, 0)) = part
<1>1. b \in Byte /\ 0 \in Byte /\ part - m \in Nat
  BY LoggerAssumption DEF Byte
<1>2. ASSUME NEW k \in Nat, NEW c \in Byte PROVE Fill(k, c) \in Seq(Byte) /\ Len(Fill(k, c)) = k
  <2>1. Fill(k, c) \in [1 .. k -> Byte] /\ DOMAIN Fill(k, c) = 1 .. k
    BY DEF Fill
  <2> DEFINE s == Fill(k, c)
  <2> HIDE DEF s
  <2>2. s \in Seq(Byte) /\ Len(s) = k
    BY <2>1 DEF s
  <2> QED BY <2>2 DEF s
<1> DEFINE s == Fill(m, b)
           u == Fill(part - m, 0)
<1>3. s \in Seq(Byte) /\ u \in Seq(Byte) /\ Len(s) = m /\ Len(u) = part - m
  BY <1>1, <1>2
<1> HIDE DEF s, u
<1>4. s \o u \in Seq(Byte) /\ Len(s \o u) = part
  BY <1>1, <1>3
<1> QED BY <1>4 DEF s, u

(* A write that fails leaves the log what fix_up_readers has made it. *)
LEMMA FaultStep ==
  ASSUME StaleFault = FALSE, LogInv, NEW w \in Writer, NEW n \in 1 .. MaxPayload, NEW m \in 0 .. n - 1,
         write_fault(w, n, m)
  PROVE  /\ LogInv' /\ Open' = Open
         /\ \A f, g : IsEntries(buffer, End, f) /\ IsEntries(buffer', End', g) => SameUnread(f, g)
<1> DEFINE at == wr[w].at
           b == wr[w].byte
           part == IF n <= Size - w_off \/ m >= Size - w_off THEN n ELSE Size - w_off
           s == Fill(m, b) \o Fill(part - m, 0)
<1>1. /\ Writing(w) /\ n \in Nat /\ n <= wr[w].len - wr[w].ret /\ m < n
      /\ buffer' = Put(buffer, w_off, s)
      /\ w_off' = at /\ wr' = [wr EXCEPT ![w] = Idle]
      /\ head' = head /\ r_off' = r_off /\ rd' = rd
  BY DEF write_fault, Writing
<1>2. SleepInv'
  <2>1. Write(w)
    BY DEF Write
  <2> QED BY <2>1, WriteKeeps DEF LogInv
<1>3. /\ at \in Off /\ b \in Payload /\ End = at
      /\ \A v \in Writer : Writing(v) => v = w
  BY <1>1, WriterIs
<1>4. Open' = Open
  BY <1>1 DEF Open
<1>5. PICK D : StartsOK(D)
  BY DEF LogInv
<1>6. s \in Seq(Byte) /\ Len(s) <= n
  <2>1. w_off \in Int /\ w_off < Size /\ Size \in Nat
    BY LoggerAssumption DEF LogInv, SleepInv, ControlOK, Off
  <2>2. part \in Nat /\ m \in Nat /\ m <= part /\ part <= n
    BY <1>1, <2>1
  <2> HIDE DEF part, b
  <2>3. s \in Seq(Byte) /\ Len(s) = part
    BY <1>3, <2>2, FaultBytes
  <2> HIDE DEF s
  <2> QED BY <2>2, <2>3
<1> HIDE DEF s
<1>7. /\ buffer' \in [Off -> Byte]
      /\ Starts(buffer', at, D)
      /\ \A f, g : IsEntries(buffer, at, f) /\ IsEntries(buffer', at, g) => \A d \in D : g[d] = f[d]
  BY <1>1, <1>5, <1>6, PutStep
<1>8. RingOK'
  BY <1>1, <1>7 DEF LogInv, RingOK, Off, Byte
<1>9. /\ Positions' = Positions
      /\ head \in Positions /\ \A r \in Open : r_off[r] \in Positions
  BY <1>1, <1>4, OpenAre DEF Positions
<1>10. \A p \in Positions : Dist(at, p) \in D
  BY <1>3, <1>5 DEF StartsOK
<1>11. \A v \in Writer : ~Writing(v)'
  <2>1. wr \in [Writer -> WriterState]
    BY DEF LogInv, SleepInv, ControlOK
  <2> QED BY <1>1, <1>3, <2>1 DEF Writing, Idle
<1>12. End' = at
  BY <1>1, <1>2, <1>11, EndIsNext DEF SleepInv
<1>13. StartsOK(D)'
  <2>1. Starts(buffer', End', D)
    BY <1>7, <1>12
  <2>2. \A p \in Positions' : Dist(End', p) \in D
    BY <1>9, <1>10, <1>12
  <2> QED BY <1>11, <2>1, <2>2 DEF StartsOK
<1>14. LogInv'
  BY <1>2, <1>8, <1>11, <1>13 DEF LogInv, EntriesOK
<1>15. ASSUME NEW f, NEW g, IsEntries(buffer, End, f), IsEntries(buffer', End', g) PROVE SameUnread(f, g)
  <2>1. \A p \in Positions : g[Dist(at, p)] = f[Dist(at, p)]
    BY <1>3, <1>7, <1>10, <1>12, <1>15
  <2> QED BY <1>1, <1>3, <1>9, <1>12, <2>1 DEF SameUnread
<1> QED BY <1>4, <1>14, <1>15

(* The ring and the writer under the mutex stay. *)
RingKept ==
  /\ buffer' = buffer /\ End' = End /\ w_off' = w_off
  /\ \A w \in Writer : (Writing(w)' <=> Writing(w)) /\ (Writing(w) => wr'[w] = wr[w])

(* Then only the positions matter. *)
LEMMA KeptStep ==
  ASSUME LogInv, SleepInv', RingKept, head' \in Off, r_off' \in [Reader -> Off],
         \A D : StartsOK(D) => \A p \in Positions' : Dist(End, p) \in D
  PROVE  LogInv'
<1>1. buffer' = buffer /\ End' = End /\ w_off' = w_off
  BY DEF RingKept
<1>2. RingOK'
  BY <1>1 DEF LogInv, RingOK, Off, Byte
<1>3. PICK D : StartsOK(D)
  BY DEF LogInv
<1>4. \A w \in Writer : Writing(w)' => Writing(w) /\ wr'[w] = wr[w]
  BY DEF RingKept
<1>5. StartsOK(D)'
  <2>1. Starts(buffer', End', D)
    BY <1>1, <1>3 DEF StartsOK
  <2>2. \A p \in Positions' : Dist(End', p) \in D
    BY <1>1, <1>3
  <2>3. ASSUME NEW w \in Writer, Writing(w)', NEW d \in D PROVE d + (HdrLen + wr'[w].len) < Size
    BY <1>3, <1>4, <2>3 DEF StartsOK
  <2> QED BY <2>1, <2>2, <2>3 DEF StartsOK
<1>6. EntriesOK'
  <2> SUFFICES ASSUME NEW w \in Writer, Writing(w)' PROVE EntryOK(w)'
    BY DEF EntriesOK
  <2>1. EntryOK(w) /\ wr'[w] = wr[w]
    BY <1>4 DEF LogInv, EntriesOK
  <2> QED BY <1>1, <2>1 DEF EntryOK, Begun
<1> QED BY <1>2, <1>5, <1>6 DEF LogInv

(* The steps that leave the ring alone do. *)
LEMMA KeepRing ==
  ASSUME SleepInv, SleepInv', buffer' = buffer, w_off' = w_off,
         wr' = wr \/ \E w \in Writer : logger_aio_write(w)
  PROVE  RingKept
<1>1. ControlOK /\ OneWriter /\ OneWriter'
  BY DEF SleepInv
<1>2. \A w \in Writer : (Writing(w)' <=> Writing(w)) /\ (Writing(w) => wr'[w] = wr[w])
  <2>1. CASE wr' = wr
    BY <2>1 DEF Writing
  <2>2. ASSUME NEW v \in Writer, logger_aio_write(v)
        PROVE  \A w \in Writer : (Writing(w)' <=> Writing(w)) /\ (Writing(w) => wr'[w] = wr[w])
    BY <1>1, <2>2 DEF logger_aio_write, ControlOK, Writing
  <2> QED BY <2>1, <2>2
<1>3. End' = End
  BY <1>1, <1>2, EndIs, EndIsNext
<1> QED BY <1>2, <1>3 DEF RingKept

(* do_read_log_to_user takes the oldest of the entries a reader has. *)
LEMMA PassEntry ==
  ASSUME LogInv, NEW r \in Open, End # r_off[r], NEW p,
         p = logger_offset(r_off[r] + get_entry_len(r_off[r]))
  PROVE  /\ p \in Off /\ \A D : StartsOK(D) => Dist(End, p) \in D
         /\ \A f : IsEntries(buffer, End, f) =>
              /\ f[Dist(End, r_off[r])] # << >>
              /\ f[Dist(End, p)] = Tail(f[Dist(End, r_off[r])])
<1> DEFINE o == r_off[r]
           d == Dist(End, o)
           n == LenAt(buffer, o)
<1>1. buffer \in [Off -> Byte] /\ End \in Off /\ o \in Off /\ o \in Positions /\ o # End
  BY EndOK, OpenAre
<1>2. p = logger_offset(o + n)
  BY DEF get_entry_len, LenAt
<1>3. d \in Off /\ Dist(End, d) = o
  BY <1>1, Distances
<1>4. d # 0
  <2>1. Size \in Nat /\ End \in Int /\ o \in Int /\ o < Size /\ 0 <= End
    BY <1>1, LoggerAssumption DEF Off
  <2>2. d = IF o <= End THEN End - o ELSE End - o + Size
    BY <1>1, Distances
  <2> HIDE DEF d, o
  <2> QED BY <1>1, <2>1, <2>2
<1> HIDE DEF o, d, n
<1>5. ASSUME NEW D, StartsOK(D)
      PROVE  /\ n \in Nat /\ n <= d /\ d - n \in D
             /\ \A f : IsEntries(buffer, End, f) => f[d] = <<SpanOf(buffer, o, n)>> \o f[d - n]
  <2>1. Starts(buffer, End, D) /\ d \in D
    BY <1>1, <1>5 DEF StartsOK, d
  <2>2. n = LenAt(buffer, Dist(End, d))
    BY <1>3 DEF n
  <2> QED BY <1>1, <1>3, <1>4, <2>1, <2>2, StartAt
<1>6. PICK D : StartsOK(D)
  BY DEF LogInv
<1>7. n \in Nat /\ n <= d
  BY <1>5, <1>6
<1>8. p \in Off /\ Dist(End, p) = d - n
  BY <1>1, <1>2, <1>7, Onward DEF d
<1>9. ASSUME NEW f, IsEntries(buffer, End, f) PROVE f[d] # << >> /\ f[d - n] = Tail(f[d])
  <2>1. f[d] = <<SpanOf(buffer, o, n)>> \o f[d - n]
    BY <1>5, <1>6, <1>9
  <2> DEFINE e == SpanOf(buffer, o, n)
             q == f[d - n]
  <2>2. d - n \in Off
    BY <1>5, <1>6 DEF StartsOK, Starts
  <2>3. e \in Seq(Byte) /\ q \in Seq(Seq(Byte))
    BY <1>1, <1>7, <1>9, <2>2, SpanBytes DEF IsEntries
  <2> HIDE DEF e, q
  <2>4. <<e>> \o q # << >> /\ Tail(<<e>> \o q) = q
    BY <2>3
  <2> QED BY <2>1, <2>4 DEF e, q
<1> QED BY <1>5, <1>8, <1>9 DEF o, d

(* The steps that leave the ring alone. *)
LEMMA QuietStep ==
  ASSUME StaleFault = FALSE, LogInv,
         \/ \E w \in Writer : logger_aio_write(w)
         \/ \E r \in Reader : Read(r)
         \/ flush_log
         \/ UNCHANGED vars
  PROVE  LogInv' /\ RingKept
<1>1. SleepInv
  BY DEF LogInv
<1>2. SleepInv'
  <2>1. CASE \E w \in Writer : logger_aio_write(w)
    BY <1>1, <2>1, WriteKeeps DEF Write
  <2>2. CASE ~\E w \in Writer : logger_aio_write(w)
    BY <1>1, <2>2, ReadKeeps
  <2> QED BY <2>1, <2>2
<1>3. /\ buffer' = buffer /\ w_off' = w_off
      /\ wr' = wr \/ \E w \in Writer : logger_aio_write(w)
  BY Zenon DEF logger_aio_write, Read, logger_open, logger_release, read_step, read_entry, read_fails,
    flush_log, ringVars, vars
<1>4. RingKept
  BY <1>1, <1>2, <1>3, KeepRing
<1>5. RingOK /\ Positions \in SUBSET Off /\ head \in Positions
      /\ \A r \in Open : r_off[r] \in Positions /\ r \in Reader
  BY OpenAre DEF LogInv
<1>6. SUFFICES /\ head' \in Off /\ r_off' \in [Reader -> Off]
               /\ \A D : StartsOK(D) => \A p \in Positions' : Dist(End, p) \in D
  BY <1>2, <1>4, KeptStep
<1>7. \A D : StartsOK(D) => \A p \in Positions : Dist(End, p) \in D
  BY DEF StartsOK
(* No position is new. *)
<1>8. ASSUME head' \in Off, r_off' \in [Reader -> Off], Positions' \in SUBSET Positions
      PROVE  /\ head' \in Off /\ r_off' \in [Reader -> Off]
             /\ \A D : StartsOK(D) => \A p \in Positions' : Dist(End, p) \in D
  BY <1>7, <1>8
<1>9. ASSUME head' = head, r_off' = r_off, Open' = Open
      PROVE  /\ head' \in Off /\ r_off' \in [Reader -> Off] /\ Positions' \in SUBSET Positions
  BY <1>5, <1>9 DEF RingOK, Positions
<1>10. CASE (\E w \in Writer : logger_aio_write(w)) \/ UNCHANGED vars
  <2>1. head' = head /\ r_off' = r_off /\ rd' = rd
    BY <1>10 DEF logger_aio_write, ringVars, vars
  <2>2. Open' = Open
    BY <2>1 DEF Open
  <2> QED BY <1>8, <1>9, <2>1, <2>2
<1>11. ASSUME NEW r \in Reader, Read(r)
       PROVE  /\ head' \in Off /\ r_off' \in [Reader -> Off]
              /\ \A D : StartsOK(D) => \A p \in Positions' : Dist(End, p) \in D
  <2>0. rd \in [Reader -> {"closed", "idle", "wait", "empty", "ready", "asleep"}] /\ head' = head
    BY <1>1, <1>11, Zenon DEF SleepInv, ControlOK, Read, logger_open, logger_release, read_step,
      read_entry, read_fails, ringVars
  <2>1. CASE logger_open(r)
    <3>1. r_off' = [r_off EXCEPT ![r] = head] /\ Open' = Open \cup {r}
      BY <2>0, <2>1 DEF logger_open, Open
    <3>2. Positions' \in SUBSET Positions
      BY <1>5, <2>0, <3>1 DEF Positions, RingOK, Open
    <3> QED BY <1>5, <1>8, <2>0, <3>1, <3>2 DEF RingOK
  <2>2. CASE logger_release(r)
    <3>1. r_off' = [r_off EXCEPT ![r] = 0] /\ Open' = Open \ {r}
      BY <2>0, <2>2 DEF logger_release, Open
    <3>2. Positions' \in SUBSET Positions
      BY <1>5, <2>0, <3>1 DEF Positions, RingOK, Open
    <3>3. 0 \in Off
      BY LoggerAssumption DEF Off
    <3> QED BY <1>5, <1>8, <2>0, <3>1, <3>2, <3>3 DEF RingOK
  <2>3. CASE read_step(r) \/ read_fails(r) \/ (read_entry(r) /\ w_off = r_off[r])
    <3>1. head' = head /\ r_off' = r_off
      BY <2>3 DEF read_step, read_fails, read_entry, ringVars
    <3>2. Open' = Open
      BY <2>0, <2>3 DEF read_step, read_fails, read_entry, Open
    <3> QED BY <1>8, <1>9, <3>1, <3>2
  <2>4. CASE read_entry(r) /\ w_off # r_off[r]
    <3> DEFINE q == logger_offset(r_off[r] + get_entry_len(r_off[r]))
    <3>1. /\ ~Locked /\ rd[r] = "ready" /\ rd' = [rd EXCEPT ![r] = "idle"]
          /\ r_off' = [r_off EXCEPT ![r] = q]
      BY <2>4 DEF read_entry
    <3>2. r \in Open /\ Open' = Open
      BY <2>0, <3>1 DEF Open
    <3>3. End # r_off[r]
      BY <1>1, <2>4, <3>1, EndIs DEF SleepInv, Locked, Writing
    <3>4. q \in Off /\ \A D : StartsOK(D) => Dist(End, q) \in D
      BY <3>2, <3>3, PassEntry
    <3> HIDE DEF q
    <3>5. Positions' \in SUBSET (Positions \cup {q})
      BY <1>5, <2>0, <3>1, <3>2 DEF Positions, RingOK, Open
    <3> QED BY <1>5, <1>7, <2>0, <3>1, <3>4, <3>5 DEF RingOK
  <2> QED BY <1>11, <2>1, <2>2, <2>3, <2>4 DEF Read
<1>12. CASE flush_log
  <2>1. ~Locked /\ head' = w_off /\ r_off' = [r \in Reader |-> IF r \in Open THEN w_off ELSE r_off[r]] /\ rd' = rd
    BY <1>12 DEF flush_log
  <2>2. End = w_off /\ w_off \in Off
    BY <1>1, <2>1, EndIs DEF SleepInv, ControlOK, Locked, Writing
  <2>3. Positions' \in SUBSET {w_off}
    BY <2>1 DEF Positions, Open
  <2>4. Dist(End, w_off) = 0
    <3>1. Size \in Nat /\ w_off \in Int
      BY <2>2, LoggerAssumption DEF Off
    <3>2. Dist(w_off, w_off) = IF w_off <= w_off THEN w_off - w_off ELSE w_off - w_off + Size
      BY <2>2, Distances
    <3> QED BY <2>2, <3>1, <3>2
  <2>5. \A D : StartsOK(D) => 0 \in D
    BY DEF StartsOK, Starts
  <2> QED BY <1>5, <2>1, <2>2, <2>3, <2>4, <2>5 DEF RingOK
<1> QED BY <1>10, <1>11, <1>12

(* The invariant holds at first, with no entry, *)
LEMMA InitLogInv == Init => LogInv
<1> SUFFICES ASSUME Init PROVE LogInv
  OBVIOUS
<1>1. SleepInv
  BY InitSleepInv
<1>2. \A w \in Writer : ~Writing(w)
  BY DEF Init, Writing, Idle
<1>3. 0 \in Off /\ 0 \in Byte /\ Size \in Nat /\ Size > 0
  BY LoggerAssumption DEF Off, Byte
<1>4. RingOK
  BY <1>3 DEF Init, RingOK
<1>5. End = 0
  BY <1>1, <1>2, EndIs DEF SleepInv, Init
<1>6. Open = {} /\ head = 0
  BY DEF Init, Open
<1>7. Dist(0, 0) = 0
  BY <1>3, Wrap DEF Dist
<1>8. StartsOK({0})
  <2>1. Starts(buffer, End, {0})
    BY <1>3 DEF Starts
  <2> QED BY <1>2, <1>5, <1>6, <1>7, <2>1 DEF StartsOK, Positions
<1> QED BY <1>1, <1>2, <1>4, <1>8 DEF LogInv, EntriesOK

(* and every step keeps it. *)
LEMMA NextLogInv ==
  ASSUME StaleFault = FALSE, LogInv, [Next]_vars
  PROVE  LogInv'
<1>1. ASSUME NEW w \in Writer, Write(w) PROVE LogInv'
  <2>1. CASE logger_aio_write(w)
    BY <2>1, QuietStep
  <2>2. ASSUME NEW len \in 1 .. MaxPayload, NEW b \in Payload, write_header(w, len, b) PROVE LogInv'
    BY <2>2, HeaderStep
  <2>3. ASSUME NEW n \in 1 .. MaxPayload, write_segment(w, n) PROVE LogInv'
    BY <2>3, SegmentStep
  <2>4. ASSUME NEW n \in 1 .. MaxPayload, NEW m \in 0 .. n - 1, write_fault(w, n, m) PROVE LogInv'
    BY <2>4, FaultStep
  <2> QED BY <1>1, <2>1, <2>2, <2>3, <2>4 DEF Write
<1>2. CASE (\E r \in Reader : Read(r)) \/ flush_log \/ UNCHANGED vars
  BY <1>2, QuietStep
<1> QED BY <1>1, <1>2 DEF Next

(***************************************************************************)
(* Wherever an open reader or the head stands, what lies between it and    *)
(* the write offset is whole entries: however writes and reads follow each *)
(* other, wrap and overtake, no position is left inside an entry or on     *)
(* bytes a later or failed write has taken, as long as no write that       *)
(* another one overtook fails.                                             *)
(***************************************************************************)
THEOREM EntriesAreWhole ==
  ASSUME StaleFault = FALSE
  PROVE  Spec => []WholeEntries
<1>1. Init => LogInv
  BY InitLogInv
<1>2. LogInv /\ [Next]_vars => LogInv'
  BY NextLogInv
<1>3. LogInv => WholeEntries
  BY LogInvImplies
<1> QED BY <1>1, <1>2, <1>3, PTL DEF Spec

(***************************************************************************)
(* LOGGER_GET_LOG_LEN gives the bytes of the entries the reader has still  *)
(* to read, for every place of its position and of the write offset.       *)
(***************************************************************************)
THEOREM LogLenIsExact ==
  ASSUME StaleFault = FALSE
  PROVE  Spec => []LogLenExact
<1>1. Init => LogInv
  BY InitLogInv
<1>2. LogInv /\ [Next]_vars => LogInv'
  BY NextLogInv
<1>3. LogInv => LogLenExact
  BY LogInvImplies
<1> QED BY <1>1, <1>2, <1>3, PTL DEF Spec

-----------------------------------------------------------------------------
(* The unread entries, by the distances of the positions. *)
Queues(f) ==
  [x \in Reader \cup {Fresh} |-> IF x = Fresh THEN f[Dist(End, head)]
                                 ELSE IF x \in Open THEN f[Dist(End, r_off[x])] ELSE << >>]

(* It does not matter which function has the entries. *)
LEMMA UnreadIs ==
  LogInv => \A f : IsEntries(buffer, End, f) => Unread = Queues(f)
<1> SUFFICES ASSUME LogInv, NEW f, IsEntries(buffer, End, f) PROVE Unread = Queues(f)
  OBVIOUS
<1>1. /\ buffer \in [Off -> Byte] /\ End \in Off /\ Positions \in SUBSET Off
      /\ head \in Positions /\ \A r \in Open : r_off[r] \in Positions
  BY EndOK, OpenAre
<1>2. PICK h : IsEntries(buffer, End, h) /\ \A o \in Off : Entries(o) = h[Dist(End, o)]
  BY <1>1, WalksAre
<1>3. PICK D : StartsOK(D)
  BY DEF LogInv
<1>4. Size - 1 \in Off /\ Agree(buffer, buffer, End, Size - 1) /\ \A d \in Off : d <= Size - 1
  BY LoggerAssumption DEF Off, Agree
<1>5. \A d \in D : h[d] = f[d]
  <2>1. Starts(buffer, End, D) /\ \A d \in D : d <= Size - 1
    BY <1>3, <1>4 DEF StartsOK, Starts
  <2> QED BY <1>1, <1>2, <1>4, <2>1, StartsSame
<1>6. \A p \in Positions : Entries(p) = f[Dist(End, p)]
  BY <1>1, <1>2, <1>3, <1>5 DEF StartsOK
<1> QED BY <1>1, <1>6 DEF Unread, Queues

(* The same behind a step. *)
LEMMA UnreadIsNext ==
  (LogInv => \A f : IsEntries(buffer, End, f) => Unread = Queues(f))'
BY UnreadIs, PTL

(* What a step makes of the functions tells what it makes of the queues. *)
LEMMA UnreadSteps ==
  ASSUME LogInv, LogInv', Open' = Open, Fresh \notin Reader, NEW f, IsEntries(buffer, End, f),
         NEW g, IsEntries(buffer', End', g)
  PROVE  /\ Unread = Queues(f) /\ DOMAIN Unread = Reader \cup {Fresh}
         /\ \A x \in Reader \cup {Fresh} : x \notin Open \cup {Fresh} => Unread[x] = << >> /\ Unread'[x] = << >>
         /\ SameUnread(f, g) => Unread' = Unread
         /\ \A n : RoomUnread(f, g, n) => \A x \in Open \cup {Fresh} : Unread'[x] = Log!Room(Unread[x], n)
         /\ \A e : MoreUnread(f, g, e) => \A x \in Open \cup {Fresh} : Unread'[x] = Append(Unread[x], e)
<1>1. Unread = Queues(f)
  BY UnreadIs
<1>2. Unread' = Queues(g)'
  BY UnreadIsNext
<1>3. Open \in SUBSET Reader
  BY DEF Open
<1>4. /\ DOMAIN Unread = Reader \cup {Fresh}
      /\ \A x \in Reader \cup {Fresh} :
           Unread[x] = IF x = Fresh THEN f[Dist(End, head)]
                       ELSE IF x \in Open THEN f[Dist(End, r_off[x])] ELSE << >>
  BY <1>1 DEF Queues
<1>5. Unread' = [x \in Reader \cup {Fresh} |->
                   IF x = Fresh THEN g[Dist(End', head')]
                   ELSE IF x \in Open THEN g[Dist(End', r_off'[x])] ELSE << >>]
  BY <1>2 DEF Queues
<1>6. ASSUME SameUnread(f, g) PROVE Unread' = Unread
  <2>1. \A x \in Reader \cup {Fresh} : Unread'[x] = Unread[x]
    BY <1>3, <1>4, <1>5, <1>6 DEF SameUnread
  <2> QED BY <1>1, <1>5, <2>1 DEF Queues
<1>7. ASSUME NEW n, RoomUnread(f, g, n), NEW x \in Open \cup {Fresh} PROVE Unread'[x] = Log!Room(Unread[x], n)
  BY <1>3, <1>4, <1>5, <1>7 DEF RoomUnread
<1>8. ASSUME NEW e, MoreUnread(f, g, e), NEW x \in Open \cup {Fresh} PROVE Unread'[x] = Append(Unread[x], e)
  BY <1>3, <1>4, <1>5, <1>8 DEF MoreUnread
<1>9. ASSUME NEW x \in Reader \cup {Fresh}, x \notin Open \cup {Fresh} PROVE Unread[x] = << >> /\ Unread'[x] = << >>
  BY <1>4, <1>5, <1>9
<1> QED BY <1>1, <1>4, <1>6, <1>7, <1>8, <1>9

(* A ring that is kept keeps the functions. *)
LEMMA UnreadKept ==
  ASSUME LogInv, LogInv', RingKept, Open' = Open, Fresh \notin Reader, head' = head, r_off' = r_off
  PROVE  Unread' = Unread
<1>1. buffer \in [Off -> Byte] /\ End \in Off
  BY EndOK, OpenAre
<1>2. PICK f : IsEntries(buffer, End, f)
  BY <1>1, WalksExist
<1>3. End' = End /\ IsEntries(buffer', End', f)
  BY <1>2 DEF RingKept
<1>4. SameUnread(f, f)
  BY <1>3 DEF SameUnread
<1> QED BY <1>2, <1>3, <1>4, UnreadSteps

(* No queue has as many bytes as the ring. *)
LEMMA UnreadFits ==
  LogInv => \A x \in Open \cup {Fresh} : Log!Bytes(Unread[x]) < Size
<1> SUFFICES ASSUME LogInv, NEW x \in Open \cup {Fresh} PROVE Log!Bytes(Unread[x]) < Size
  OBVIOUS
<1>1. /\ buffer \in [Off -> Byte] /\ End \in Off /\ Positions \in SUBSET Off
      /\ head \in Positions /\ \A r \in Open : r_off[r] \in Positions /\ r \in Reader
  BY EndOK, OpenAre
<1>2. PICK f : IsEntries(buffer, End, f)
  BY <1>1, WalksExist
<1>3. PICK g \in [Off -> Off] : IsLeftOver(buffer, End, g)
  BY <1>1, WalksExist
<1>4. PICK D : StartsOK(D)
  BY DEF LogInv
<1>5. \A d \in D : Log!Bytes(f[d]) = d
  BY <1>1, <1>2, <1>3, <1>4, StartsWhole DEF StartsOK
<1>6. PICK p \in Positions : Unread[x] = f[Dist(End, p)]
  <2>1. Unread = Queues(f)
    BY <1>2, UnreadIs
  <2> QED BY <1>1, <2>1 DEF Queues
<1>7. Dist(End, p) \in D /\ Dist(End, p) \in Off
  BY <1>4 DEF StartsOK, Starts
<1>8. Log!Bytes(Unread[x]) \in Off
  BY <1>5, <1>6, <1>7
<1> QED BY <1>8, LoggerAssumption DEF Off

(* The same behind a step. *)
LEMMA UnreadFitsNext ==
  (LogInv => \A x \in Open \cup {Fresh} : Log!Bytes(Unread[x]) < Size)'
BY UnreadFits, PTL

(* The function with the entries, behind a step. *)
LEMMA WalksExistNext ==
  (LogInv => \E f : IsEntries(buffer, End, f))'
<1>1. LogInv => \E f : IsEntries(buffer, End, f)
  BY EndOK, OpenAre, WalksExist
<1> QED BY <1>1, PTL

(* The steps of a writer: what has to go is dropped when the header is     *)
(* written, and the entry is added with the last of its bytes.             *)
LEMMA WriteMaps ==
  ASSUME StaleFault = FALSE, Fresh \notin Reader, LogInv, LogInv', NEW w \in Writer, Write(w)
  PROVE  (\E e \in LogEntry : Log!Drop(Len(e)) \/ Log!Write(e)) \/ UNCHANGED <<Open, Unread>>
<1>0. buffer \in [Off -> Byte] /\ End \in Off
  BY EndOK, OpenAre
<1>1. PICK f : IsEntries(buffer, End, f)
  BY <1>0, WalksExist
<1>2. PICK g : IsEntries(buffer', End', g)
  BY WalksExistNext
<1>3. CASE logger_aio_write(w)
  <2>1. head' = head /\ r_off' = r_off /\ rd' = rd /\ RingKept
    BY <1>3, QuietStep DEF logger_aio_write, ringVars
  <2>2. Open' = Open
    BY <2>1 DEF Open
  <2>3. Unread' = Unread
    BY <2>1, <2>2, UnreadKept
  <2> QED BY <2>2, <2>3
<1>4. ASSUME NEW len \in 1 .. MaxPayload, NEW b \in Payload, write_header(w, len, b)
      PROVE  \E e \in LogEntry : Log!Drop(Len(e))
  <2>1. RoomUnread(f, g, HdrLen + len)
    BY <1>1, <1>2, <1>4, HeaderStep
  <2>2. Open' = Open
    BY <1>4 DEF write_header, Open
  <2>3. /\ DOMAIN Unread = Reader \cup {Fresh}
        /\ \A x \in Reader \cup {Fresh} : x \notin Open \cup {Fresh} => Unread'[x] = << >>
        /\ \A x \in Open \cup {Fresh} : Unread'[x] = Log!Room(Unread[x], HdrLen + len)
    BY <1>1, <1>2, <2>1, <2>2, UnreadSteps
  <2>4. Unread' = [x \in Reader \cup {Fresh} |-> Unread'[x]]
    BY DEF Unread
  <2>5. Log!Drop(HdrLen + len)
    BY <2>2, <2>3, <2>4, Zenon DEF Log!Drop, Log!Kept
  <2>6. NewEntry(len, b) \in LogEntry /\ Len(NewEntry(len, b)) = HdrLen + len
    BY EntryShape DEF LogEntry
  <2> QED BY <2>5, <2>6
<1>5. ASSUME NEW n \in 1 .. MaxPayload, write_segment(w, n)
      PROVE  (\E e \in LogEntry : Log!Write(e)) \/ UNCHANGED <<Open, Unread>>
  <2> DEFINE e == NewEntry(wr[w].len, wr[w].byte)
  <2>1. /\ Open' = Open
        /\ IF wr[w].ret + n = wr[w].len THEN MoreUnread(f, g, e) ELSE SameUnread(f, g)
    BY <1>1, <1>2, <1>5, SegmentStep
  <2>2. CASE SameUnread(f, g)
    <3>1. Unread' = Unread
      BY <1>1, <1>2, <2>1, <2>2, UnreadSteps
    <3> QED BY <2>1, <3>1
  <2>3. CASE MoreUnread(f, g, e)
    <3>1. e \in LogEntry
      <4>1. wr[w].len \in 1 .. MaxPayload /\ wr[w].byte \in Payload
        BY <1>5, WriterIs DEF write_segment, Writing
      <4> QED BY <4>1 DEF LogEntry
    <3> HIDE DEF e
    <3>2. /\ DOMAIN Unread = Reader \cup {Fresh}
          /\ \A x \in Reader \cup {Fresh} : x \notin Open \cup {Fresh} => Unread'[x] = << >>
          /\ \A x \in Open \cup {Fresh} : Unread'[x] = Append(Unread[x], e)
      BY <1>1, <1>2, <2>1, <2>3, UnreadSteps
    <3>3. Unread' = [x \in Reader \cup {Fresh} |-> Unread'[x]]
      BY DEF Unread
    <3>4. \A x \in Open \cup {Fresh} : Log!Bytes(Unread'[x]) < Size
      BY <2>1, UnreadFitsNext
    <3>5. Log!Write(e)
      BY <2>1, <3>2, <3>3, <3>4, Zenon DEF Log!Write, Log!Kept
    <3> QED BY <3>1, <3>5
  <2> QED BY <2>1, <2>2, <2>3
<1>6. ASSUME NEW n \in 1 .. MaxPayload, NEW m \in 0 .. n - 1, write_fault(w, n, m)
      PROVE  UNCHANGED <<Open, Unread>>
  <2>1. Open' = Open /\ SameUnread(f, g)
    BY <1>1, <1>2, <1>6, FaultStep
  <2>2. Unread' = Unread
    BY <1>1, <1>2, <2>1, UnreadSteps
  <2> QED BY <2>1, <2>2
<1> QED BY <1>3, <1>4, <1>5, <1>6 DEF Write

(* The steps of a reader, and the flush. *)
LEMMA ReadMaps ==
  ASSUME StaleFault = FALSE, Fresh \notin Reader, LogInv, LogInv', NEW r \in Reader, Read(r)
  PROVE  Log!Open(r) \/ Log!Close(r) \/ Log!Read(r) \/ UNCHANGED <<Open, Unread>>
<1>1. RingKept /\ buffer' = buffer /\ End' = End
  BY QuietStep DEF RingKept
<1>2. PICK f : IsEntries(buffer, End, f)
  BY EndOK, OpenAre, WalksExist
<1>3. Unread = Queues(f) /\ Unread' = Queues(f)'
  BY <1>1, <1>2, UnreadIs, UnreadIsNext
<1>4. /\ Unread = [x \in Reader \cup {Fresh} |->
                     IF x = Fresh THEN f[Dist(End, head)]
                     ELSE IF x \in Open THEN f[Dist(End, r_off[x])] ELSE << >>]
      /\ Unread' = [x \in Reader \cup {Fresh} |->
                     IF x = Fresh THEN f[Dist(End, head')]
                     ELSE IF x \in Open' THEN f[Dist(End, r_off'[x])] ELSE << >>]
  BY <1>1, <1>3 DEF Queues
<1>5. /\ rd \in [Reader -> {"closed", "idle", "wait", "empty", "ready", "asleep"}]
      /\ head' = head /\ r_off \in [Reader -> Off] /\ Open \in SUBSET Reader
  <2>1. head' = head
    BY Zenon DEF Read, logger_open, logger_release, read_step, read_entry, read_fails, ringVars
  <2> QED BY <2>1 DEF LogInv, SleepInv, ControlOK, RingOK, Open
<1>6. CASE logger_open(r)
  <2>1. r_off' = [r_off EXCEPT ![r] = head] /\ Open' = Open \cup {r} /\ r \notin Open
    BY <1>5, <1>6 DEF logger_open, Open
  <2>2. Unread' = [Unread EXCEPT ![r] = Unread[Fresh]]
    BY <1>4, <1>5, <2>1
  <2> QED BY <2>1, <2>2 DEF Log!Open
<1>7. CASE logger_release(r)
  <2>1. r_off' = [r_off EXCEPT ![r] = 0] /\ Open' = Open \ {r} /\ r \in Open
    BY <1>5, <1>7 DEF logger_release, Open
  <2>2. Unread' = [Unread EXCEPT ![r] = << >>]
    BY <1>4, <1>5, <2>1
  <2> QED BY <2>1, <2>2 DEF Log!Close
<1>8. CASE read_step(r) \/ read_fails(r) \/ (read_entry(r) /\ w_off = r_off[r])
  <2>1. r_off' = r_off
    BY <1>8 DEF read_step, read_fails, read_entry, ringVars
  <2>2. Open' = Open
    BY <1>5, <1>8 DEF read_step, read_fails, read_entry, Open
  <2>3. Unread' = Unread
    BY <1>1, <1>5, <2>1, <2>2, UnreadKept
  <2> QED BY <2>2, <2>3
<1>9. CASE read_entry(r) /\ w_off # r_off[r]
  <2> DEFINE q == logger_offset(r_off[r] + get_entry_len(r_off[r]))
  <2>1. /\ ~Locked /\ rd[r] = "ready" /\ rd' = [rd EXCEPT ![r] = "idle"]
        /\ r_off' = [r_off EXCEPT ![r] = q]
    BY <1>9 DEF read_entry
  <2>2. r \in Open /\ Open' = Open
    BY <1>5, <2>1 DEF Open
  <2>3. End # r_off[r]
    BY <1>9, <2>1, EndIs DEF LogInv, SleepInv, Locked, Writing
  <2>4. f[Dist(End, r_off[r])] # << >> /\ f[Dist(End, q)] = Tail(f[Dist(End, r_off[r])])
    BY <1>2, <2>2, <2>3, PassEntry
  <2> HIDE DEF q
  <2>5. Unread[r] = f[Dist(End, r_off[r])]
    BY <1>4, <2>2
  <2>6. Unread' = [Unread EXCEPT ![r] = Tail(Unread[r])]
    BY <1>4, <1>5, <2>1, <2>2, <2>4, <2>5
  <2> QED BY <2>2, <2>4, <2>5, <2>6 DEF Log!Read
<1> QED BY <1>6, <1>7, <1>8, <1>9 DEF Read

(* LOGGER_FLUSH_LOG leaves nobody anything to read. *)
LEMMA FlushMaps ==
  ASSUME StaleFault = FALSE, Fresh \notin Reader, LogInv, LogInv', flush_log
  PROVE  Log!Flush
<1>1. RingKept /\ buffer' = buffer /\ End' = End
  BY QuietStep DEF RingKept
<1>2. PICK f : IsEntries(buffer, End, f)
  BY EndOK, OpenAre, WalksExist
<1>3. ~Locked /\ head' = w_off /\ r_off' = [r \in Reader |-> IF r \in Open THEN w_off ELSE r_off[r]] /\ Open' = Open
  BY DEF flush_log, Open
<1>4. End = w_off /\ w_off \in Off
  BY <1>3, EndIs DEF LogInv, SleepInv, ControlOK, Locked, Writing
<1>5. f[Dist(End, w_off)] = << >>
  <2>1. Size \in Nat /\ w_off \in Int
    BY <1>4, LoggerAssumption DEF Off
  <2>2. Dist(w_off, w_off) = IF w_off <= w_off THEN w_off - w_off ELSE w_off - w_off + Size
    BY <1>4, Distances
  <2>3. Dist(End, w_off) = 0
    BY <1>4, <2>1, <2>2
  <2>4. f[0] = << >>
    BY <1>2, EndOK, OpenAre, NoneAtEnd
  <2> QED BY <2>3, <2>4
<1>6. Unread' = Queues(f)'
  BY <1>1, <1>2, UnreadIsNext
<1>7. \A x \in Open : r_off'[x] = w_off /\ x \in Reader
  BY <1>3 DEF Open
<1>8. Unread' = [x \in Reader \cup {Fresh} |-> << >>]
  BY <1>1, <1>3, <1>5, <1>6, <1>7 DEF Queues
<1>9. DOMAIN Unread = Reader \cup {Fresh}
  BY DEF Unread
<1> QED BY <1>3, <1>8, <1>9 DEF Log!Flush

(***************************************************************************)
(* The log device gives every open reader, and the next one to be opened,  *)
(* the entries in the order they were written, whole and unaltered, but    *)
(* for the oldest ones a write had to overwrite: the ring, the positions   *)
(* and the mutex implement a queue of entries for each reader.             *)
(***************************************************************************)
THEOREM LoggerImplementsLog ==
  ASSUME StaleFault = FALSE, Fresh \notin Reader
  PROVE  Spec => ImplementsLog
<1>1. Init => LogInv
  BY InitLogInv
<1>2. LogInv /\ [Next]_vars => LogInv'
  BY NextLogInv
<1>3. Init => Log!Init
  <2> SUFFICES ASSUME Init PROVE Log!Init
    OBVIOUS
  <2>1. LogInv
    BY InitLogInv
  <2>2. PICK f : IsEntries(buffer, End, f)
    BY <2>1, EndOK, OpenAre, WalksExist
  <2>3. Open = {} /\ head = 0 /\ End = 0
    <3>1. \A w \in Writer : ~Writing(w)
      BY DEF Init, Writing, Idle
    <3> QED BY <2>1, <3>1, EndIs DEF Init, Open, LogInv, SleepInv
  <2>4. f[Dist(End, head)] = << >>
    <3>1. Dist(0, 0) = 0
      BY Wrap, LoggerAssumption DEF Dist
    <3>2. f[0] = << >>
      BY <2>1, <2>2, EndOK, OpenAre, NoneAtEnd
    <3> QED BY <2>3, <3>1, <3>2
  <2>5. Unread = Queues(f)
    BY <2>1, <2>2, UnreadIs
  <2> QED BY <2>3, <2>4, <2>5 DEF Log!Init, Queues
<1>4. LogInv /\ LogInv' /\ [Next]_vars => [Log!Next]_(Log!vars)
  <2> SUFFICES ASSUME LogInv, LogInv', [Next]_vars PROVE Log!Next \/ UNCHANGED <<Open, Unread>>
    BY DEF Log!vars
  <2>1. ASSUME NEW w \in Writer, Write(w) PROVE Log!Next \/ UNCHANGED <<Open, Unread>>
    <3>1. (\E e \in LogEntry : Log!Drop(Len(e)) \/ Log!Write(e)) \/ UNCHANGED <<Open, Unread>>
      BY <2>1, WriteMaps
    <3> QED BY <3>1, Zenon DEF Log!Next
  <2>2. ASSUME NEW r \in Reader, Read(r) PROVE Log!Next \/ UNCHANGED <<Open, Unread>>
    <3>1. Log!Open(r) \/ Log!Close(r) \/ Log!Read(r) \/ UNCHANGED <<Open, Unread>>
      BY <2>2, ReadMaps
    <3> QED BY <3>1, Zenon DEF Log!Next
  <2>3. CASE flush_log
    <3>1. Log!Flush
      BY <2>3, FlushMaps
    <3> QED BY <3>1, Zenon DEF Log!Next
  <2>4. CASE UNCHANGED vars
    <3>1. head' = head /\ r_off' = r_off /\ rd' = rd /\ RingKept
      BY <2>4, QuietStep DEF vars
    <3>2. Open' = Open
      BY <3>1 DEF Open
    <3> QED BY <3>1, <3>2, UnreadKept
  <2> QED BY <2>1, <2>2, <2>3, <2>4 DEF Next
<1> QED BY <1>1, <1>2, <1>3, <1>4, PTL DEF Spec, ImplementsLog, Log!Spec
=============================================================================
