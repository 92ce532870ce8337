--------------------------- MODULE DpramRingProofs ---------------------------
(***************************************************************************)
(* Proofs about the rings of a port, for every size of either ring and any *)
(* length of a write.                                                      *)
(*                                                                         *)
(* The rings implement two queues.  The argument is arithmetic on wrapped  *)
(* positions: a write that freesize allows lands behind the unread bytes   *)
(* and on none of them (StoreBehind), and a read takes a prefix of them    *)
(* (TakeFront).                                                            *)
(***************************************************************************)
EXTENDS DpramRing, SequenceTheorems, TLAPS

(* Where the byte i of the unread ones is. *)
LEMMA Positions ==
  ASSUME NEW size \in Nat \ {0}, NEW head \in 0 .. size - 1, NEW tail \in 0 .. size - 1
  PROVE  /\ Used(head, tail, size) \in 0 .. size - 1
         /\ FreeSize(head, tail, size) = (size - 1) - Used(head, tail, size)
         /\ \A n \in 0 .. size - 1 : Advance(tail, n, size) \in 0 .. size - 1
         /\ Advance(tail, Used(head, tail, size), size) = head
BY DEF Used, FreeSize, Advance

(* The unread bytes are a sequence, one for each position from tail to     *)
(* head.                                                                   *)
LEMMA ContentsSeq ==
  ASSUME NEW size \in Nat \ {0}, NEW head \in 0 .. size - 1, NEW tail \in 0 .. size - 1,
         NEW buff \in [0 .. size - 1 -> Byte]
  PROVE  /\ Contents(buff, head, tail, size) \in Seq(Byte)
         /\ Len(Contents(buff, head, tail, size)) = Used(head, tail, size)
         /\ \A i \in 1 .. Used(head, tail, size) :
              Contents(buff, head, tail, size)[i] = buff[Advance(tail, i - 1, size)]
<1> DEFINE u == Used(head, tail, size)
<1>1. u \in 0 .. size - 1 /\ \A n \in 0 .. size - 1 : Advance(tail, n, size) \in 0 .. size - 1
  BY Positions
<1> HIDE DEF u
<1>2. \A i \in 1 .. u : buff[Advance(tail, i - 1, size)] \in Byte
  <2> TAKE i \in 1 .. u
  <2>1. i - 1 \in 0 .. size - 1
    BY <1>1
  <2> QED BY <1>1, <2>1
<1>3. Contents(buff, head, tail, size) = [i \in 1 .. u |-> buff[Advance(tail, i - 1, size)]]
  BY DEF Contents, u
<1> DEFINE g == [i \in 1 .. u |-> buff[Advance(tail, i - 1, size)]]
<1>4. g \in Seq(Byte) /\ Len(g) = u /\ \A i \in 1 .. u : g[i] = buff[Advance(tail, i - 1, size)]
  <2>1. u \in Nat
    BY <1>1
  <2> QED BY <1>2, <2>1
<1> HIDE DEF g
<1>5. Contents(buff, head, tail, size) = g
  BY <1>3 DEF g
<1> QED BY <1>4, <1>5 DEF u

(***************************************************************************)
(* A write for which there is room puts its bytes behind the unread ones   *)
(* and overwrites none of them, wherever head and tail are.                *)
(***************************************************************************)
LEMMA StoreBehind ==
  ASSUME NEW size \in Nat \ {0}, NEW head \in 0 .. size - 1, NEW tail \in 0 .. size - 1,
         NEW buff \in [0 .. size - 1 -> Byte], NEW s \in Seq(Byte),
         FreeSize(head, tail, size) >= Len(s)
  PROVE  /\ Advance(head, Len(s), size) \in 0 .. size - 1
         /\ Store(buff, head, s, size) \in [0 .. size - 1 -> Byte]
         /\ Contents(Store(buff, head, s, size), Advance(head, Len(s), size), tail, size)
              = Contents(buff, head, tail, size) \o s
         /\ Len(Contents(buff, head, tail, size) \o s) <= size - 1
<1> DEFINE n == Len(s)
           u == Used(head, tail, size)
           h == Advance(head, n, size)
           b == Store(buff, head, s, size)
           c == Contents(buff, head, tail, size)
           t == c \o s
<1>0. n \in Nat /\ \A i \in 1 .. n : s[i] \in Byte
  OBVIOUS
<1>1. u \in 0 .. size - 1 /\ u + n <= size - 1
  <2>1. u \in 0 .. size - 1 /\ FreeSize(head, tail, size) = (size - 1) - u
    BY Positions
  <2> HIDE DEF u
  <2> QED BY <1>0, <2>1
<1>2. h \in 0 .. size - 1 /\ Used(h, tail, size) = u + n
  BY <1>0, <1>1 DEF Used, Advance
<1>3. b \in [0 .. size - 1 -> Byte]
  <2>1. \A p \in 0 .. size - 1 :
          /\ head <= p /\ p < head + n => p - head + 1 \in 1 .. n
          /\ p < head + n - size => p + size - head + 1 \in 1 .. n
    BY <1>0, <1>1
  <2> QED BY <1>0, <2>1 DEF Store
<1>4. c \in Seq(Byte) /\ Len(c) = u /\ \A i \in 1 .. u : c[i] = buff[Advance(tail, i - 1, size)]
  BY ContentsSeq
<1>5. /\ Contents(b, h, tail, size) \in Seq(Byte)
      /\ Len(Contents(b, h, tail, size)) = u + n
      /\ \A i \in 1 .. u + n : Contents(b, h, tail, size)[i] = b[Advance(tail, i - 1, size)]
  <2> HIDE DEF b, h, u, n
  <2>1. /\ Contents(b, h, tail, size) \in Seq(Byte)
        /\ Len(Contents(b, h, tail, size)) = Used(h, tail, size)
        /\ \A i \in 1 .. Used(h, tail, size) :
             Contents(b, h, tail, size)[i] = b[Advance(tail, i - 1, size)]
    BY <1>2, <1>3, ContentsSeq
  <2> QED BY <1>2, <2>1
<1>6. \A p \in 0 .. size - 1 : b[p] = IF head <= p /\ p < head + n THEN s[p - head + 1]
                                    ELSE IF p < head + n - size THEN s[p + size - head + 1]
                                    ELSE buff[p]
  BY DEF Store
(* The unread bytes are where they were. *)
<1>7. \A i \in 1 .. u : b[Advance(tail, i - 1, size)] = buff[Advance(tail, i - 1, size)]
  <2> TAKE i \in 1 .. u
  <2> DEFINE p == Advance(tail, i - 1, size)
  <2>1. p \in 0 .. size - 1 /\ ~(head <= p /\ p < head + n) /\ ~(p < head + n - size)
    BY <1>0, <1>1 DEF Used, Advance
  <2> HIDE DEF p, b
  <2>2. b[p] = buff[p]
    BY <1>6, <2>1
  <2> QED BY <2>2 DEF p
(* The new ones follow them. *)
<1>8. \A i \in u + 1 .. u + n : b[Advance(tail, i - 1, size)] = s[i - u]
  <2> TAKE i \in u + 1 .. u + n
  <2> DEFINE p == Advance(tail, i - 1, size)
  <2>1. /\ p \in 0 .. size - 1
        /\ \/ head <= p /\ p < head + n /\ p - head + 1 = i - u
           \/ ~(head <= p) /\ p < head + n - size /\ p + size - head + 1 = i - u
    BY <1>0, <1>1 DEF Used, Advance
  <2> HIDE DEF p, b, u
  <2>2. b[p] = s[i - u]
    BY <1>6, <2>1
  <2> QED BY <2>2 DEF p
<1>9. t \in Seq(Byte) /\ Len(t) = u + n /\ \A i \in 1 .. u + n : t[i] = IF i <= u THEN c[i] ELSE s[i - u]
  <2>1. /\ t \in Seq(Byte) /\ Len(t) = Len(c) + Len(s)
        /\ \A i \in 1 .. Len(c) + Len(s) : t[i] = IF i <= Len(c) THEN c[i] ELSE s[i - Len(c)]
    BY <1>4, ConcatProperties, Zenon
  <2> HIDE DEF c, t, u
  <2> QED BY <1>4, <2>1
<1> DEFINE d == Contents(b, h, tail, size)
<1>10. d = t
  <2> HIDE DEF b, h, c, t, u, n, d
  <2>1. d \in Seq(Byte) /\ Len(d) = u + n /\ \A i \in 1 .. u + n : d[i] = b[Advance(tail, i - 1, size)]
    BY <1>5 DEF d
  <2>2. \A i \in 1 .. u + n : d[i] = t[i]
    <3> TAKE i \in 1 .. u + n
    <3>1. CASE i <= u
      <4>1. i \in 1 .. u
        BY <1>1, <3>1
      <4> QED BY <1>4, <1>7, <1>9, <2>1, <3>1, <4>1
    <3>2. CASE ~(i <= u)
      <4>1. i \in u + 1 .. u + n
        BY <1>0, <1>1, <3>2
      <4> QED BY <1>8, <1>9, <2>1, <3>2, <4>1
    <3> QED BY <3>1, <3>2
  <2> QED BY <1>9, <2>1, <2>2, SeqEqual
<1> HIDE DEF c, t, d, u
<1>11. Len(t) <= size - 1
  BY <1>1, <1>9
<1> QED BY <1>2, <1>3, <1>10, <1>11, Zenon DEF c, d, t

(* The first n unread bytes. *)
Front(buff, tail, n, size) == [i \in 1 .. n |-> buff[Advance(tail, i - 1, size)]]

(***************************************************************************)
(* The unread bytes are the first n of them and what is left behind those. *)
(***************************************************************************)
LEMMA TakeFront ==
  ASSUME NEW size \in Nat \ {0}, NEW head \in 0 .. size - 1, NEW tail \in 0 .. size - 1,
         NEW buff \in [0 .. size - 1 -> Byte], NEW n \in 0 .. Used(head, tail, size)
  PROVE  /\ Advance(tail, n, size) \in 0 .. size - 1
         /\ Front(buff, tail, n, size) \in Seq(Byte)
         /\ Contents(buff, head, tail, size) =
              Front(buff, tail, n, size) \o Contents(buff, head, Advance(tail, n, size), size)
<1> DEFINE u == Used(head, tail, size)
           t2 == Advance(tail, n, size)
           f == [i \in 1 .. n |-> buff[Advance(tail, i - 1, size)]]
           c == Contents(buff, head, tail, size)
           r == Contents(buff, head, t2, size)
           t == f \o r
<1>1. u \in 0 .. size - 1 /\ n \in 0 .. u /\ n \in Nat
  BY Positions
<1>2. t2 \in 0 .. size - 1 /\ Used(head, t2, size) = u - n
  BY <1>1 DEF Used, Advance
<1>3. \A i \in 1 .. u - n : Advance(t2, i - 1, size) = Advance(tail, (i + n) - 1, size)
  BY <1>1 DEF Used, Advance
<1>4. c \in Seq(Byte) /\ Len(c) = u /\ \A i \in 1 .. u : c[i] = buff[Advance(tail, i - 1, size)]
  BY ContentsSeq
<1>5. r \in Seq(Byte) /\ Len(r) = u - n /\ \A i \in 1 .. u - n : r[i] = buff[Advance(t2, i - 1, size)]
  <2> HIDE DEF t2, u
  <2>1. /\ r \in Seq(Byte) /\ Len(r) = Used(head, t2, size)
        /\ \A i \in 1 .. Used(head, t2, size) : r[i] = buff[Advance(t2, i - 1, size)]
    BY <1>2, ContentsSeq
  <2> HIDE DEF r
  <2> QED BY <1>2, <2>1
<1>6. f \in Seq(Byte) /\ Len(f) = n /\ \A i \in 1 .. n : f[i] = buff[Advance(tail, i - 1, size)]
  <2>1. \A i \in 1 .. n : buff[Advance(tail, i - 1, size)] \in Byte
    <3> TAKE i \in 1 .. n
    <3>1. i - 1 \in 0 .. size - 1
      BY <1>1
    <3>2. Advance(tail, i - 1, size) \in 0 .. size - 1
      BY <3>1, Positions
    <3> QED BY <3>2
  <2> QED BY <1>1, <2>1
<1>7. t \in Seq(Byte) /\ Len(t) = u /\ \A i \in 1 .. u : t[i] = IF i <= n THEN f[i] ELSE r[i - n]
  <2>1. /\ t \in Seq(Byte) /\ Len(t) = Len(f) + Len(r)
        /\ \A i \in 1 .. Len(f) + Len(r) : t[i] = IF i <= Len(f) THEN f[i] ELSE r[i - Len(f)]
    <3> HIDE DEF f, r
    <3> QED BY <1>5, <1>6, ConcatProperties, Zenon
  <2> HIDE DEF f, r, t, u
  <2>2. Len(f) + Len(r) = u
    BY <1>1, <1>5, <1>6
  <2> QED BY <1>6, <2>1, <2>2
<1> HIDE DEF f, r, t, u, t2, c
<1>8. \A i \in 1 .. u : c[i] = t[i]
  <2> TAKE i \in 1 .. u
  <2>1. CASE i <= n
    <3>1. i \in 1 .. n
      BY <1>1, <2>1
    <3> QED BY <1>4, <1>6, <1>7, <2>1, <3>1
  <2>2. CASE ~(i <= n)
    <3>1. i - n \in 1 .. u - n /\ (i - n) + n = i
      BY <1>1, <2>2
    <3>2. r[i - n] = buff[Advance(tail, i - 1, size)]
      BY <1>3, <1>5, <3>1
    <3> QED BY <1>4, <1>7, <2>2, <3>2
  <2> QED BY <2>1, <2>2
<1>9. c = t
  BY <1>4, <1>7, <1>8, SeqEqual
<1>10. f = Front(buff, tail, n, size)
  BY DEF f, Front
<1> QED BY <1>2, <1>6, <1>9, <1>10, Zenon DEF r, t, t2, c
-----------------------------------------------------------------------------
(* The new tail of dpram_read. *)
LEMMA Modulo ==
  ASSUME NEW size \in Nat \ {0}, NEW x \in Nat
  PROVE  /\ x % size \in 0 .. size - 1
         /\ x < size => x % size = x /\ (size + x) % size = x
OBVIOUS

(* What is written is a sequence of bytes. *)
LEMMA MessageSeq ==
  ASSUME NEW s \in Message
  PROVE  s \in Seq(Byte)
BY RingAssumption DEF Message

(* Pieces of the buffer as dpram_read hands them on. *)
LEMMA BytesSeq ==
  ASSUME NEW size \in Nat \ {0}, NEW buff \in [0 .. size - 1 -> Byte], NEW p \in Nat,
         NEW n \in Nat, p + n <= size
  PROVE  /\ Bytes(buff, p, n) \in Seq(Byte) /\ Len(Bytes(buff, p, n)) = n
         /\ \A i \in 1 .. n : Bytes(buff, p, n)[i] = buff[p + i - 1]
<1> DEFINE g == [i \in 1 .. n |-> buff[p + i - 1]]
<1>1. \A i \in 1 .. n : buff[p + i - 1] \in Byte
  <2> TAKE i \in 1 .. n
  <2>1. p + i - 1 \in 0 .. size - 1
    OBVIOUS
  <2> QED BY <2>1
<1>2. g \in Seq(Byte) /\ Len(g) = n /\ \A i \in 1 .. n : g[i] = buff[p + i - 1]
  BY <1>1
<1>3. Bytes(buff, p, n) = g
  BY DEF Bytes
<1> HIDE DEF g
<1> QED BY <1>2, <1>3

(* What dpram_read can do, whatever the flip buffer takes. *)
LEMMA ReadResult ==
  ASSUME TypeOK, dpram_read
  PROVE  /\ io'.bytes \in Seq(Byte) /\ in_tail' \in InPos
         /\ UNCHANGED <<outVars, in_head, in_buff>>
         /\ out_head_saved' = in_head /\ out_tail_saved' = in_tail
<1>0. /\ InSize \in Nat \ {0} /\ in_head \in 0 .. InSize - 1 /\ in_tail \in 0 .. InSize - 1
      /\ in_buff \in [0 .. InSize - 1 -> Byte]
      /\ \A size \in Nat : \A a \in Added(size) :
           a \in Nat /\ a <= size /\ InsertResult(size, a) \in Nat
  BY RingAssumption DEF TypeOK, InPos, Added, InsertResult
<1>1. ASSUME NEW retval \in Nat, ReadUpTo(retval)
      PROVE  /\ in_tail' \in InPos /\ UNCHANGED <<outVars, in_head, in_buff>>
             /\ out_head_saved' = in_head /\ out_tail_saved' = in_tail
  <2>1. in_tail + retval \in Nat
    BY <1>0
  <2> QED BY <1>0, <1>1, <2>1, Modulo DEF ReadUpTo, InPos
<1>2. CASE in_head = in_tail /\ ReadUpTo(0) /\ io' = Io("read", <<>>)
  <2>1. io'.bytes = << >>
    BY <1>2 DEF Io
  <2>2. << >> \in Seq(Byte)
    OBVIOUS
  <2> QED BY <1>1, <1>2, <2>1, <2>2
<1>3. CASE /\ in_head > in_tail
           /\ \E added \in Added(in_head - in_tail) :
                /\ io' = Io("read", Bytes(in_buff, in_tail, added))
                /\ ReadUpTo(InsertResult(in_head - in_tail, added))
  <2>1. in_head - in_tail \in Nat
    BY <1>0, <1>3
  <2>2. PICK added \in Added(in_head - in_tail) :
          /\ io' = Io("read", Bytes(in_buff, in_tail, added))
          /\ ReadUpTo(InsertResult(in_head - in_tail, added))
    BY <1>3
  <2>3. added \in Nat /\ added <= in_head - in_tail /\ InsertResult(in_head - in_tail, added) \in Nat
    BY <1>0, <2>1
  <2>4. in_tail \in Nat /\ in_tail + added <= InSize
    BY <1>0, <2>3
  <2>5. Bytes(in_buff, in_tail, added) \in Seq(Byte)
    BY <1>0, <2>3, <2>4, BytesSeq
  <2>6. io'.bytes = Bytes(in_buff, in_tail, added)
    BY <2>2 DEF Io
  <2> QED BY <1>1, <2>2, <2>3, <2>5, <2>6
<1>4. CASE /\ in_head < in_tail
           /\ \E added \in Added(InSize - in_tail), more \in Added(in_head) :
                /\ io' = Io("read", Bytes(in_buff, in_tail, added) \o Bytes(in_buff, 0, more))
                /\ ReadUpTo(InsertResult(InSize - in_tail, added) + in_head)
  <2>1. InSize - in_tail \in Nat /\ in_head \in Nat /\ in_tail \in Nat
    BY <1>0
  <2>2. PICK added \in Added(InSize - in_tail), more \in Added(in_head) :
          /\ io' = Io("read", Bytes(in_buff, in_tail, added) \o Bytes(in_buff, 0, more))
          /\ ReadUpTo(InsertResult(InSize - in_tail, added) + in_head)
    BY <1>4
  <2>3. /\ added \in Nat /\ added <= InSize - in_tail /\ more \in Nat /\ more <= in_head
        /\ InsertResult(InSize - in_tail, added) + in_head \in Nat
    BY <1>0, <2>1
  <2>4. in_tail + added <= InSize /\ 0 + more <= InSize /\ 0 \in Nat
    BY <1>0, <2>1, <2>3
  <2> DEFINE a == Bytes(in_buff, in_tail, added)
             b == Bytes(in_buff, 0, more)
  <2>5. a \in Seq(Byte) /\ b \in Seq(Byte)
    BY <1>0, <2>1, <2>3, <2>4, BytesSeq
  <2>6. io'.bytes = a \o b
    BY <2>2 DEF Io
  <2> HIDE DEF a, b
  <2>7. a \o b \in Seq(Byte)
    BY <2>5, ConcatProperties, Zenon
  <2>8. io'.bytes \in Seq(Byte)
    BY <2>6, <2>7, Zenon
  <2> QED BY <1>1, <2>2, <2>3, <2>8
<1> QED BY <1>2, <1>3, <1>4 DEF dpram_read

(* Every step of driver and phone keeps the positions within the rings. *)
LEMMA TypeStep == ASSUME TypeOK, [Next]_ringVars PROVE TypeOK'
<1>0. /\ OutSize \in Nat \ {0} /\ InSize \in Nat \ {0}
      /\ out_head \in 0 .. OutSize - 1 /\ out_tail \in 0 .. OutSize - 1
      /\ in_head \in 0 .. InSize - 1 /\ in_tail \in 0 .. InSize - 1
      /\ out_buff \in [0 .. OutSize - 1 -> Byte] /\ in_buff \in [0 .. InSize - 1 -> Byte]
  BY RingAssumption DEF TypeOK, OutPos, InPos
<1>1. ASSUME NEW s \in Message, dpram_write(s) PROVE TypeOK'
  <2>1. s \in Seq(Byte) /\ FreeSize(out_head, out_tail, OutSize) >= Len(s)
    BY <1>1, MessageSeq DEF dpram_write
  <2>2. /\ Advance(out_head, Len(s), OutSize) \in 0 .. OutSize - 1
        /\ Store(out_buff, out_head, s, OutSize) \in [0 .. OutSize - 1 -> Byte]
    BY <1>0, <2>1, StoreBehind
  <2>3. io'.bytes = s
    BY <1>1 DEF dpram_write, Io
  <2> QED BY <1>0, <1>1, <2>1, <2>2, <2>3 DEF TypeOK, dpram_write, OutPos, InPos, inVars
<1>2. ASSUME NEW s \in Message, PhoneWrite(s) PROVE TypeOK'
  <2>1. s \in Seq(Byte) /\ FreeSize(in_head, in_tail, InSize) >= Len(s)
    BY <1>2, MessageSeq DEF PhoneWrite
  <2>2. /\ Advance(in_head, Len(s), InSize) \in 0 .. InSize - 1
        /\ Store(in_buff, in_head, s, InSize) \in [0 .. InSize - 1 -> Byte]
    BY <1>0, <2>1, StoreBehind
  <2>3. io'.bytes = s
    BY <1>2 DEF PhoneWrite, Io
  <2> QED BY <1>0, <1>2, <2>1, <2>2, <2>3 DEF TypeOK, PhoneWrite, OutPos, InPos, outVars, saved
<1>3. ASSUME NEW n \in 1 .. MaxLen, PhoneRead(n) PROVE TypeOK'
  <2>1. n \in 0 .. Used(out_head, out_tail, OutSize)
    <3>1. Used(out_head, out_tail, OutSize) \in 0 .. OutSize - 1
      BY <1>0, Positions
    <3> QED BY <1>3, <3>1 DEF PhoneRead
  <2>2. /\ Advance(out_tail, n, OutSize) \in 0 .. OutSize - 1
        /\ Front(out_buff, out_tail, n, OutSize) \in Seq(Byte)
    BY <1>0, <2>1, TakeFront
  <2>3. io'.bytes = Front(out_buff, out_tail, n, OutSize)
    BY <1>3 DEF PhoneRead, Io, Front
  <2>4. io'.bytes \in Seq(Byte)
    BY <2>2, <2>3, Zenon
  <2> QED BY <1>0, <1>3, <2>2, <2>4 DEF TypeOK, PhoneRead, OutPos, InPos, inVars, saved
<1>4. CASE dpram_read
  BY <1>0, <1>4, ReadResult DEF TypeOK, OutPos, InPos, outVars
<1>5. CASE dpram_drop_data
  <2>1. io'.bytes = << >> /\ << >> \in Seq(Byte)
    BY <1>5 DEF dpram_drop_data, Io
  <2> QED BY <1>0, <1>5, <2>1 DEF dpram_drop_data, TypeOK, OutPos, InPos, outVars, saved
<1>6. CASE dpram_init_and_report
  <2>1. io'.bytes = << >> /\ << >> \in Seq(Byte)
    BY <1>6 DEF dpram_init_and_report, Io
  <2>2. 0 \in OutPos /\ 0 \in InPos /\ 0 \in Byte
    BY <1>0, RingAssumption DEF OutPos, InPos
  <2>3. out_buff' \in [OutPos -> Byte] /\ in_buff' \in [InPos -> Byte]
    BY <1>6, <2>2 DEF dpram_init_and_report
  <2>4. out_head' = 0 /\ out_tail' = 0 /\ in_head' = 0 /\ in_tail' = 0 /\ UNCHANGED saved
    BY <1>6 DEF dpram_init_and_report
  <2>5. (OutPos = OutPos') /\ (InPos = InPos')
    BY DEF OutPos, InPos
  <2> QED BY <2>1, <2>2, <2>3, <2>4, <2>5 DEF TypeOK, saved
<1>7. CASE UNCHANGED ringVars
  BY <1>7 DEF ringVars, outVars, inVars, saved, TypeOK
<1> QED BY <1>1, <1>2, <1>3, <1>4, <1>5, <1>6, <1>7 DEF Next

(* They start within the rings. *)
LEMMA TypeInit == Init => TypeOK
<1> SUFFICES ASSUME Init PROVE TypeOK
  OBVIOUS
<1>1. io.bytes = << >> /\ << >> \in Seq(Byte)
  BY DEF Init, Io
<1> QED BY <1>1, RingAssumption DEF Init, TypeOK, OutPos, InPos

(***************************************************************************)
(* The positions stay within the rings, whatever the lengths written and   *)
(* however much the flip buffer takes.                                     *)
(***************************************************************************)
THEOREM TypeCorrect == Spec => []TypeOK
BY TypeInit, TypeStep, PTL DEF Spec
-----------------------------------------------------------------------------
(***************************************************************************)
(* The refinement of PortQueues, while the flip buffer takes what it is    *)
(* offered.                                                                *)
(***************************************************************************)
Outq == Contents(out_buff, out_head, out_tail, OutSize)
Inq == Contents(in_buff, in_head, in_tail, InSize)

(* With head at tail nothing is unread. *)
LEMMA NothingUnread ==
  ASSUME NEW buff, NEW pos \in Nat, NEW size
  PROVE  Contents(buff, pos, pos, size) = << >>
<1>1. Used(pos, pos, size) = 0
  BY DEF Used
<1>2. Contents(buff, pos, pos, size) = [i \in 1 .. 0 |-> buff[Advance(pos, i - 1, size)]]
  BY <1>1 DEF Contents
<1> QED BY <1>2

(* dpram_read gives all the unread bytes, in one piece or two. *)
LEMMA ReadAll ==
  ASSUME Short = {0}, TypeOK, dpram_read
  PROVE  in_tail' = in_head /\ io'.op = "read" /\ io'.bytes = Inq
<1>0. /\ InSize \in Nat \ {0} /\ in_head \in 0 .. InSize - 1 /\ in_tail \in 0 .. InSize - 1
      /\ in_buff \in [0 .. InSize - 1 -> Byte]
      /\ \A size \in Nat : \A a \in Added(size) : a = size /\ InsertResult(size, a) = size
  BY RingAssumption DEF TypeOK, InPos, Added, InsertResult
<1> DEFINE u == Used(in_head, in_tail, InSize)
<1>1. /\ Inq \in Seq(Byte) /\ Len(Inq) = u
      /\ \A i \in 1 .. u : Inq[i] = in_buff[Advance(in_tail, i - 1, InSize)]
  BY <1>0, ContentsSeq DEF Inq
<1>2. \A x \in Nat : x < InSize => x % InSize = x /\ (InSize + x) % InSize = x
  BY <1>0, Modulo
<1>3. CASE in_head = in_tail /\ ReadUpTo(0) /\ io' = Io("read", <<>>)
  <2>1. Inq = << >>
    BY <1>0, <1>3, NothingUnread DEF Inq
  <2>2. in_tail' = in_head
    BY <1>0, <1>2, <1>3 DEF ReadUpTo
  <2> QED BY <1>3, <2>1, <2>2 DEF Io
<1>4. CASE /\ in_head > in_tail
           /\ \E added \in Added(in_head - in_tail) :
                /\ io' = Io("read", Bytes(in_buff, in_tail, added))
                /\ ReadUpTo(InsertResult(in_head - in_tail, added))
  <2> DEFINE n == in_head - in_tail
             g == Bytes(in_buff, in_tail, n)
  <2>1. n \in Nat /\ in_tail \in Nat /\ in_tail + n <= InSize /\ in_tail + n = in_head /\ u = n
    BY <1>0, <1>4 DEF Used
  <2>2. io' = Io("read", g) /\ ReadUpTo(n)
    BY <1>0, <1>4, <2>1
  <2>3. g \in Seq(Byte) /\ Len(g) = n /\ \A i \in 1 .. n : g[i] = in_buff[in_tail + i - 1]
    <3> HIDE DEF n, u
    <3>1. InSize \in Nat \ {0} /\ in_buff \in [0 .. InSize - 1 -> Byte]
      BY <1>0
    <3>2. n \in Nat /\ in_tail \in Nat /\ in_tail + n <= InSize
      BY <2>1
    <3> QED BY ONLY <3>1, <3>2, BytesSeq
  <2>4. in_tail' = in_head
    <3>1. in_tail' = (in_tail + n) % InSize
      BY <2>2 DEF ReadUpTo
    <3> HIDE DEF n
    <3> QED BY <1>0, <1>2, <2>1, <3>1
  <2>5. \A i \in 1 .. n : Advance(in_tail, i - 1, InSize) = in_tail + i - 1
    BY <1>0, <2>1 DEF Advance
  <2>6. io'.op = "read" /\ io'.bytes = g
    BY <2>2 DEF Io
  <2> HIDE DEF g, u, n
  <2>7. \A i \in 1 .. n : Inq[i] = g[i]
    BY <1>1, <2>1, <2>3, <2>5
  <2>8. Inq = g
    BY <1>1, <2>1, <2>3, <2>7, SeqEqual
  <2> QED BY <2>4, <2>6, <2>8
<1>5. CASE /\ in_head < in_tail
           /\ \E added \in Added(InSize - in_tail), more \in Added(in_head) :
                /\ io' = Io("read", Bytes(in_buff, in_tail, added) \o Bytes(in_buff, 0, more))
                /\ ReadUpTo(InsertResult(InSize - in_tail, added) + in_head)
  <2> DEFINE n == InSize - in_tail
             a == Bytes(in_buff, in_tail, n)
             b == Bytes(in_buff, 0, in_head)
             t == a \o b
  <2>1. /\ n \in Nat /\ in_head \in Nat /\ in_tail \in Nat /\ u = n + in_head
        /\ in_tail + n <= InSize /\ 0 + in_head <= InSize /\ 0 \in Nat
        /\ in_tail + (n + in_head) = InSize + in_head /\ in_head < InSize
    BY <1>0, <1>5 DEF Used
  <2>2. io' = Io("read", t) /\ ReadUpTo(n + in_head)
    BY <1>0, <1>5, <2>1
  <2>3. /\ a \in Seq(Byte) /\ Len(a) = n /\ \A i \in 1 .. n : a[i] = in_buff[in_tail + i - 1]
        /\ b \in Seq(Byte) /\ Len(b) = in_head /\ \A i \in 1 .. in_head : b[i] = in_buff[0 + i - 1]
    <3> HIDE DEF n, t, u
    <3>0. InSize \in Nat \ {0} /\ in_buff \in [0 .. InSize - 1 -> Byte]
      BY <1>0
    <3>1. a \in Seq(Byte) /\ Len(a) = n /\ \A i \in 1 .. n : a[i] = in_buff[in_tail + i - 1]
      <4>1. n \in Nat /\ in_tail \in Nat /\ in_tail + n <= InSize
        BY <2>1
      <4> QED BY ONLY <3>0, <4>1, BytesSeq
    <3>2. b \in Seq(Byte) /\ Len(b) = in_head /\ \A i \in 1 .. in_head : b[i] = in_buff[0 + i - 1]
      <4>1. 0 \in Nat /\ in_head \in Nat /\ 0 + in_head <= InSize
        BY <2>1
      <4> QED BY ONLY <3>0, <4>1, BytesSeq
    <3> QED BY <3>1, <3>2
  <2>4. in_tail' = in_head
    <3>1. in_tail' = (in_tail + (n + in_head)) % InSize
      BY <2>2 DEF ReadUpTo
    <3> HIDE DEF n
    <3> QED BY <1>2, <2>1, <3>1
  <2>5. /\ \A i \in 1 .. n : Advance(in_tail, i - 1, InSize) = in_tail + i - 1
        /\ \A i \in n + 1 .. n + in_head : Advance(in_tail, i - 1, InSize) = 0 + (i - n) - 1
    BY <1>0, <2>1 DEF Advance
  <2>6. io'.op = "read" /\ io'.bytes = t
    BY <2>2 DEF Io
  <2> HIDE DEF a, b, u, n
  <2>7. /\ t \in Seq(Byte) /\ Len(t) = n + in_head
        /\ \A i \in 1 .. n + in_head : t[i] = IF i <= n THEN a[i] ELSE b[i - n]
    <3>1. /\ t \in Seq(Byte) /\ Len(t) = Len(a) + Len(b)
          /\ \A i \in 1 .. Len(a) + Len(b) : t[i] = IF i <= Len(a) THEN a[i] ELSE b[i - Len(a)]
      BY <2>3, ConcatProperties, Zenon
    <3> HIDE DEF t
    <3> QED BY <2>3, <3>1
  <2> HIDE DEF t
  <2>8. \A i \in 1 .. n + in_head : Inq[i] = t[i]
    <3> TAKE i \in 1 .. n + in_head
    <3>1. CASE i <= n
      <4>1. i \in 1 .. n
        BY <2>1, <3>1
      <4> QED BY <1>1, <2>1, <2>3, <2>5, <2>7, <3>1, <4>1
    <3>2. CASE ~(i <= n)
      <4>1. i \in n + 1 .. n + in_head /\ i - n \in 1 .. in_head
        BY <2>1, <3>2
      <4>2. t[i] = in_buff[0 + (i - n) - 1]
        BY <2>3, <2>7, <3>2, <4>1
      <4>3. Inq[i] = in_buff[Advance(in_tail, i - 1, InSize)]
        BY <1>1, <2>1
      <4> QED BY <2>5, <4>1, <4>2, <4>3
    <3> QED BY <3>1, <3>2
  <2>9. Inq = t
    BY <1>1, <2>1, <2>7, <2>8, SeqEqual
  <2> QED BY <2>4, <2>6, <2>9
<1> QED BY <1>3, <1>4, <1>5 DEF dpram_read

(* Empty rings are empty queues. *)
LEMMA QueuesInit == ASSUME Init PROVE Queues!Init
<1>1. Outq = << >> /\ Inq = << >>
  BY NothingUnread DEF Init, Outq, Inq
<1>2. io.bytes = << >>
  BY DEF Init, Io
<1> QED BY <1>1, <1>2 DEF Queues!Init, Outq, Inq

(* A step on the rings is a step on the queues, or none. *)
LEMMA QueuesStep ==
  ASSUME Short = {0}, TypeOK, [Next]_ringVars
  PROVE  [Queues!Next]_(Queues!qvars)
<1>0. /\ OutSize \in Nat \ {0} /\ InSize \in Nat \ {0}
      /\ out_head \in 0 .. OutSize - 1 /\ out_tail \in 0 .. OutSize - 1
      /\ in_head \in 0 .. InSize - 1 /\ in_tail \in 0 .. InSize - 1
      /\ out_buff \in [0 .. OutSize - 1 -> Byte] /\ in_buff \in [0 .. InSize - 1 -> Byte]
  BY RingAssumption DEF TypeOK, OutPos, InPos
<1>1. ASSUME NEW s \in Message, dpram_write(s) PROVE Queues!DriverWrite
  <2>1. s \in Seq(Byte) /\ FreeSize(out_head, out_tail, OutSize) >= Len(s)
    BY <1>1, MessageSeq DEF dpram_write
  <2>2. /\ Contents(Store(out_buff, out_head, s, OutSize),
                    Advance(out_head, Len(s), OutSize), out_tail, OutSize) = Outq \o s
        /\ Len(Outq \o s) <= OutSize - 1
    <3>1. Outq = Contents(out_buff, out_head, out_tail, OutSize)
      BY DEF Outq
    <3>2. /\ Contents(Store(out_buff, out_head, s, OutSize),
                      Advance(out_head, Len(s), OutSize), out_tail, OutSize)
               = Contents(out_buff, out_head, out_tail, OutSize) \o s
          /\ Len(Contents(out_buff, out_head, out_tail, OutSize) \o s) <= OutSize - 1
      BY ONLY <1>0, <2>1, StoreBehind
    <3> QED BY <3>1, <3>2, Zenon
  <2>3. Outq' = Contents(Store(out_buff, out_head, s, OutSize),
                         Advance(out_head, Len(s), OutSize), out_tail, OutSize)
    BY <1>1 DEF dpram_write, Outq
  <2>4. io'.op = "write" /\ io'.bytes = s
    BY <1>1 DEF dpram_write, Io
  <2>5. Inq' = Inq
    BY <1>1 DEF dpram_write, inVars, Inq
  <2>6. Outq' = Outq \o io'.bytes /\ Len(Outq') <= OutSize - 1
    BY <2>2, <2>3, <2>4, Zenon
  <2> QED BY <2>4, <2>5, <2>6, Zenon DEF Queues!DriverWrite, Queues!Put, Outq, Inq
<1>2. ASSUME NEW s \in Message, PhoneWrite(s) PROVE Queues!PhoneWrite
  <2>1. s \in Seq(Byte) /\ FreeSize(in_head, in_tail, InSize) >= Len(s)
    BY <1>2, MessageSeq DEF PhoneWrite
  <2>2. /\ Contents(Store(in_buff, in_head, s, InSize),
                    Advance(in_head, Len(s), InSize), in_tail, InSize) = Inq \o s
        /\ Len(Inq \o s) <= InSize - 1
    <3>1. Inq = Contents(in_buff, in_head, in_tail, InSize)
      BY DEF Inq
    <3>2. /\ Contents(Store(in_buff, in_head, s, InSize),
                      Advance(in_head, Len(s), InSize), in_tail, InSize)
               = Contents(in_buff, in_head, in_tail, InSize) \o s
          /\ Len(Contents(in_buff, in_head, in_tail, InSize) \o s) <= InSize - 1
      BY ONLY <1>0, <2>1, StoreBehind
    <3> QED BY <3>1, <3>2, Zenon
  <2>3. Inq' = Contents(Store(in_buff, in_head, s, InSize),
                        Advance(in_head, Len(s), InSize), in_tail, InSize)
    BY <1>2 DEF PhoneWrite, Inq
  <2>4. io'.op = "phone_write" /\ io'.bytes = s
    BY <1>2 DEF PhoneWrite, Io
  <2>5. Outq' = Outq
    BY <1>2 DEF PhoneWrite, outVars, Outq
  <2>6. Inq' = Inq \o io'.bytes /\ Len(Inq') <= InSize - 1
    BY <2>2, <2>3, <2>4, Zenon
  <2> QED BY <2>4, <2>5, <2>6, Zenon DEF Queues!PhoneWrite, Queues!Put, Outq, Inq
<1>3. ASSUME NEW n \in 1 .. MaxLen, PhoneRead(n) PROVE Queues!PhoneRead
  <2> DEFINE f == Front(out_buff, out_tail, n, OutSize)
  <2>1. n \in 0 .. Used(out_head, out_tail, OutSize)
    <3>1. Used(out_head, out_tail, OutSize) \in 0 .. OutSize - 1
      BY <1>0, Positions
    <3> QED BY <1>3, <3>1 DEF PhoneRead
  <2>2. Outq = f \o Contents(out_buff, out_head, Advance(out_tail, n, OutSize), OutSize)
    BY <1>0, <2>1, TakeFront DEF Outq
  <2>3. io'.op = "phone_read" /\ io'.bytes = f
    BY <1>3 DEF PhoneRead, Io, Front
  <2>4. /\ Outq' = Contents(out_buff, out_head, Advance(out_tail, n, OutSize), OutSize)
        /\ Inq' = Inq
    BY <1>3 DEF PhoneRead, inVars, Outq, Inq
  <2> HIDE DEF f
  <2>5. Outq = io'.bytes \o Outq'
    BY <2>2, <2>3, <2>4, Zenon
  <2> QED BY <2>3, <2>4, <2>5, Zenon DEF Queues!PhoneRead, Queues!Got, Outq, Inq
<1>4. ASSUME dpram_read PROVE Queues!DriverRead
  <2>1. in_tail' = in_head /\ io'.op = "read" /\ io'.bytes = Inq
    BY <1>4, ReadAll
  <2>2. UNCHANGED <<outVars, in_head, in_buff>>
    BY <1>4, ReadResult
  <2>3. Inq' = << >>
    <3>1. Inq' = Contents(in_buff, in_head, in_head, InSize)
      BY <2>1, <2>2 DEF Inq
    <3> QED BY <1>0, <3>1, NothingUnread
  <2>4. Outq' = Outq
    BY <2>2 DEF outVars, Outq
  <2>5. Inq \in Seq(Byte)
    BY <1>0, ContentsSeq DEF Inq
  <2>6. Inq = Inq \o << >>
    BY <2>5, ConcatEmptySeq, Zenon
  <2>7. Inq = io'.bytes \o Inq'
    BY <2>1, <2>3, <2>6, Zenon
  <2> QED BY <2>1, <2>4, <2>7, Zenon DEF Queues!DriverRead, Queues!Got, Outq, Inq
<1>5. ASSUME dpram_drop_data PROVE Queues!DriverDrop
  <2>1. Inq' = Contents(in_buff, in_head, in_head, InSize) /\ Outq' = Outq
    BY <1>5 DEF dpram_drop_data, outVars, Inq, Outq
  <2>2. Inq' = << >>
    BY <1>0, <2>1, NothingUnread
  <2>3. io'.op = "drop"
    BY <1>5 DEF dpram_drop_data, Io
  <2> QED BY <2>1, <2>2, <2>3, Zenon DEF Queues!DriverDrop, Outq, Inq
<1>6. ASSUME dpram_init_and_report PROVE Queues!Reset
  <2>1. Outq' = Contents(out_buff', 0, 0, OutSize) /\ Inq' = Contents(in_buff', 0, 0, InSize)
    BY <1>6 DEF dpram_init_and_report, Outq, Inq
  <2>2. Outq' = << >> /\ Inq' = << >>
    BY <2>1, NothingUnread
  <2>3. io'.op = "reset"
    BY <1>6 DEF dpram_init_and_report, Io
  <2> QED BY <2>2, <2>3, Zenon DEF Queues!Reset, Outq, Inq
<1>7. CASE UNCHANGED ringVars
  <2>1. Outq' = Outq /\ Inq' = Inq /\ io' = io
    BY <1>7 DEF ringVars, outVars, inVars, Outq, Inq
  <2> QED BY <2>1 DEF Queues!qvars, Outq, Inq
<1> QED BY <1>1, <1>2, <1>3, <1>4, <1>5, <1>6, <1>7, Zenon DEF Next, Queues!Next

(***************************************************************************)
(* The rings of a port implement its two queues, for all sizes and lengths *)
(* of writes, while the flip buffer has room for what dpram_read offers    *)
(* (ReadKeepsRest fails when it has not).                                  *)
(***************************************************************************)
THEOREM RingsAlwaysQueues ==
  ASSUME Short = {0}
  PROVE  Spec => RingsAreQueues
<1>1. Init => Queues!Init
  BY QueuesInit
<1>2. TypeOK /\ [Next]_ringVars => [Queues!Next]_(Queues!qvars)
  BY QueuesStep
<1> QED BY <1>1, <1>2, TypeCorrect, PTL DEF Spec, RingsAreQueues, Queues!Spec
=============================================================================
