--------------------------- MODULE MultiPdpProofs ---------------------------
(***************************************************************************)
(* Proofs about the multiplexed packet data, for every set of interfaces,  *)
(* serial lines and channel numbers, every table size and every length of  *)
(* a frame.                                                                *)
(*                                                                         *)
(* That nothing in use is freed needs to know what stands between the use  *)
(* and the free: the interface is not down while its work is under way     *)
(* (TxInv), and the table does not change while the reader, which has the  *)
(* lock, is at a frame of a listed device (RxInv).  That the reader stays  *)
(* in step needs the shape of everything that has been received, stated    *)
(* cell by cell (Framed) and seen from where the reader is (InStep), which *)
(* holds until the reader slips.                                           *)
(***************************************************************************)
EXTENDS MultiPdp, TLAPS, SequenceTheorems

TypeOK ==
  /\ g_adjust \in Nat
  /\ state \in [Net -> {"free", "made", "listed", "unlisted", "deleting"}]
  /\ id \in [Net -> Nat]
  /\ link \in [Net -> {"down", "up", "closing"}]
  /\ stopped \subseteq Net
  /\ flag \in BOOLEAN /\ data \in Net \cup {Nobody}
  /\ work \in [Net -> {"none", "pending", "running", "writing"}]
  /\ inflight \in Nat
  /\ lock \in {Nobody, "vnet_defer_xmit", "vs_write", "pdp_demux"}
  /\ rx \in Seq(Cell)
  /\ reader \in {"poll", "lock", "hdr", "vnet_recv", "vs_read", "flush", "stop"}
  /\ frame \in [len : Nat, dev : Net \cup {Nobody}]
  /\ slipped \in BOOLEAN

(* The packet under way and the interface it came from. *)
TxInv ==
  /\ TxOwned
  /\ \A n \in Net : work[n] # "none" => link[n] # "down"
  /\ \A n \in Net : link[n] # "down" => state[n] # "free"
  /\ \A n \in Net : work[n] = "writing" => lock = "vnet_defer_xmit"

AtFrame == {"hdr", "vnet_recv", "vs_read", "flush", "stop"}

(* The reader has the lock from the header to the end of a frame. *)
RxInv ==
  /\ reader \in AtFrame => lock = "pdp_demux"
  /\ reader = "vnet_recv" => frame.dev \in Net
  /\ frame.dev \in Net => frame.dev \in Listed /\ reader \in AtFrame

AliveInv == TypeOK /\ TxInv /\ RxInv

(* What has been received is made of frames: each cell is followed by the  *)
(* one that belongs there.                                                 *)
DataThenStop(s, p, len) ==
  /\ p + len <= Len(s)
  /\ \A k \in p..(p + len - 1) : s[k].kind = "data"
  /\ s[p + len].kind = "stop"

Framed(s) ==
  \A p \in 1..Len(s) :
    /\ s[p].kind = "start" => p < Len(s) /\ s[p + 1].kind = "hdr"
    /\ s[p].kind = "hdr" => DataThenStop(s, p + 1, s[p].len)
    /\ s[p].kind = "stop" /\ p < Len(s) => s[p + 1].kind = "start"

(* What the reader is about to read, and that this is kept up to a slip. *)
InStep ==
  /\ reader = "poll" => rx = << >> \/ rx[1].kind = "start"
  /\ reader \in {"lock", "hdr"} => rx # << >> /\ rx[1].kind = "hdr"
  /\ reader \in {"vnet_recv", "vs_read", "flush"} => DataThenStop(rx, 1, frame.len)
  /\ reader = "stop" => rx # << >> /\ rx[1].kind = "stop"

SyncInv == Framed(rx) /\ (~slipped => InStep)
-----------------------------------------------------------------------------
(***************************************************************************)
(* The sequences: a frame cell by cell, and what dpram_read leaves.        *)
(***************************************************************************)
LEMMA FrameShape ==
  ASSUME NEW i \in Ids, NEW len \in Length
  PROVE  /\ FrameOf(i, len) \in Seq(Cell) /\ Len(FrameOf(i, len)) = len + 3
         /\ FrameOf(i, len)[1].kind = "start"
         /\ FrameOf(i, len)[2].kind = "hdr" /\ FrameOf(i, len)[2].len = len
         /\ \A k \in 3..(len + 2) : FrameOf(i, len)[k].kind = "data"
         /\ FrameOf(i, len)[len + 3].kind = "stop"
<1> DEFINE h == <<[kind |-> "start"], [kind |-> "hdr", id |-> i, len |-> len]>>
           d == [k \in 1..len |-> [kind |-> "data"]]
           e == <<[kind |-> "stop"]>>
           g == h \o d
<1>1. len \in Nat
  BY PdpAssumption
<1>2. /\ h \in Seq(Cell) /\ Len(h) = 2 /\ h[1].kind = "start"
      /\ h[2].kind = "hdr" /\ h[2].len = len
  BY DEF Cell
<1>3. d \in Seq(Cell) /\ Len(d) = len /\ \A k \in 1..len : d[k].kind = "data"
  <2>1. d \in [1..len -> Cell]
    BY DEF Cell
  <2> QED BY <1>1, <2>1
<1>4. e \in Seq(Cell) /\ Len(e) = 1 /\ e[1].kind = "stop"
  BY DEF Cell
<1> HIDE DEF h, d, e
<1>5. /\ g \in Seq(Cell) /\ Len(g) = len + 2
      /\ \A k \in 1..(len + 2) : g[k] = IF k <= 2 THEN h[k] ELSE d[k - 2]
  <2>1. /\ g \in Seq(Cell) /\ Len(g) = Len(h) + Len(d)
        /\ \A k \in 1..(Len(h) + Len(d)) :
             g[k] = IF k <= Len(h) THEN h[k] ELSE d[k - Len(h)]
    BY <1>2, <1>3, ConcatProperties, Zenon
  <2>2. Len(h) + Len(d) = len + 2
    BY <1>1, <1>2, <1>3
  <2> HIDE DEF g
  <2> QED BY <1>1, <1>2, <1>3, <2>1, <2>2
<1> HIDE DEF g
<1> DEFINE f == g \o e
<1>6. /\ f \in Seq(Cell) /\ Len(f) = len + 3
      /\ \A k \in 1..(len + 3) : f[k] = IF k <= len + 2 THEN g[k] ELSE e[k - (len + 2)]
  <2>1. /\ f \in Seq(Cell) /\ Len(f) = Len(g) + Len(e)
        /\ \A k \in 1..(Len(g) + Len(e)) :
             f[k] = IF k <= Len(g) THEN g[k] ELSE e[k - Len(g)]
    BY <1>4, <1>5, ConcatProperties, Zenon
  <2>2. Len(g) + Len(e) = len + 3
    BY <1>1, <1>4, <1>5
  <2> HIDE DEF f
  <2> QED BY <1>1, <1>4, <1>5, <2>1, <2>2
<1>7. FrameOf(i, len) = f
  BY DEF FrameOf, h, d, e, f, g
<1> HIDE DEF f
<1>8. f[1].kind = "start" /\ f[2].kind = "hdr" /\ f[2].len = len
  <2>1. f[1] = h[1] /\ f[2] = h[2]
    BY <1>1, <1>5, <1>6
  <2> QED BY <1>2, <2>1
<1>9. \A k \in 3..(len + 2) : f[k].kind = "data"
  BY <1>1, <1>3, <1>5, <1>6
<1>10. f[len + 3].kind = "stop"
  BY <1>1, <1>4, <1>6
<1> QED BY <1>6, <1>7, <1>8, <1>9, <1>10

(* What is left behind a read of k cells. *)
LEMMA DropShape ==
  ASSUME NEW s \in Seq(Cell), NEW k \in 0..Len(s)
  PROVE  /\ SubSeq(s, k + 1, Len(s)) \in Seq(Cell)
         /\ Len(SubSeq(s, k + 1, Len(s))) = Len(s) - k
         /\ \A j \in 1..(Len(s) - k) : SubSeq(s, k + 1, Len(s))[j] = s[k + j]
<1>1. Len(s) \in Nat /\ k \in Nat /\ k <= Len(s)
  OBVIOUS
<1>2. \A j \in (k + 1)..Len(s) : s[j] \in Cell
  BY <1>1
<1> QED BY <1>1, <1>2, SubSeqProperties

(* A cell that says "hdr" has a length. *)
LEMMA HeaderCell ==
  ASSUME NEW c \in Cell, c.kind = "hdr"
  PROVE  c.id \in Ids /\ c.len \in Length /\ c.len \in Nat
BY PdpAssumption DEF Cell

(* What remains of frames after a prefix has been read is framed ... *)
LEMMA DropFramed ==
  ASSUME NEW s \in Seq(Cell), Framed(s), NEW k \in 0..Len(s)
  PROVE  Framed(SubSeq(s, k + 1, Len(s)))
<1> DEFINE t == SubSeq(s, k + 1, Len(s))
<1>1. /\ t \in Seq(Cell) /\ Len(t) = Len(s) - k
      /\ \A j \in 1..Len(t) : t[j] = s[k + j]
  BY DropShape
<1>2. Len(s) \in Nat /\ k \in Nat /\ k <= Len(s)
  OBVIOUS
<1> HIDE DEF t
<1> SUFFICES ASSUME NEW p \in 1..Len(t)
             PROVE  /\ t[p].kind = "start" => p < Len(t) /\ t[p + 1].kind = "hdr"
                    /\ t[p].kind = "hdr" => DataThenStop(t, p + 1, t[p].len)
                    /\ t[p].kind = "stop" /\ p < Len(t) => t[p + 1].kind = "start"
  BY DEF Framed, t
<1>3. p \in Nat /\ k + p \in 1..Len(s) /\ t[p] = s[k + p] /\ t[p] \in Cell
  BY <1>1, <1>2
<1>4. p < Len(t) => t[p + 1] = s[(k + p) + 1] /\ k + p < Len(s)
  BY <1>1, <1>2, <1>3
<1>5. ASSUME t[p].kind = "hdr" PROVE DataThenStop(t, p + 1, t[p].len)
  <2>1. t[p].len \in Nat
    BY <1>3, <1>5, HeaderCell
  <2>2. DataThenStop(s, (k + p) + 1, t[p].len)
    BY <1>3, <1>5 DEF Framed
  <2> DEFINE len == t[p].len
  <2>3. len \in Nat /\ (p + 1) + len <= Len(t)
    BY <1>1, <1>2, <1>3, <2>1, <2>2 DEF DataThenStop
  <2> HIDE DEF len
  <2>4. \A j \in (p + 1)..((p + 1) + len) : t[j] = s[k + j]
    BY <1>1, <1>2, <1>3, <2>3
  <2>5. /\ \A j \in ((k + p) + 1)..((k + p) + 1 + len - 1) : s[j].kind = "data"
        /\ s[(k + p) + 1 + len].kind = "stop"
    BY <2>2 DEF DataThenStop, len
  <2>6. \A j \in (p + 1)..((p + 1) + len - 1) :
          k + j \in ((k + p) + 1)..((k + p) + 1 + len - 1) /\ j \in (p + 1)..((p + 1) + len)
    BY <1>2, <1>3, <2>3
  <2>7. k + ((p + 1) + len) = (k + p) + 1 + len /\ (p + 1) + len \in (p + 1)..((p + 1) + len)
    BY <1>2, <1>3, <2>3
  <2> QED BY <2>3, <2>4, <2>5, <2>6, <2>7 DEF DataThenStop, len
<1>6. ASSUME t[p].kind = "start" PROVE p < Len(t) /\ t[p + 1].kind = "hdr"
  <2>1. k + p < Len(s) /\ s[(k + p) + 1].kind = "hdr"
    BY <1>3, <1>6 DEF Framed
  <2> QED BY <1>1, <1>2, <1>3, <1>4, <2>1
<1>7. ASSUME t[p].kind = "stop", p < Len(t) PROVE t[p + 1].kind = "start"
  BY <1>3, <1>4, <1>7 DEF Framed
<1> QED BY <1>5, <1>6, <1>7

(* ... and so is what has been received with one more frame. *)
LEMMA SendFramed ==
  ASSUME NEW s \in Seq(Cell), Framed(s), NEW i \in Ids, NEW len \in Length
  PROVE  Framed(s \o FrameOf(i, len))
<1> DEFINE f == FrameOf(i, len)
           t == s \o f
<1>1. Len(s) \in Nat /\ len \in Nat
  BY PdpAssumption
<1>2. /\ f \in Seq(Cell) /\ Len(f) = len + 3
      /\ f[1].kind = "start" /\ f[2].kind = "hdr" /\ f[2].len = len
      /\ \A k \in 3..(len + 2) : f[k].kind = "data"
      /\ f[len + 3].kind = "stop"
  BY FrameShape
<1> HIDE DEF f
<1>3. /\ t \in Seq(Cell) /\ Len(t) = Len(s) + len + 3
      /\ \A j \in 1..(Len(s) + len + 3) : t[j] = IF j <= Len(s) THEN s[j] ELSE f[j - Len(s)]
  <2>1. /\ t \in Seq(Cell) /\ Len(t) = Len(s) + Len(f)
        /\ \A j \in 1..(Len(s) + Len(f)) : t[j] = IF j <= Len(s) THEN s[j] ELSE f[j - Len(s)]
    BY <1>2, ConcatProperties, Zenon
  <2>2. Len(s) + Len(f) = Len(s) + len + 3
    BY <1>1, <1>2
  <2> HIDE DEF t
  <2> QED BY <2>1, <2>2
<1> HIDE DEF t
<1>4. \A j \in 1..Len(s) : t[j] = s[j]
  BY <1>1, <1>3
<1>5. \A j \in 1..(len + 3) : t[Len(s) + j] = f[j]
  BY <1>1, <1>3
<1> SUFFICES ASSUME NEW p \in 1..Len(t)
             PROVE  /\ t[p].kind = "start" => p < Len(t) /\ t[p + 1].kind = "hdr"
                    /\ t[p].kind = "hdr" => DataThenStop(t, p + 1, t[p].len)
                    /\ t[p].kind = "stop" /\ p < Len(t) => t[p + 1].kind = "start"
  BY DEF Framed, f, t
<1>6. CASE p <= Len(s)
  <2>1. p \in 1..Len(s) /\ t[p] = s[p] /\ s[p] \in Cell
    BY <1>1, <1>3, <1>4, <1>6
  <2>2. ASSUME t[p].kind = "start" PROVE p < Len(t) /\ t[p + 1].kind = "hdr"
    <3>1. p < Len(s) /\ s[p + 1].kind = "hdr"
      BY <2>1, <2>2 DEF Framed
    <3>2. p + 1 \in 1..Len(s) /\ p < Len(t)
      BY <1>1, <1>3, <2>1, <3>1
    <3> QED BY <1>4, <3>1, <3>2
  <2>3. ASSUME t[p].kind = "hdr" PROVE DataThenStop(t, p + 1, t[p].len)
    <3>1. t[p].len \in Nat /\ DataThenStop(s, p + 1, t[p].len)
      BY <2>1, <2>3, HeaderCell DEF Framed
    <3> DEFINE m == t[p].len
    <3>2. m \in Nat /\ (p + 1) + m \in 1..Len(s) /\ (p + 1) + m <= Len(t)
      BY <1>1, <1>3, <2>1, <3>1 DEF DataThenStop
    <3>3. \A k \in (p + 1)..((p + 1) + m - 1) : s[k].kind = "data" /\ k \in 1..Len(s)
      BY <1>1, <2>1, <3>1, <3>2 DEF DataThenStop
    <3>4. s[(p + 1) + m].kind = "stop"
      BY <3>1 DEF DataThenStop
    <3> QED BY <1>4, <3>2, <3>3, <3>4 DEF DataThenStop
  <2>4. ASSUME t[p].kind = "stop" PROVE t[p + 1].kind = "start"
    <3>1. CASE p < Len(s)
      BY <1>1, <1>4, <2>1, <2>4, <3>1 DEF Framed
    <3>2. CASE p = Len(s)
      <4>1. 1 \in 1..(len + 3) /\ p + 1 = Len(s) + 1
        BY <1>1, <3>2
      <4>2. t[p + 1] = f[1]
        BY <1>5, <4>1
      <4> QED BY <1>2, <4>2
    <3> QED BY <1>1, <1>6, <2>1, <3>1, <3>2
  <2> QED BY <2>2, <2>3, <2>4
<1>7. CASE p > Len(s)
  <2> DEFINE q == p - Len(s)
  <2>1. q \in 1..(len + 3) /\ p = Len(s) + q /\ t[p] = f[q]
    BY <1>1, <1>3, <1>5, <1>7
  <2>2. q < len + 3 => t[p + 1] = f[q + 1] /\ p < Len(t)
    BY <1>1, <1>3, <1>5, <2>1
  <2>3. CASE q = 1
    BY <1>1, <1>2, <2>1, <2>2, <2>3
  <2>4. CASE q = 2
    <3>1. DataThenStop(t, p + 1, len)
      <4>1. \A k \in (p + 1)..((p + 1) + len - 1) : k - Len(s) \in 3..(len + 2) /\ k = Len(s) + (k - Len(s))
        BY <1>1, <2>1, <2>4
      <4>2. \A k \in (p + 1)..((p + 1) + len - 1) : t[k].kind = "data"
        <5> TAKE k \in (p + 1)..((p + 1) + len - 1)
        <5> DEFINE j == k - Len(s)
        <5>1. j \in 3..(len + 2) /\ k = Len(s) + j
          BY <4>1
        <5> HIDE DEF j
        <5>2. j \in 1..(len + 3)
          BY <1>1, <5>1
        <5> QED BY <1>2, <1>5, <5>1, <5>2
      <4>3. (p + 1) + len = Len(s) + (len + 3) /\ (p + 1) + len <= Len(t)
        BY <1>1, <1>3, <2>1, <2>4
      <4>4. t[(p + 1) + len].kind = "stop"
        BY <1>1, <1>2, <1>5, <4>3
      <4> QED BY <4>2, <4>3, <4>4 DEF DataThenStop
    <3> QED BY <1>2, <2>1, <2>4, <3>1
  <2>5. CASE q \in 3..(len + 2)
    BY <1>2, <2>1, <2>5
  <2>6. CASE q = len + 3
    BY <1>1, <1>2, <1>3, <2>1, <2>6
  <2> QED BY <1>1, <2>1, <2>3, <2>4, <2>5, <2>6
<1> QED BY <1>1, <1>3, <1>6, <1>7
-----------------------------------------------------------------------------
(***************************************************************************)
(* The type invariant.                                                     *)
(***************************************************************************)
LEMMA ControlTyped == ASSUME TypeOK, Control PROVE TypeOK'
<1> USE DEF TypeOK, net, tx, rxVars
<1>1. ASSUME NEW a \in Adjust, pdp_adjust(a) PROVE TypeOK'
  BY <1>1, PdpAssumption DEF pdp_adjust
<1>2. ASSUME NEW n \in Net, NEW arg \in Arg, pdp_activate(n, arg) PROVE TypeOK'
  <2>1. arg + g_adjust \in Nat
    BY PdpAssumption
  <2> QED BY <1>2, <2>1 DEF pdp_activate
<1>3. ASSUME NEW n \in Net, NEW arg \in Arg, pdp_deactivate(n, arg) PROVE TypeOK'
  BY <1>3 DEF pdp_deactivate
<1>4. ASSUME NEW n \in Net, pdp_add_dev(n) PROVE TypeOK'
  BY <1>4 DEF pdp_add_dev
<1>5. ASSUME NEW n \in Net, vnet_del_dev(n) \/ dev_close(n) PROVE TypeOK'
  BY <1>5 DEF vnet_del_dev, dev_close, Close
<1>6. ASSUME NEW n \in Net, vnet_del_dev_free(n) PROVE TypeOK'
  BY <1>6 DEF vnet_del_dev_free
<1>7. ASSUME NEW n \in Net, vnet_open(n) \/ vnet_stop(n) PROVE TypeOK'
  BY <1>7 DEF vnet_open, vnet_stop
<1> QED BY <1>1, <1>2, <1>3, <1>4, <1>5, <1>6, <1>7 DEF Control

(* The transmit path keeps the types. *)
LEMMA TransmitTyped == ASSUME TypeOK, TxInv, Transmit PROVE TypeOK'
<1> USE DEF TypeOK, net, rxVars
<1>1. ASSUME NEW n \in Net, vnet_start_xmit(n) PROVE TypeOK'
  BY <1>1 DEF vnet_start_xmit, Accept
<1>2. ASSUME NEW n \in Net, vnet_tx_timeout(n) \/ run_workqueue(n) \/ vnet_defer_xmit(n)
      PROVE TypeOK'
  BY <1>2 DEF vnet_tx_timeout, run_workqueue, vnet_defer_xmit
<1>3. ASSUME NEW n \in Net, vnet_defer_xmit_end(n) PROVE TypeOK'
  <2>1. inflight = 1
    BY <1>3 DEF vnet_defer_xmit_end, TxInv, TxOwned
  <2>2. inflight' \in Nat
    BY <1>3, <2>1 DEF vnet_defer_xmit_end
  <2> QED BY <1>3, <2>2 DEF vnet_defer_xmit_end
<1>4. ASSUME vs_write \/ vs_write_end PROVE TypeOK'
  BY <1>4 DEF vs_write, vs_write_end, tx
<1> QED BY <1>1, <1>2, <1>3, <1>4 DEF Transmit

(* The receive path keeps the types. *)
LEMMA ReceiveTyped == ASSUME TypeOK, Receive PROVE TypeOK'
<1> USE DEF TypeOK
<1>1. ASSUME NEW k \in Nat, dpram_read(k) PROVE rx' \in Seq(Cell)
  <2>1. k \in 0..Len(rx)
    BY <1>1 DEF dpram_read
  <2> QED BY <1>1, <2>1, DropShape DEF dpram_read
<1>2. ASSUME NEW i \in Ids, NEW len \in Length, ModemSend(i, len) PROVE TypeOK'
  <2>1. rx' \in Seq(Cell)
    BY <1>2, FrameShape, ConcatProperties DEF ModemSend
  <2> QED BY <1>2, <2>1 DEF ModemSend, net, tx
<1>3. ASSUME dpram_thread PROVE TypeOK'
  BY <1>1, <1>3 DEF dpram_thread, dpram_read, net, tx
<1>4. ASSUME pdp_demux PROVE TypeOK'
  BY <1>4 DEF pdp_demux, net, tx
<1>5. ASSUME demux_header PROVE TypeOK'
  <2>1. Head(rx) \in Cell /\ Head(rx).kind = "hdr" /\ rx' \in Seq(Cell)
    BY <1>1, <1>5 DEF demux_header, dpram_read
  <2>2. Head(rx).len \in Nat
    BY <2>1, HeaderCell, PdpAssumption
  <2> QED BY <1>5, <2>1, <2>2 DEF demux_header, dpram_read, net, tx, Listed
<1>6. ASSUME vnet_recv \/ vs_read PROVE TypeOK'
  <2>1. frame.len \in Nat
    BY PdpAssumption
  <2>2. rx' \in Seq(Cell)
    BY <1>1, <1>6, <2>1 DEF vnet_recv, vs_read
  <2> QED BY <1>6, <2>2 DEF vnet_recv, vs_read, dpram_read, net, tx
<1>7. ASSUME demux_stop \/ demux_flush PROVE TypeOK'
  <2>1. frame.len + 1 \in Nat
    BY PdpAssumption
  <2>2. rx' \in Seq(Cell)
    BY <1>1, <1>7, <2>1 DEF demux_stop, demux_flush
  <2>3. slipped' \in BOOLEAN
    BY <1>7 DEF demux_stop, demux_flush
  <2>4. UNCHANGED <<net, tx>> /\ Done
    BY <1>7 DEF demux_stop, demux_flush, dpram_read
  <2>5. frame' \in [len : Nat, dev : Net \cup {Nobody}]
    BY <2>4 DEF Done, NoFrame
  <2> QED BY <2>2, <2>3, <2>4, <2>5 DEF Done, net, tx
<1> QED BY <1>2, <1>3, <1>4, <1>5, <1>6, <1>7 DEF Receive, Demux
-----------------------------------------------------------------------------
(***************************************************************************)
(* Nothing in use is lost, freed twice or freed too early.                 *)
(***************************************************************************)
LEMMA ControlAlive == ASSUME AliveInv, Control PROVE TxInv' /\ RxInv'
<1> USE PdpAssumption DEF AliveInv, TypeOK, TxInv, TxOwned, RxInv, AtFrame, Listed, net, tx, rxVars
<1>1. ASSUME NEW a \in Adjust, pdp_adjust(a) PROVE TxInv' /\ RxInv'
  BY <1>1 DEF pdp_adjust
<1>2. ASSUME NEW n \in Net, NEW arg \in Arg, pdp_activate(n, arg) PROVE TxInv' /\ RxInv'
  BY <1>2 DEF pdp_activate
<1>3. ASSUME NEW n \in Net, NEW arg \in Arg, pdp_deactivate(n, arg) PROVE TxInv' /\ RxInv'
  BY <1>3 DEF pdp_deactivate, Free
<1>4. ASSUME NEW n \in Net, pdp_add_dev(n) PROVE TxInv' /\ RxInv'
  BY <1>4 DEF pdp_add_dev
<1>5. ASSUME NEW n \in Net, vnet_del_dev(n) PROVE TxInv' /\ RxInv'
  BY <1>5 DEF vnet_del_dev, Close
<1>6. ASSUME NEW n \in Net, dev_close(n) PROVE TxInv' /\ RxInv'
  BY <1>6 DEF dev_close, Close
<1>7. ASSUME NEW n \in Net, vnet_del_dev_free(n) PROVE TxInv' /\ RxInv'
  BY <1>7 DEF vnet_del_dev_free
<1>8. ASSUME NEW n \in Net, vnet_open(n) PROVE TxInv' /\ RxInv'
  BY <1>8 DEF vnet_open
<1>9. ASSUME NEW n \in Net, vnet_stop(n) PROVE TxInv' /\ RxInv'
  BY <1>9 DEF vnet_stop
<1> QED BY <1>1, <1>2, <1>3, <1>4, <1>5, <1>6, <1>7, <1>8, <1>9 DEF Control

(* The transmit path uses no interface that is freed. *)
LEMMA TransmitAlive == ASSUME AliveInv, Transmit PROVE TxInv' /\ RxInv'
<1> USE PdpAssumption DEF AliveInv, TypeOK, TxInv, TxOwned, RxInv, AtFrame, Listed, net, rxVars
<1>1. ASSUME NEW n \in Net, vnet_start_xmit(n) PROVE TxInv' /\ RxInv'
  BY <1>1 DEF vnet_start_xmit, Accept
<1>2. ASSUME NEW n \in Net, vnet_tx_timeout(n) PROVE TxInv' /\ RxInv'
  BY <1>2 DEF vnet_tx_timeout
<1>3. ASSUME NEW n \in Net, run_workqueue(n) PROVE TxInv' /\ RxInv'
  BY <1>3 DEF run_workqueue
<1>4. ASSUME NEW n \in Net, vnet_defer_xmit(n) PROVE TxInv' /\ RxInv'
  BY <1>4 DEF vnet_defer_xmit, Free
<1>5. ASSUME NEW n \in Net, vnet_defer_xmit_end(n) PROVE TxInv' /\ RxInv'
  <2>1. data = n /\ inflight = 1 /\ \A m \in Net \ {n} : work[m] = "none"
    BY <1>5 DEF vnet_defer_xmit_end
  <2>2. \A m \in Net : work'[m] = "none"
    BY <1>5, <2>1 DEF vnet_defer_xmit_end
  <2>3. TxInv'
    BY <1>5, <2>1, <2>2 DEF vnet_defer_xmit_end
  <2>4. RxInv'
    BY <1>5 DEF vnet_defer_xmit_end
  <2> QED BY <2>3, <2>4
<1>6. ASSUME vs_write \/ vs_write_end PROVE TxInv' /\ RxInv'
  BY <1>6 DEF vs_write, vs_write_end, Free, tx
<1> QED BY <1>1, <1>2, <1>3, <1>4, <1>5, <1>6 DEF Transmit

(* Nor does the receive path, from the header of a frame to its end. *)
LEMMA ReceiveAlive == ASSUME AliveInv, Receive PROVE TxInv' /\ RxInv'
<1> USE PdpAssumption DEF AliveInv, TypeOK, RxInv, AtFrame, Listed
<1>1. ASSUME NEW i \in Ids, NEW len \in Length, ModemSend(i, len) PROVE TxInv' /\ RxInv'
  BY <1>1 DEF ModemSend, TxInv, TxOwned, net, tx
<1>2. ASSUME Demux PROVE TxInv'
  <2>1. /\ UNCHANGED <<net, tx>>
        /\ UNCHANGED lock \/ (lock = Nobody /\ lock' = "pdp_demux")
             \/ (lock = "pdp_demux" /\ lock' = Nobody)
    BY <1>2 DEF Demux, dpram_thread, pdp_demux, demux_header, vnet_recv, vs_read, demux_stop,
                demux_flush, dpram_read, Done, Free
  <2> QED BY <2>1 DEF TxInv, TxOwned, net, tx
<1>3. ASSUME dpram_thread \/ pdp_demux \/ vnet_recv \/ vs_read PROVE RxInv'
  BY <1>3 DEF dpram_thread, pdp_demux, vnet_recv, vs_read, dpram_read, Free, net, tx
<1>4. ASSUME demux_header PROVE RxInv'
  BY <1>4 DEF demux_header, dpram_read, net, tx
<1>5. ASSUME demux_stop \/ demux_flush PROVE RxInv'
  BY <1>5 DEF demux_stop, demux_flush, dpram_read, Done, NoFrame, net, tx
<1> QED BY <1>1, <1>2, <1>3, <1>4, <1>5 DEF Receive, Demux

(***************************************************************************)
(* AliveInv is an invariant of the driver: the three functions of the      *)
(* table, the life of an interface, the hand-over of a packet to the work  *)
(* and the reader keep it.                                                 *)
(***************************************************************************)
THEOREM AliveInvAlways == Spec => []AliveInv
<1>1. Init => AliveInv
  <2> SUFFICES ASSUME Init PROVE AliveInv
    OBVIOUS
  <2>1. TypeOK
    <3>1. g_adjust \in Nat /\ NoFrame \in [len : Nat, dev : Net \cup {Nobody}]
      BY PdpAssumption DEF Init, NoFrame
    <3>2. << >> \in Seq(Cell)
      BY EmptySeq
    <3> QED BY <3>1, <3>2 DEF Init, TypeOK
  <2> QED BY <2>1, PdpAssumption
          DEF Init, AliveInv, TxInv, TxOwned, RxInv, AtFrame, Listed, NoFrame
<1>2. AliveInv /\ [Next]_vars => AliveInv'
  <2> SUFFICES ASSUME AliveInv, [Next]_vars PROVE AliveInv'
    OBVIOUS
  <2>1. CASE Control
    BY <2>1, ControlTyped, ControlAlive DEF AliveInv
  <2>2. CASE Transmit
    BY <2>2, TransmitTyped, TransmitAlive DEF AliveInv
  <2>3. CASE Receive
    BY <2>3, ReceiveTyped, ReceiveAlive DEF AliveInv
  <2>4. CASE UNCHANGED vars
    BY <2>4 DEF vars, net, tx, rxVars, AliveInv, TypeOK, TxInv, TxOwned, RxInv, Listed
  <2> QED BY <2>1, <2>2, <2>3, <2>4 DEF Next
<1> QED BY <1>1, <1>2, PTL DEF Spec

(***************************************************************************)
(* The one packet accepted is the one vnet_start_xmit_flag and             *)
(* workqueue_data speak of, however many interfaces try, are woken by      *)
(* their watchdog, closed or removed.                                      *)
(***************************************************************************)
THEOREM TxAlwaysOwned == Spec => []TxOwned
<1>1. AliveInv => TxOwned
  BY DEF AliveInv, TxInv
<1> QED BY <1>1, AliveInvAlways, PTL

(***************************************************************************)
(* No interface is freed under its work item or under the reader.          *)
(***************************************************************************)
THEOREM DevicesAlwaysAlive == Spec => []DevicesAlive
<1>1. AliveInv => DevicesAlive
  BY DEF AliveInv, TxInv, RxInv, Listed, DevicesAlive
<1> QED BY <1>1, AliveInvAlways, PTL
-----------------------------------------------------------------------------
(***************************************************************************)
(* The reader and the frames.  What has been received stays made of frames *)
(* whatever is read of it; that the reader is in step is kept by every     *)
(* step that is no slip, and a slip is never forgotten.                    *)
(***************************************************************************)
(* A read of k cells, from inside a frame of which k or more are left. *)
LEMMA ReadFramed ==
  ASSUME TypeOK, Framed(rx), NEW k \in Nat, dpram_read(k)
  PROVE  /\ Framed(rx') /\ Len(rx') = Len(rx) - k
         /\ \A j \in 1..(Len(rx) - k) : rx'[j] = rx[k + j]
<1>1. k \in 0..Len(rx) /\ rx \in Seq(Cell)
  BY DEF dpram_read, TypeOK
<1> QED BY <1>1, DropShape, DropFramed DEF dpram_read

(* The reader stays at the boundaries of frames. *)
LEMMA InStepKept == ASSUME TypeOK, Framed(rx), InStep, ~slipped', Next
                    PROVE  Framed(rx') /\ InStep'
<1>0. /\ rx \in Seq(Cell) /\ Len(rx) \in Nat /\ (rx # << >> => Len(rx) >= 1)
      /\ frame.len \in Nat
  BY PdpAssumption DEF TypeOK
<1>1. ASSUME UNCHANGED rxVars PROVE Framed(rx') /\ InStep'
  BY <1>1 DEF rxVars, InStep
<1>2. ASSUME Control \/ Transmit PROVE UNCHANGED rxVars
  BY <1>2 DEF Control, pdp_adjust, pdp_activate, pdp_deactivate, pdp_add_dev, vnet_del_dev,
              vnet_del_dev_free, vnet_open, dev_close, vnet_stop, Transmit, vnet_start_xmit,
              Accept, vnet_tx_timeout, run_workqueue, vnet_defer_xmit, vnet_defer_xmit_end,
              vs_write, vs_write_end
<1>3. ASSUME NEW i \in Ids, NEW len \in Length, ModemSend(i, len)
      PROVE  Framed(rx') /\ InStep'
  <2>1. Framed(rx') /\ UNCHANGED <<reader, frame>>
    BY <1>0, <1>3, SendFramed DEF ModemSend
  <2> DEFINE f == FrameOf(i, len)
  <2>2. f \in Seq(Cell) /\ Len(f) \in Nat /\ Len(f) >= 1 /\ f[1].kind = "start"
    BY FrameShape, PdpAssumption
  <2> HIDE DEF f
  <2>3. /\ rx' \in Seq(Cell) /\ Len(rx') = Len(rx) + Len(f)
        /\ \A j \in 1..(Len(rx) + Len(f)) : rx'[j] = IF j <= Len(rx) THEN rx[j] ELSE f[j - Len(rx)]
    <3>1. rx' = rx \o f
      BY <1>3 DEF ModemSend, f
    <3> QED BY <1>0, <2>2, <3>1, ConcatProperties, Zenon
  <2>4. rx' # << >> /\ \A j \in 1..Len(rx) : rx'[j] = rx[j]
    BY <1>0, <2>2, <2>3
  <2>5. rx = << >> => rx'[1] = f[1]
    BY <2>2, <2>3
  <2>6. DataThenStop(rx, 1, frame.len) => DataThenStop(rx', 1, frame.len)
    <3> SUFFICES ASSUME DataThenStop(rx, 1, frame.len) PROVE DataThenStop(rx', 1, frame.len)
      OBVIOUS
    <3> DEFINE m == frame.len
    <3>1. m \in Nat /\ 1 + m \in 1..Len(rx) /\ 1 + m <= Len(rx')
      BY <1>0, <2>2, <2>3 DEF DataThenStop
    <3>2. \A k \in 1..(1 + m - 1) : k \in 1..Len(rx)
      BY <1>0, <3>1
    <3> QED BY <2>4, <3>1, <3>2 DEF DataThenStop
  <2>7. rx # << >> => rx'[1] = rx[1]
    BY <1>0, <2>4
  <2> QED BY <2>1, <2>2, <2>4, <2>5, <2>6, <2>7 DEF InStep
<1>4. ASSUME dpram_thread PROVE Framed(rx') /\ InStep'
  <2>1. Framed(rx') /\ Len(rx') = Len(rx) - 1 /\ \A j \in 1..(Len(rx) - 1) : rx'[j] = rx[1 + j]
    BY <1>4, ReadFramed DEF dpram_thread
  <2>2. Len(rx) >= 1 /\ Head(rx) = rx[1] /\ rx[1].kind = "start"
    BY <1>0, <1>4 DEF dpram_thread, dpram_read, InStep
  <2>3. 1 < Len(rx) /\ rx[1 + 1].kind = "hdr"
    BY <1>0, <2>2 DEF Framed
  <2>4. Len(rx') >= 1 /\ rx'[1].kind = "hdr"
    BY <1>0, <2>1, <2>3
  <2>5. rx' # << >>
    BY <2>4
  <2> QED BY <1>4, <2>1, <2>2, <2>4, <2>5 DEF dpram_thread, InStep
<1>5. ASSUME pdp_demux PROVE Framed(rx') /\ InStep'
  BY <1>5 DEF pdp_demux, InStep
<1>6. ASSUME demux_header PROVE Framed(rx') /\ InStep'
  <2>1. Framed(rx') /\ Len(rx') = Len(rx) - 1 /\ \A j \in 1..(Len(rx) - 1) : rx'[j] = rx[1 + j]
    BY <1>6, ReadFramed DEF demux_header
  <2> DEFINE m == Head(rx).len
  <2>2. Len(rx) >= 1 /\ Head(rx) = rx[1] /\ rx[1].kind = "hdr" /\ rx[1] \in Cell
    BY <1>0, <1>6 DEF demux_header, dpram_read
  <2>3. m \in Nat /\ frame'.len = m /\ reader' \in {"vnet_recv", "vs_read", "flush"}
    BY <1>6, <2>2, HeaderCell DEF demux_header
  <2>4. DataThenStop(rx, 1 + 1, m)
    BY <1>0, <2>2 DEF Framed
  <2> HIDE DEF m
  <2>5. DataThenStop(rx', 1, m)
    <3>1. 1 + m <= Len(rx') /\ 1 + m \in 1..(Len(rx) - 1)
      BY <1>0, <2>1, <2>3, <2>4 DEF DataThenStop
    <3>2. \A k \in 1..(1 + m - 1) : 1 + k \in (1 + 1)..(1 + 1 + m - 1) /\ k \in 1..(Len(rx) - 1)
      BY <1>0, <2>3, <3>1
    <3>3. 1 + (1 + m) = (1 + 1) + m
      BY <2>3
    <3> QED BY <2>1, <2>4, <3>1, <3>2, <3>3 DEF DataThenStop
  <2> QED BY <2>1, <2>3, <2>5 DEF InStep
(* The data has been read and the stop byte is next. *)
<1>7. ASSUME DataThenStop(rx, 1, frame.len), dpram_read(frame.len), reader' = "stop"
      PROVE  Framed(rx') /\ InStep'
  <2> DEFINE m == frame.len
  <2>1. Framed(rx') /\ Len(rx') = Len(rx) - m /\ \A j \in 1..(Len(rx) - m) : rx'[j] = rx[m + j]
    BY <1>0, <1>7, ReadFramed
  <2>2. m \in Nat /\ 1 + m <= Len(rx) /\ rx[1 + m].kind = "stop"
    BY <1>0, <1>7 DEF DataThenStop
  <2> HIDE DEF m
  <2>3. Len(rx') >= 1 /\ rx'[1] = rx[m + 1] /\ m + 1 = 1 + m
    BY <1>0, <2>1, <2>2
  <2>4. rx' # << >>
    BY <2>3
  <2> QED BY <1>7, <2>1, <2>2, <2>3, <2>4 DEF InStep
<1>8. ASSUME vnet_recv PROVE Framed(rx') /\ InStep'
  BY <1>7, <1>8 DEF vnet_recv, InStep
<1>9. ASSUME vs_read PROVE Framed(rx') /\ InStep'
  BY <1>7, <1>9 DEF vs_read, InStep
(* Everything up to and with a stop byte has been read. *)
<1>10. ASSUME NEW k \in Nat, k < Len(rx), rx[k + 1].kind = "stop", dpram_read(k + 1),
              reader' = "poll"
       PROVE  Framed(rx') /\ InStep'
  <2>1. /\ Framed(rx') /\ Len(rx') = Len(rx) - (k + 1)
        /\ \A j \in 1..(Len(rx) - (k + 1)) : rx'[j] = rx[(k + 1) + j]
    BY <1>10, ReadFramed
  <2>2. k + 1 < Len(rx) => rx[(k + 1) + 1].kind = "start"
    BY <1>0, <1>10 DEF Framed
  <2>3. rx' \in Seq(Cell)
    BY <1>0, <1>10, DropShape DEF dpram_read
  <2>4. rx' = << >> \/ rx'[1].kind = "start"
    <3>1. CASE k + 1 < Len(rx)
      BY <1>0, <1>10, <2>1, <2>2, <3>1
    <3>2. CASE k + 1 = Len(rx)
      BY <1>0, <2>1, <2>3, <3>2
    <3> QED BY <1>0, <1>10, <3>1, <3>2
  <2> QED BY <1>10, <2>1, <2>4 DEF InStep
<1>11. ASSUME demux_stop PROVE Framed(rx') /\ InStep'
  <2>1. 0 < Len(rx) /\ rx[0 + 1].kind = "stop" /\ dpram_read(0 + 1) /\ reader' = "poll"
    BY <1>0, <1>11 DEF demux_stop, Done, InStep
  <2> QED BY <1>10, <2>1
<1>12. ASSUME demux_flush PROVE Framed(rx') /\ InStep'
  <2>1. /\ frame.len < Len(rx) /\ rx[frame.len + 1].kind = "stop"
        /\ dpram_read(frame.len + 1) /\ reader' = "poll"
    <3>1. DataThenStop(rx, 1, frame.len) /\ dpram_read(frame.len + 1) /\ reader' = "poll"
      BY <1>12 DEF demux_flush, Done, InStep
    <3>2. 1 + frame.len = frame.len + 1
      BY <1>0
    <3> QED BY <1>0, <3>1, <3>2 DEF DataThenStop
  <2> QED BY <1>0, <1>10, <2>1
<1> QED BY <1>1, <1>2, <1>3, <1>4, <1>5, <1>6, <1>8, <1>9, <1>11, <1>12 DEF Next, Receive, Demux

(* What the receive path does to the cells, in step or not. *)
LEMMA RxStep ==
  ASSUME TypeOK, Next
  PROVE  /\ \/ UNCHANGED rx
            \/ \E k \in Nat : dpram_read(k)
            \/ \E i \in Ids, len \in Length : ModemSend(i, len)
         /\ slipped => slipped'
<1>1. CASE Control \/ Transmit
  BY <1>1 DEF Control, pdp_adjust, pdp_activate, pdp_deactivate, pdp_add_dev, vnet_del_dev,
              vnet_del_dev_free, vnet_open, dev_close, vnet_stop, Transmit, vnet_start_xmit,
              Accept, vnet_tx_timeout, run_workqueue, vnet_defer_xmit, vnet_defer_xmit_end,
              vs_write, vs_write_end, rxVars
<1>2. CASE \E i \in Ids, len \in Length : ModemSend(i, len)
  BY <1>2 DEF ModemSend
<1>3. CASE Demux
  <2>1. frame.len \in Nat /\ frame.len + 1 \in Nat /\ 1 \in Nat
    BY PdpAssumption DEF TypeOK
  <2>2. UNCHANGED rx \/ \E k \in Nat : dpram_read(k)
    BY <1>3, <2>1 DEF Demux, dpram_thread, pdp_demux, demux_header, vnet_recv, vs_read,
                      demux_stop, demux_flush
  <2>3. slipped => slipped'
    BY <1>3 DEF Demux, dpram_thread, pdp_demux, demux_header, vnet_recv, vs_read,
                demux_stop, demux_flush
  <2> QED BY <2>2, <2>3
<1> QED BY <1>1, <1>2, <1>3 DEF Next, Receive

(* A step that slips, or follows a slip, keeps at least the frames. *)
LEMMA SyncKept == ASSUME TypeOK, SyncInv, Next PROVE SyncInv'
<1>1. Framed(rx')
  <2>1. CASE UNCHANGED rx
    BY <2>1 DEF SyncInv
  <2>2. ASSUME NEW k \in Nat, dpram_read(k) PROVE Framed(rx')
    BY <2>2, ReadFramed DEF SyncInv
  <2>3. ASSUME NEW i \in Ids, NEW len \in Length, ModemSend(i, len) PROVE Framed(rx')
    BY <2>3, SendFramed DEF SyncInv, ModemSend, TypeOK
  <2> QED BY <2>1, <2>2, <2>3, RxStep
<1>2. ASSUME ~slipped' PROVE InStep'
  BY <1>2, RxStep, InStepKept DEF SyncInv
<1> QED BY <1>1, <1>2 DEF SyncInv

(***************************************************************************)
(* Up to the first full flip buffer and the first flush without memory the *)
(* reader stands at the start of a frame after every frame, for a listed   *)
(* interface that is up, down or without memory, for a serial line or for  *)
(* nobody: pdp_demux and its error path take exactly the frame.            *)
(***************************************************************************)
THEOREM AlwaysInSync == Spec => []InSync
<1>1. Init => SyncInv
  BY DEF Init, Framed, InStep, SyncInv
<1>2. TypeOK /\ SyncInv /\ [Next]_vars => SyncInv'
  <2>1. UNCHANGED vars /\ SyncInv => SyncInv'
    BY DEF vars, rxVars, InStep, SyncInv
  <2> QED BY <2>1, SyncKept
<1>3. AliveInv => TypeOK
  BY DEF AliveInv
<1>4. TypeOK /\ SyncInv => InSync
  BY DEF TypeOK, InStep, SyncInv, InSync, FramesKept
<1> QED BY <1>1, <1>2, <1>3, <1>4, AliveInvAlways, PTL DEF Spec
=============================================================================
