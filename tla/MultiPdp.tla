------------------------------ MODULE MultiPdp ------------------------------
(***************************************************************************)
(* modules/multipdp: the packet data contexts (network interfaces) and the *)
(* virtual serial lines multiplexed, in frames, onto the modem's raw port. *)
(*                                                                         *)
(* A network interface gives the driver one packet at a time; the packet   *)
(* is handed to a work item through the one global workqueue_data, guarded *)
(* by vnet_start_xmit_flag.  The thread dpram_thread takes frames apart.   *)
(* pdp_lock is held around the table, every frame written and every frame  *)
(* read, and dpram_read does not return before all bytes have come; that   *)
(* wait looks like not being scheduled, so a frame comes in one step.      *)
(*                                                                         *)
(* One processor, no preemption: a handler is one step up to a call that   *)
(* may sleep.  Whether pdp_mux writes the frame, fails, or drops it since  *)
(* HN_PDP_TXSTOP, the same follows; so the ring and pdp_tx_flag are left   *)
(* to DpramRing.  Bytes are abstracted to cells.                           *)
(***************************************************************************)
EXTENDS Naturals, Sequences, FiniteSets

CONSTANTS
  Net,          \* network devices
  Nobody,       \* no device, and the holder of a lock that is free
  SerialId,     \* channels of the serial lines, never removed (sticky)
  Arg,          \* channel numbers user space activates
  Adjust,       \* values of g_adjust, added to them
  MAX_PDP_CONTEXT,
  Length,       \* numbers of data cells in a frame
  MaxRx         \* bound on cells received and not read

ASSUME PdpAssumption ==
  /\ SerialId \subseteq Nat /\ Arg \subseteq Nat /\ Adjust \subseteq Nat
  /\ MAX_PDP_CONTEXT \in Nat /\ Length \subseteq Nat /\ MaxRx \in Nat
  /\ Nobody \notin Net \cup {"vnet_defer_xmit", "vs_write", "pdp_demux"}

VARIABLES
  g_adjust,
  state,        \* how far each device's activation or removal is
  id,           \* dev->id
  link,         \* "up", "closing" (inside dev_close) or "down"
  stopped,      \* interfaces whose queue the driver has stopped
  flag,         \* vnet_start_xmit_flag
  data,         \* device of the packet in workqueue_data
  work,         \* xmit_task of each device
  inflight,     \* history: packets accepted and not freed
  lock,         \* holder of pdp_lock
  rx,           \* cells to read
  reader,       \* where dpram_thread is
  frame,        \* the header it has read, and the device found for it
  slipped       \* history: an error path has not taken just the frame's rest

net == <<g_adjust, state, id, link>>
tx == <<stopped, flag, data, work, inflight>>
rxVars == <<rx, reader, frame, slipped>>
vars == <<net, tx, lock, rxVars>>

Free == lock = Nobody
Listed == {n \in Net : state[n] = "listed"}
Ids == SerialId \cup {a + d : a \in Arg, d \in Adjust}
Cell == [kind : {"start", "data", "stop"}] \cup [kind : {"hdr"}, id : Ids, len : Length]
NoFrame == [len |-> 0, dev |-> Nobody]

Init ==
  /\ g_adjust \in Adjust
  /\ state = [n \in Net |-> "free"] /\ id = [n \in Net |-> 0]
  /\ link = [n \in Net |-> "down"]
  /\ stopped = {}
  /\ flag = FALSE /\ data = Nobody /\ work = [n \in Net |-> "none"]
  /\ inflight = 0
  /\ lock = Nobody
  /\ rx = << >> /\ reader = "poll" /\ frame = NoFrame /\ slipped = FALSE
-----------------------------------------------------------------------------
(* HN_PDP_ADJUST. *)
pdp_adjust(a) ==
  /\ g_adjust' = a
  /\ UNCHANGED <<state, id, link, tx, lock, rxVars>>

(* pdp_activate up to pdp_lock: the interface exists from now on. *)
pdp_activate(n, arg) ==
  /\ state[n] = "free"
  /\ state' = [state EXCEPT ![n] = "made"]
  /\ id' = [id EXCEPT ![n] = arg + g_adjust]
  /\ UNCHANGED <<g_adjust, link, tx, lock, rxVars>>

(* pdp_add_dev finds the channel in use, or no slot. *)
Refused(n) ==
  \/ id[n] \in SerialId \/ \E m \in Listed : id[m] = id[n]
  \/ Cardinality(Listed) + Cardinality(SerialId) >= MAX_PDP_CONTEXT

pdp_add_dev(n) ==
  /\ state[n] = "made" /\ Free
  /\ state' = [state EXCEPT ![n] = IF Refused(n) THEN "unlisted" ELSE "listed"]
  /\ UNCHANGED <<g_adjust, id, link, tx, lock, rxVars>>

(* Mutant: the table is changed without the lock. *)
pdp_deactivate_unlocked(n, arg) ==
  /\ n \in Listed /\ id[n] = arg + g_adjust
  /\ state' = [state EXCEPT ![n] = "unlisted"]
  /\ UNCHANGED <<g_adjust, id, link, tx, lock, rxVars>>

(* HN_PDP_DEACTIVATE; the serial lines are sticky. *)
pdp_deactivate(n, arg) ==
  /\ Free
  /\ n \in Listed /\ id[n] = arg + g_adjust
  /\ state' = [state EXCEPT ![n] = "unlisted"]
  /\ UNCHANGED <<g_adjust, id, link, tx, lock, rxVars>>

(* dev_close of the network core up to ndo_stop: no more packets. *)
Close(n) == link' = IF link[n] = "up" THEN [link EXCEPT ![n] = "closing"] ELSE link

dev_close(n) ==
  /\ link[n] = "up"
  /\ Close(n)
  /\ UNCHANGED <<g_adjust, state, id, stopped, flag, data, work, inflight, lock, rxVars>>

(* vnet_del_dev: unregister_netdev closes the interface first ... *)
vnet_del_dev(n) ==
  /\ state[n] = "unlisted" /\ link[n] # "closing"
  /\ state' = [state EXCEPT ![n] = "deleting"]
  /\ Close(n)
  /\ UNCHANGED <<g_adjust, id, stopped, flag, data, work, inflight, lock, rxVars>>

(* ... and net and dev are freed. *)
vnet_del_dev_free(n) ==
  /\ state[n] = "deleting" /\ link[n] = "down"
  /\ state' = [state EXCEPT ![n] = "free"] /\ id' = [id EXCEPT ![n] = 0]
  /\ stopped' = stopped \ {n}
  /\ UNCHANGED <<g_adjust, link, flag, data, work, inflight, lock, rxVars>>

vnet_open(n) ==
  /\ state[n] \notin {"free", "deleting"} /\ link[n] = "down"
  /\ link' = [link EXCEPT ![n] = "up"]
  /\ work' = [work EXCEPT ![n] = "none"]
  /\ stopped' = stopped \ {n}
  /\ UNCHANGED <<g_adjust, state, id, flag, data, inflight, lock, rxVars>>

(* cancel_work_sync: a pending work is forgotten, a running one waited     *)
(* for.  What the work would have freed and cleared stays.                 *)
vnet_stop(n) ==
  /\ link[n] = "closing" /\ work[n] \in {"none", "pending"}
  /\ link' = [link EXCEPT ![n] = "down"]
  /\ stopped' = stopped \cup {n}
  /\ work' = [work EXCEPT ![n] = "none"]
  /\ UNCHANGED <<g_adjust, state, id, flag, data, inflight, lock, rxVars>>
-----------------------------------------------------------------------------
Accept(n) ==
  /\ flag' = TRUE /\ data' = n /\ inflight' = inflight + 1
  /\ work' = [work EXCEPT ![n] = IF @ = "none" THEN "pending" ELSE @]
  /\ stopped' = stopped \cup {n}
  /\ UNCHANGED <<net, lock, rxVars>>

(* Mutant: the flag is not looked at. *)
vnet_start_xmit_always(n) ==
  /\ link[n] = "up" /\ n \notin stopped
  /\ Accept(n)

(* The network core has a packet for an interface; with the flag set it is *)
(* refused (-EAGAIN) and queued again.                                     *)
vnet_start_xmit(n) ==
  /\ link[n] = "up" /\ n \notin stopped
  /\ ~flag
  /\ Accept(n)

(* The watchdog of an interface that has been stopped too long. *)
vnet_tx_timeout(n) ==
  /\ link[n] = "up" /\ n \in stopped
  /\ stopped' = stopped \ {n}
  /\ UNCHANGED <<net, flag, data, work, inflight, lock, rxVars>>

(* The one worker thread takes a work, which waits for pdp_lock ... *)
run_workqueue(n) ==
  /\ work[n] = "pending" /\ \A m \in Net : work[m] \in {"none", "pending"}
  /\ work' = [work EXCEPT ![n] = "running"]
  /\ UNCHANGED <<net, stopped, flag, data, inflight, lock, rxVars>>

(* ... takes the packet and multiplexes it ... *)
vnet_defer_xmit(n) ==
  /\ work[n] = "running" /\ Free
  /\ lock' = "vnet_defer_xmit"
  /\ work' = [work EXCEPT ![n] = "writing"]
  /\ UNCHANGED <<net, stopped, flag, data, inflight, rxVars>>

(* ... and frees it, written or dropped; workqueue_data, which is not      *)
(* cleared, points to nothing any more.                                    *)
vnet_defer_xmit_end(n) ==
  /\ work[n] = "writing"
  /\ lock' = Nobody
  /\ stopped' = stopped \ {data}
  /\ flag' = FALSE /\ data' = Nobody /\ inflight' = inflight - 1
  /\ work' = [work EXCEPT ![n] = "none"]
  /\ UNCHANGED <<net, rxVars>>

(* A program writes to a serial line. *)
vs_write ==
  /\ Free
  /\ lock' = "vs_write"
  /\ UNCHANGED <<net, tx, rxVars>>

vs_write_end ==
  /\ lock = "vs_write"
  /\ lock' = Nobody
  /\ UNCHANGED <<net, tx, rxVars>>
-----------------------------------------------------------------------------
(* The modem sends a frame. *)
FrameOf(i, len) ==
  <<[kind |-> "start"], [kind |-> "hdr", id |-> i, len |-> len]>>
    \o [k \in 1..len |-> [kind |-> "data"]] \o <<[kind |-> "stop"]>>

ModemSend(i, len) ==
  /\ Len(rx) + len + 3 <= MaxRx
  /\ rx' = rx \o FrameOf(i, len)
  /\ UNCHANGED <<net, tx, lock, reader, frame, slipped>>

(* dpram_read, and dpram_flush_rx: k cells are taken, when all have come.  *)
(* Any other error of the read is a hang-up of the port or the signal that *)
(* ends the thread; see the README.                                        *)
dpram_read(k) ==
  /\ Len(rx) >= k
  /\ rx' = SubSeq(rx, k + 1, Len(rx))
  /\ UNCHANGED <<net, tx>>

(* dpram_thread outside pdp_demux: bytes up to a start byte are skipped. *)
dpram_thread ==
  /\ reader = "poll"
  /\ dpram_read(1)
  /\ reader' = IF Head(rx).kind = "start" THEN "lock" ELSE "poll"
  /\ UNCHANGED <<lock, frame, slipped>>

pdp_demux ==
  /\ reader = "lock" /\ Free
  /\ lock' = "pdp_demux" /\ reader' = "hdr"
  /\ UNCHANGED <<net, tx, rx, frame, slipped>>

(* The header of a frame.  A data byte that looks like a start byte is     *)
(* read as one only after a slip, and what follows it is then taken for a  *)
(* header; this is not modelled, and nothing is claimed after a slip.      *)
demux_header ==
  /\ reader = "hdr"
  /\ dpram_read(1) /\ Head(rx).kind = "hdr"
  /\ LET hdr == Head(rx)
         devs == {n \in Listed : id[n] = hdr.id}
     IN \/ /\ devs # {}
           /\ \E n \in devs : frame' = [len |-> hdr.len, dev |-> n]
           /\ reader' = "vnet_recv"
        \/ /\ hdr.id \in SerialId
           /\ frame' = [len |-> hdr.len, dev |-> Nobody] /\ reader' = "vs_read"
        \/ /\ devs = {} /\ hdr.id \notin SerialId
           /\ frame' = [len |-> hdr.len, dev |-> Nobody] /\ reader' = "flush"
  /\ UNCHANGED <<lock, slipped>>

(* Mutant: the data is read before the interface is found down. *)
vnet_recv_late ==
  /\ reader = "vnet_recv"
  /\ dpram_read(frame.len)
  /\ reader' = IF link[frame.dev] = "up" THEN "stop" ELSE "flush"
  /\ UNCHANGED <<lock, frame, slipped>>

(* An interface that is not running, or a failing alloc_skb, leaves the    *)
(* data to the flush.                                                      *)
vnet_recv ==
  /\ reader = "vnet_recv"
  /\ \/ link[frame.dev] = "up" /\ dpram_read(frame.len) /\ reader' = "stop"
     \/ UNCHANGED <<net, tx, rx>> /\ reader' = "flush"
  /\ UNCHANGED <<lock, frame, slipped>>

(* The data is discarded when nobody has the line open, or goes to the     *)
(* flip buffer; when that is full, the flush follows though all data has   *)
(* been read.                                                              *)
vs_read ==
  /\ reader = "vs_read"
  /\ dpram_read(frame.len)
  /\ \/ reader' = "stop" /\ UNCHANGED slipped
     \/ reader' = "flush" /\ slipped' = TRUE
  /\ UNCHANGED <<lock, frame>>

Done ==
  /\ lock' = Nobody /\ reader' = "poll" /\ frame' = NoFrame

(* The stop byte; it makes no difference if it is not one. *)
demux_stop ==
  /\ reader = "stop"
  /\ dpram_read(1)
  /\ Done /\ UNCHANGED slipped

(* Mutant: the error path returns with the lock held. *)
demux_flush_locked ==
  /\ reader = "flush"
  /\ dpram_read(frame.len + 1)
  /\ reader' = "poll" /\ frame' = NoFrame /\ UNCHANGED <<lock, slipped>>

(* err: "flush the remaining data including stop byte"; without memory for *)
(* it dpram_flush_rx takes nothing, and pdp_demux returns all the same.    *)
demux_flush ==
  /\ reader = "flush"
  /\ \/ dpram_read(frame.len + 1) /\ UNCHANGED slipped
     \/ UNCHANGED <<net, tx, rx>> /\ slipped' = TRUE
  /\ Done

Control ==
  \/ \E a \in Adjust \ {g_adjust} : pdp_adjust(a)
  \/ \E n \in Net, arg \in Arg : pdp_activate(n, arg) \/ pdp_deactivate(n, arg)
  \/ \E n \in Net : pdp_add_dev(n) \/ vnet_del_dev(n) \/ vnet_del_dev_free(n)
                    \/ vnet_open(n) \/ dev_close(n) \/ vnet_stop(n)

Transmit ==
  \/ \E n \in Net : vnet_start_xmit(n) \/ vnet_tx_timeout(n)
                    \/ run_workqueue(n) \/ vnet_defer_xmit(n) \/ vnet_defer_xmit_end(n)
  \/ vs_write \/ vs_write_end

Demux ==
  dpram_thread \/ pdp_demux \/ demux_header \/ vnet_recv \/ vs_read \/ demux_stop \/ demux_flush

Receive ==
  \/ \E i \in Ids, len \in Length : ModemSend(i, len)
  \/ Demux

Next == Control \/ Transmit \/ Receive

Spec == Init /\ [][Next]_vars

(* The worker and the reader run when they can, the modem completes its    *)
(* frames, and the ring has room at last.  A program is preempted only        *)
(* outside the kernel, without the lock: the work gets it however busy the *)
(* others are.  At most one work runs, so "some" is that one.              *)
Fairness ==
  /\ WF_vars(\E n \in Net : run_workqueue(n))
  /\ SF_vars(\E n \in Net : vnet_defer_xmit(n))
  /\ WF_vars(vs_write_end \/ \E n \in Net : vnet_defer_xmit_end(n))
  /\ WF_vars(Demux)

FairSpec == Spec /\ Fairness
-----------------------------------------------------------------------------
(* The one packet the driver may have accepted is the one the flag and     *)
(* workqueue_data speak of, also when the watchdog lets another interface  *)
(* or the same one try again: none is overwritten, or freed twice, and the *)
(* work finds its own interface's.                                         *)
TxOwned ==
  /\ inflight = IF flag THEN 1 ELSE 0
  /\ \A n \in Net : work[n] # "none" => flag /\ data = n

(* Nothing the worker or the reader is at has been freed by the removal of *)
(* a context in the meantime.                                              *)
DevicesAlive ==
  /\ \A n \in Net : work[n] # "none" => state[n] # "free"
  /\ frame.dev \in Net => state[frame.dev] # "free"

(* multipdp.c:1208: after every frame, received, discarded or flushed, the *)
(* reader is at the start of the next one.  The code does not keep this:   *)
(* see slipped.                                                            *)
FramesKept == reader = "poll" /\ rx # << >> => Head(rx).kind = "start"

(* It keeps it up to the first flip buffer that is full and the first      *)
(* flush that gets no memory, and through everything else that may become  *)
(* of a frame: a channel nobody has, or no longer; an interface that is    *)
(* down, or goes down while its frame is read; no memory for the packet; a *)
(* line nobody has open.                                                   *)
InSync == ~slipped => FramesKept

(* A packet handed to the work is dealt with, or dropped with its          *)
(* interface, whoever else holds the lock.  Only a flush of data that has  *)
(* been read already may keep it, waiting for bytes the modem need not     *)
(* send.                                                                   *)
WorkDone ==
  (\E n \in Net : work[n] # "none") ~> (slipped \/ \A n \in Net : work[n] = "none")

(* driver.txt: the driver frees a packet it has accepted in finite time.   *)
TxFreed == flag ~> ~flag
=============================================================================
