------------------------------ MODULE OneDram ------------------------------
(***************************************************************************)
(* The semaphore of the memory bank shared with the phone, the two         *)
(* mailboxes, and the driver's use of them: modules/dpram/dpram.c.         *)
(*                                                                         *)
(* Three contexts of the driver share one CPU without kernel preemption: a *)
(* task in dpram_write or dpram_init_and_report, the tasklets, which       *)
(* interrupt it, and the interrupt handler, which interrupts both.  The    *)
(* phone runs beside them; its side is not in the repository and is taken  *)
(* to follow the same rules: it touches the bank and hands the semaphore   *)
(* over only while it has it, and writes a mailbox that has been read.     *)
(*                                                                         *)
(* One port is modelled; its rings count bytes (their positions are the    *)
(* business of DpramRing).  dump_on, which takes the interrupts away       *)
(* altogether, is off.                                                     *)
(***************************************************************************)
EXTENDS Integers

CONSTANTS
  OutRoom,      \* bytes the ring to the phone holds
  InRoom,       \* bytes the ring from the phone holds
  MaxLen,       \* bound on the length of a write
  MaxRequested, \* bound on requested_semaphore
  PhoneMails    \* the mails the phone sends of itself

NoMail == {}
SMP_REQ == {"COMMAND", "SMP_REQ"}
SMP_REP == {"COMMAND", "SMP_REP"}
REQ_ACTIVE == {"COMMAND", "REQ_ACTIVE"}
Notice == {"notice"}   \* any mail to the phone but SMP_REQ

ASSUME RoomAssumption ==
  /\ OutRoom \in Nat \ {0}
  /\ InRoom \in Nat \ {0}
  /\ MaxLen \in Nat \ {0}
  /\ MaxRequested \in Nat \ {0}
  /\ PhoneMails \subseteq {SMP_REQ, REQ_ACTIVE, {"SEND"}, {"SEND", "REQ_ACK"}, {"RES_ACK"}}

VARIABLES
  sem,        \* *onedram_sem: who has the bank
  lock,       \* onedram_lock
  requested,  \* requested_semaphore
  owed,       \* history: 1 when a request of the phone was counted and it
              \* has not had the semaphore since, else 0
  ba, ab,     \* the mailboxes to and from the phone, NoMail once read
  out, in,    \* unread bytes in the rings to and from the phone
  len,        \* the length of the latest write
  opened,     \* serial.tty is set
  sched,      \* the tasklets that are scheduled
  non_cmd,    \* dpram_tasklet_data.non_cmd
  pc,         \* where the task and the tasklet are
  job,        \* what each of the two is doing
  mask,       \* the copy of non_cmd on the stack of the send tasklet
  head,       \* the head on the stack of dpram_drop_data, as the unread bytes
              \* before it
  irq,        \* where dpram_irq_handler is
  irq_mask    \* the mail it has read

bank == <<sem, lock, requested, owed>>
mail == <<ba, ab>>
rings == <<out, in, len>>
work == <<sched, non_cmd>>
ctx == <<pc, job, mask, head>>
int == <<irq, irq_mask>>
dvars == <<bank, mail, rings, opened, work, ctx, int>>

Context == {"task", "soft"}

(* In onedram_get_semaphore; before, and in the middle of, onedram_lock_   *)
(* with_semaphore; at the bank; before and in the middle of onedram_       *)
(* release_lock; before and in the middle of send_interrupt_to_phone_with_ *)
(* semaphore, which had it or had it not; about to send SMP_REP; in        *)
(* dpram_drop_data, about to read the head and about to write the tail.    *)
Pc == {"idle", "get", "lock", "test", "bank", "release", "honour", "send", "mail",
       "mail_only", "reply", "drop", "tail"}

Init ==
  /\ sem = "PHONE"
  /\ lock = 0
  /\ requested = 0
  /\ owed = 0
  /\ ba = NoMail /\ ab = NoMail
  /\ out = 0 /\ in = 0 /\ len = 1
  /\ opened = FALSE
  /\ sched = {}
  /\ non_cmd = {}
  /\ mask = {}
  /\ head = 0
  /\ pc = [c \in Context |-> "idle"]
  /\ job = [c \in Context |-> "none"]
  /\ irq = "idle"
  /\ irq_mask = NoMail

(* The context is not interrupted. *)
Runs(c) == irq = "idle" /\ (c = "task" => pc["soft"] = "idle")

(* The semaphore goes to the phone. *)
HandOver == sem' = "PHONE" /\ owed' = 0

Goto(c, p) ==
  /\ pc' = [pc EXCEPT ![c] = p]
  /\ job' = IF p = "idle" THEN [job EXCEPT ![c] = "none"] ELSE job
  /\ mask' = IF p = "idle" /\ c = "soft" THEN {} ELSE mask
  /\ head' = IF p = "idle" /\ c = "soft" THEN 0 ELSE head
-----------------------------------------------------------------------------
(***************************************************************************)
(* The access to the bank, as dpram_write, dpram_init_and_report and       *)
(* dpram_read have it in common.                                           *)
(***************************************************************************)

(* The caller's way out when it did not get the semaphore.  The send       *)
(* tasklet schedules itself again.                                         *)
GiveUp(c) ==
  /\ Goto(c, "idle")
  /\ sched' = IF c = "soft" /\ "SEND" \in mask THEN sched \union {"send"} ELSE sched

(* A try of onedram_get_semaphore, which asks and waits when it fails. *)
onedram_get_semaphore(c) ==
  /\ Runs(c) /\ pc[c] = "get"
  /\ \/ sem = "PDA" /\ Goto(c, "lock") /\ UNCHANGED ba
     \/ sem = "PHONE" /\ ba' = SMP_REQ /\ UNCHANGED ctx
  /\ UNCHANGED <<bank, ab, rings, opened, work, int>>

(* Mutant: onedram_get_semaphore tries for ever. *)
GetFailsNever(c) == FALSE /\ UNCHANGED dvars

(* The last of its tries has failed. *)
GetFails(c) ==
  /\ Runs(c) /\ pc[c] = "get"
  /\ sem = "PHONE"
  /\ GiveUp(c)
  /\ UNCHANGED <<bank, mail, rings, opened, non_cmd, int>>

(* Mutant: the failed test leaves the counter up. *)
onedram_lock_with_semaphore_leak(c) ==
  /\ Runs(c)
  /\ lock < 2
  /\ \/ /\ pc[c] = "lock"
        /\ lock' = lock + 1
        /\ Goto(c, "test")
        /\ UNCHANGED sched
     \/ /\ pc[c] = "test" /\ sem = "PDA"
        /\ Goto(c, "bank")
        /\ UNCHANGED <<lock, sched>>
     \/ /\ pc[c] = "test" /\ sem = "PHONE"
        /\ GiveUp(c)
        /\ UNCHANGED lock
  /\ UNCHANGED <<sem, requested, owed, mail, rings, opened, non_cmd, int>>

(* The counter goes up, then the semaphore is looked at again. *)
onedram_lock_with_semaphore(c) ==
  /\ Runs(c)
  /\ \/ /\ pc[c] = "lock"
        /\ lock' = lock + 1
        /\ Goto(c, "test")
        /\ UNCHANGED sched
     \/ /\ pc[c] = "test" /\ sem = "PDA"
        /\ Goto(c, "bank")
        /\ UNCHANGED <<lock, sched>>
     \/ /\ pc[c] = "test" /\ sem = "PHONE"
        /\ lock' = lock - 1
        /\ GiveUp(c)
  /\ UNCHANGED <<sem, requested, owed, mail, rings, opened, non_cmd, int>>

(* dpram_write goes round its loop until all its bytes fit.  dpram_init_   *)
(* and_report sends INIT_START and clears the rings; dpram_clear also      *)
(* reads the mailbox, to no use.  dpram_read empties its ring and notes    *)
(* whether it found any bytes.                                             *)
Bank(c) ==
  /\ Runs(c) /\ pc[c] = "bank"
  /\ pc' = [pc EXCEPT ![c] = "release"]
  /\ \/ /\ job[c] = "write"
        /\ len <= OutRoom - out
        /\ out' = out + len
        /\ UNCHANGED <<in, mail, job>>
     \/ /\ job[c] = "init"
        /\ ba' = Notice /\ ab' = NoMail
        /\ out' = 0 /\ in' = 0
        /\ UNCHANGED job
     \/ /\ job[c] \in {"read", "empty"}
        /\ in' = 0
        /\ job' = [job EXCEPT ![c] = IF in > 0 THEN "read" ELSE "empty"]
        /\ UNCHANGED <<out, mail>>
  /\ UNCHANGED <<bank, len, opened, work, mask, head, int>>

(* What comes after the release: a mail; without one, the next round of    *)
(* the loop of the send tasklet, or its end.                               *)
NextRound(c) == IF job[c] = "read" THEN "get" ELSE "idle"
AfterRelease(c) ==
  IF c = "soft" /\ "REQ_ACK" \notin mask THEN NextRound(c) ELSE "send"

(* Mutant: requested_semaphore is cleared before the lock is looked at. *)
onedram_release_lock_clears(c) ==
  /\ Runs(c)
  /\ \/ /\ pc[c] = "release"
        /\ lock' = lock - 1
        /\ Goto(c, "honour")
        /\ UNCHANGED <<sem, requested, owed>>
     \/ /\ pc[c] = "honour"
        /\ requested' = 0
        /\ IF requested > 0 /\ lock = 0 /\ sem = "PDA"
           THEN HandOver ELSE UNCHANGED <<sem, owed>>
        /\ Goto(c, AfterRelease(c))
        /\ UNCHANGED lock
  /\ UNCHANGED <<mail, rings, opened, work, int>>

(* The counter goes down, then a request that was counted is honoured. *)
onedram_release_lock(c) ==
  /\ Runs(c)
  /\ \/ /\ pc[c] = "release"
        /\ lock' = lock - 1
        /\ Goto(c, "honour")
        /\ UNCHANGED <<sem, requested, owed>>
     \/ /\ pc[c] = "honour"
        /\ IF requested > 0 /\ lock = 0 /\ sem = "PDA"
           THEN HandOver /\ requested' = 0
           ELSE UNCHANGED <<sem, requested, owed>>
        /\ Goto(c, AfterRelease(c))
        /\ UNCHANGED lock
  /\ UNCHANGED <<mail, rings, opened, work, int>>

(* Under the lock nothing is sent.  Otherwise the semaphore is handed over *)
(* and then the mail is written.                                           *)
send_interrupt_to_phone_with_semaphore(c) ==
  /\ Runs(c)
  /\ \/ /\ pc[c] = "send"
        /\ IF lock > 0
           THEN Goto(c, NextRound(c)) /\ UNCHANGED <<sem, owed>>
           ELSE Goto(c, IF sem = "PDA" THEN "mail" ELSE "mail_only") /\ HandOver
        /\ UNCHANGED <<requested, ba>>
     \/ /\ pc[c] \in {"mail", "mail_only"}
        /\ ba' = Notice
        /\ requested' = IF pc[c] = "mail" THEN 0 ELSE requested
        /\ Goto(c, NextRound(c))
        /\ UNCHANGED <<sem, owed>>
  /\ UNCHANGED <<lock, ab, rings, opened, work, int>>
-----------------------------------------------------------------------------
(***************************************************************************)
(* System calls.                                                           *)
(***************************************************************************)
StartTask(j) ==
  /\ Runs("task") /\ pc["task"] = "idle"
  /\ pc' = [pc EXCEPT !["task"] = "get"]
  /\ job' = [job EXCEPT !["task"] = j]
  /\ UNCHANGED <<bank, mail, out, in, opened, work, mask, head, int>>

dpram_write == StartTask("write") /\ len' \in 1 .. MaxLen
dpram_init_and_report == StartTask("init") /\ UNCHANGED len

(* dpram_tty_open sets serial.tty and dpram_tty_close clears it.  So does  *)
(* an open that fails: open_count finds another opener, -EBUSY, and the    *)
(* tty layer closes what did not open.  The other opener still writes, so  *)
(* a write does not depend on serial.tty; open_count itself, which has no  *)
(* other use, is left out.                                                 *)
OpenClose ==
  /\ Runs("task") /\ pc["task"] = "idle"
  /\ opened' = ~opened
  /\ UNCHANGED <<bank, mail, rings, work, ctx, int>>

dpram_phone_reset ==
  /\ Runs("task") /\ pc["task"] = "idle"
  /\ HandOver
  /\ UNCHANGED <<lock, requested, mail, rings, opened, work, ctx, int>>
-----------------------------------------------------------------------------
(***************************************************************************)
(* The tasklets.                                                           *)
(***************************************************************************)
Tasklet(t) ==
  /\ Runs("soft") /\ pc["soft"] = "idle"
  /\ t \in sched
  /\ sched' = sched \ {t}

(* Mutant: the semaphore is returned without a look at onedram_lock. *)
return_onedram_semaphore_blind ==
  \/ /\ sem = "PDA"
     /\ HandOver
     /\ Goto("soft", "reply")
     /\ UNCHANGED requested
  \/ /\ sem = "PHONE"
     /\ UNCHANGED <<sem, requested, owed, ctx>>

(* return_onedram_semaphore, and the SMP_REP that follows when it did. *)
return_onedram_semaphore ==
  \/ /\ lock = 0 /\ sem = "PDA"
     /\ HandOver
     /\ Goto("soft", "reply")
     /\ UNCHANGED requested
  \/ /\ lock = 0 /\ sem = "PHONE"
     /\ UNCHANGED <<sem, requested, owed, ctx>>
  \/ /\ lock > 0
     /\ requested' = IF requested < MaxRequested THEN requested + 1 ELSE requested
     /\ owed' = IF sem = "PDA" THEN 1 ELSE 0
     /\ UNCHANGED <<sem, ctx>>

semaphore_control_handler ==
  \/ /\ Tasklet("semaphore")
     /\ return_onedram_semaphore
     /\ UNCHANGED <<lock, mail, rings, opened, non_cmd, int>>
  \/ /\ Runs("soft") /\ pc["soft"] = "reply"
     /\ ba' = Notice
     /\ Goto("soft", "idle")
     /\ UNCHANGED <<bank, ab, rings, opened, work, int>>

(* With no tty there is nobody to read for: dpram_drop_data, if it finds   *)
(* the semaphore here.                                                     *)
send_tasklet_handler ==
  /\ Tasklet("send")
  /\ \/ /\ opened
        /\ mask' = non_cmd
        /\ pc' = [pc EXCEPT !["soft"] = "get"]
        /\ job' = [job EXCEPT !["soft"] = "read"]
        /\ UNCHANGED head
     \/ /\ ~opened /\ sem = "PDA"
        /\ Goto("soft", "drop")
     \/ /\ ~opened /\ sem = "PHONE"
        /\ UNCHANGED ctx
  /\ UNCHANGED <<bank, mail, rings, opened, non_cmd, int>>

(* The tail is set to the head.  onedram_lock is not taken, so REQ_ACTIVE  *)
(* may have the semaphore handed over on the way.  _memcpy then refuses,   *)
(* and a head that was not read is whatever the stack held; or it copies   *)
(* all the same, when the interrupt came after the test in _memcpy itself. *)
dpram_drop_data ==
  /\ Runs("soft")
  /\ \/ /\ pc["soft"] = "drop"
        /\ pc' = [pc EXCEPT !["soft"] = "tail"]
        /\ head' \in IF sem = "PDA" THEN {in} ELSE 0 .. InRoom
        /\ UNCHANGED <<in, job, mask>>
     \/ /\ pc["soft"] = "tail"
        /\ \/ in' = (in - head) % (InRoom + 1)
           \/ sem = "PHONE" /\ in' = in
        /\ Goto("soft", "idle")
  /\ UNCHANGED <<bank, mail, out, len, opened, work, int>>
-----------------------------------------------------------------------------
(***************************************************************************)
(* The interrupt handler.                                                  *)
(***************************************************************************)
dpram_irq_handler ==
  /\ irq = "idle"
  /\ ab # NoMail
  /\ irq_mask' = ab
  /\ ab' = NoMail
  /\ irq' = "drain"
  /\ UNCHANGED <<bank, ba, rings, opened, work, ctx>>

(* Reads the mailbox until the pin is high, and looks at none of it. *)
check_int_pin_level ==
  /\ irq = "drain"
  /\ ab' = NoMail
  /\ irq' = IF "COMMAND" \in irq_mask THEN "command" ELSE "get"
  /\ UNCHANGED <<bank, ba, rings, opened, work, ctx, irq_mask>>

IrqReturn == irq' = "idle" /\ irq_mask' = NoMail

command_handler ==
  /\ irq = "command"
  /\ IF irq_mask = REQ_ACTIVE /\ lock = 0
     THEN /\ HandOver
          /\ ba' = Notice
          /\ requested' = IF sem = "PDA" THEN 0 ELSE requested
     ELSE UNCHANGED <<sem, owed, ba, requested>>
  /\ sched' = IF irq_mask = SMP_REQ THEN sched \union {"semaphore"} ELSE sched
  /\ IrqReturn
  /\ UNCHANGED <<lock, ab, rings, opened, non_cmd, ctx>>

(* onedram_get_semaphore, then a look at the rings without the lock. *)
NonCommandGet ==
  /\ irq = "get"
  /\ \/ sem = "PDA" /\ irq' = "look" /\ UNCHANGED <<irq_mask, ba>>
     \/ sem = "PHONE" /\ ba' = SMP_REQ /\ UNCHANGED int
  /\ UNCHANGED <<bank, ab, rings, opened, work, ctx>>

NonCommandFails ==
  /\ irq = "get"
  /\ sem = "PHONE"
  /\ IrqReturn
  /\ UNCHANGED <<bank, mail, rings, opened, work, ctx>>

(* Mutant: the handler goes by the mail and does not look at the rings. *)
NonCommandLookMail ==
  /\ irq = "look"
  /\ IF "SEND" \in irq_mask
     THEN sched' = sched \union {"send"} /\ non_cmd' = irq_mask
     ELSE UNCHANGED <<sched, non_cmd>>
  /\ IrqReturn
  /\ UNCHANGED <<bank, mail, rings, opened, ctx>>

NonCommandLook ==
  LET m == IF in > 0 THEN irq_mask \union {"SEND"} ELSE irq_mask
  IN  /\ irq = "look"
      /\ IF "SEND" \in m
         THEN sched' = sched \union {"send"} /\ non_cmd' = m
         ELSE UNCHANGED <<sched, non_cmd>>
      /\ IrqReturn
      /\ UNCHANGED <<bank, mail, rings, opened, ctx>>
-----------------------------------------------------------------------------
(***************************************************************************)
(* The phone.                                                              *)
(***************************************************************************)
PhoneMail(m) == ab = NoMail /\ ab' = m
Sends(m) == m \in PhoneMails /\ PhoneMail(m)

(* Asks for the semaphore, or whether the driver is there. *)
PhoneAsks ==
  /\ (sem = "PDA" /\ Sends(SMP_REQ)) \/ Sends(REQ_ACTIVE)
  /\ UNCHANGED <<bank, ba, rings, opened, work, ctx, int>>

(* Reads and writes the rings, and hands the semaphore over with a notice. *)
PhoneSends ==
  /\ sem = "PHONE"
  /\ sem' = "PDA"
  /\ \E n \in 0 .. out : out' = out - n
  /\ \/ in' \in in + 1 .. InRoom /\ (Sends({"SEND"}) \/ Sends({"SEND", "REQ_ACK"}))
     \/ in' = in /\ Sends({"RES_ACK"})
  /\ UNCHANGED <<lock, requested, owed, ba, len, opened, work, ctx, int>>

(* Reads its mailbox; hands the semaphore over when it is asked to. *)
PhoneReads ==
  /\ ba # NoMail
  /\ ba' = NoMail
  /\ IF ba = SMP_REQ /\ sem = "PHONE" THEN sem' = "PDA" /\ PhoneMail(SMP_REP)
                                      ELSE UNCHANGED <<sem, ab>>
  /\ UNCHANGED <<lock, requested, owed, rings, opened, work, ctx, int>>

Phone == PhoneAsks \/ PhoneSends \/ PhoneReads
-----------------------------------------------------------------------------
Access(c) ==
  \/ onedram_get_semaphore(c) \/ GetFails(c) \/ onedram_lock_with_semaphore(c)
  \/ Bank(c) \/ onedram_release_lock(c) \/ send_interrupt_to_phone_with_semaphore(c)

Calls == dpram_write \/ dpram_init_and_report \/ OpenClose \/ dpram_phone_reset

Tasklets == semaphore_control_handler \/ send_tasklet_handler \/ dpram_drop_data

Irq ==
  \/ dpram_irq_handler \/ check_int_pin_level \/ command_handler
  \/ NonCommandGet \/ NonCommandFails \/ NonCommandLook

Next == (\E c \in Context : Access(c)) \/ Calls \/ Tasklets \/ Irq \/ Phone

Spec == Init /\ [][Next]_dvars

(***************************************************************************)
(* Interrupts are taken and their handler ends, an interrupted context     *)
(* gets to run between the mails of the phone, the tries for the semaphore *)
(* are numbered, and the phone reads its mailbox.                          *)
(***************************************************************************)
Fairness ==
  /\ WF_dvars(Irq /\ irq' # irq)
  /\ \A c \in Context : SF_dvars(Access(c) /\ pc' # pc)
  /\ SF_dvars(Tasklets)
  /\ WF_dvars(PhoneReads)

FairSpec == Spec /\ Fairness
-----------------------------------------------------------------------------
TypeOK ==
  /\ sem \in {"PDA", "PHONE"}
  /\ lock \in 0 .. 2
  /\ requested \in 0 .. MaxRequested
  /\ ba \in {NoMail, SMP_REQ, Notice}
  /\ out \in 0 .. OutRoom
  /\ in \in 0 .. InRoom
  /\ len \in 1 .. MaxLen
  /\ opened \in BOOLEAN
  /\ owed \in 0 .. 1
  /\ head \in 0 .. InRoom
  /\ sched \subseteq {"semaphore", "send"}
  /\ pc \in [Context -> Pc]
  /\ job \in [Context -> {"none", "write", "init", "read", "empty"}]
  /\ irq \in {"idle", "drain", "command", "get", "look"}

(***************************************************************************)
(* _memcpy refuses a "memory access without semaphore!": whatever the      *)
(* interrupt handler and the tasklets do while a task or a tasklet reads   *)
(* or writes the rings, the semaphore stays until the last of them has     *)
(* left the bank; and an interrupt handler that has got it keeps it while  *)
(* it looks at the rings, without the lock.  dpram_drop_data is the one    *)
(* access that is not covered (DropGuarded).                               *)
(***************************************************************************)
BankGuarded ==
  /\ \A c \in Context : pc[c] = "bank" => sem = "PDA"
  /\ irq = "look" => sem = "PDA"

(***************************************************************************)
(* The same of dpram_drop_data, which looks at the semaphore before its    *)
(* two accesses.  It does not hold: nothing keeps it meanwhile.            *)
(***************************************************************************)
DropGuarded == pc["soft"] \in {"drop", "tail"} => sem = "PDA"

(***************************************************************************)
(* onedram_lock counts the contexts that are at the bank, error paths and  *)
(* nesting included.                                                       *)
(***************************************************************************)
AtBank(c) == IF pc[c] \in {"test", "bank", "release"} THEN 1 ELSE 0

LockCounts == lock = AtBank("task") + AtBank("soft")

(***************************************************************************)
(* A request of the phone that came while the bank was in use, and that    *)
(* return_onedram_semaphore therefore only counted, is not forgotten:      *)
(* until the phone has the semaphore the count stands, and a context is    *)
(* still to come to the place in onedram_release_lock that honours it.     *)
(***************************************************************************)
RequestKept ==
  owed = 1 =>
    /\ requested > 0
    /\ \E c \in Context : pc[c] \in {"test", "bank", "release", "honour"}

(***************************************************************************)
(* Somebody is on the way to the bytes from the phone: the notice is in    *)
(* the mailbox or in the handler, or the send tasklet is scheduled or      *)
(* running.                                                                *)
(***************************************************************************)
Coming ==
  \/ ab # NoMail /\ "COMMAND" \notin ab
  \/ irq \in {"drain", "get", "look"} /\ "COMMAND" \notin irq_mask
  \/ "send" \in sched
  \/ pc["soft"] \in {"get", "lock", "test", "bank", "drop", "tail"} \/ job["soft"] = "read"

(***************************************************************************)
(* Bytes from the phone do not stay behind unheeded.  The steps that leave *)
(* them so are these: check_int_pin_level draining a mail, an interrupt    *)
(* handler that did not get the semaphore, and a drop that did not have it *)
(* to the end, so that its tail is not written or not the present head.    *)
(***************************************************************************)
Loses ==
  \/ check_int_pin_level /\ ab # NoMail
  \/ NonCommandFails
  \/ send_tasklet_handler /\ ~opened /\ sem = "PHONE"
  \/ dpram_drop_data /\ pc["soft"] = "tail" /\ (sem = "PHONE" \/ in # head)

NoticeKept == [][in' > 0 /\ (in' > in \/ Coming) => Coming' \/ Loses]_dvars

(***************************************************************************)
(* A call gets through its tries for the semaphore, its turns at the lock  *)
(* and the interrupts, whatever the phone asks meanwhile, unless it is a   *)
(* write for which the ring has no room.                                   *)
(***************************************************************************)
OnlyFullRingBlocks ==
  pc["task"] # "idle" ~>
    \/ pc["task"] = "idle"
    \/ pc["task"] = "bank" /\ job["task"] = "write" /\ out + len > OutRoom

(***************************************************************************)
(* include/linux/tty_driver.h, of the write method: "This routine will     *)
(* return the number of characters actually accepted for writing."         *)
(***************************************************************************)
WriteReturns == pc["task"] # "idle" ~> pc["task"] = "idle"
=============================================================================
