--------------------------- MODULE OneDramProofs ---------------------------
(***************************************************************************)
(* The semaphore discipline of OneDram, for rings of every size and every  *)
(* set of mails of the phone.                                              *)
(***************************************************************************)
EXTENDS OneDram, TLAPS

(* The part of TypeOK that the argument needs.  That lock is at most 2 is  *)
(* a consequence of LockCounts.                                            *)
Control ==
  /\ sem \in {"PDA", "PHONE"}
  /\ lock \in Nat
  /\ requested \in Nat
  /\ owed \in 0 .. 1
  /\ pc \in [Context -> Pc]

(* A context past the handing over of the semaphore, on its way to write   *)
(* the mail and strike off the requests, strikes off none that is owed.    *)
NoneStruckOff == \A c \in Context : pc[c] = "mail" => owed = 0

(***************************************************************************)
(* The inductive invariant.  LockCounts is what makes the tests of lock    *)
(* mean that nobody is at the bank; a request is owed only while the       *)
(* semaphore is here.                                                      *)
(***************************************************************************)
IInv ==
  /\ Control
  /\ BankGuarded
  /\ LockCounts
  /\ RequestKept
  /\ NoneStruckOff
  /\ owed = 1 => sem = "PDA"

(* The rest of TypeOK, the Boolean apart. *)
DataType ==
  /\ requested \in 0 .. MaxRequested
  /\ ba \in {NoMail, SMP_REQ, Notice}
  /\ out \in 0 .. OutRoom
  /\ in \in 0 .. InRoom
  /\ len \in 1 .. MaxLen
  /\ head \in 0 .. InRoom
  /\ sched \subseteq {"semaphore", "send"}
  /\ job \in [Context -> {"none", "write", "init", "read", "empty"}]
  /\ irq \in {"idle", "drain", "command", "get", "look"}

USE RoomAssumption DEF Context, Pc, Runs, Goto, HandOver, bank, mail, rings, work, ctx, int
-----------------------------------------------------------------------------
(* The steps that a task and a tasklet have in common keep the invariant. *)
LEMMA AccessInv == ASSUME IInv, NEW c \in Context, Access(c) PROVE IInv'
  <1> USE DEF IInv, Control, BankGuarded, LockCounts, AtBank, RequestKept, NoneStruckOff
  <1>1. CASE onedram_get_semaphore(c)
    BY <1>1 DEF onedram_get_semaphore
  <1>2. CASE GetFails(c)
    BY <1>2 DEF GetFails, GiveUp
  <1>3. CASE onedram_lock_with_semaphore(c)
    BY <1>3 DEF onedram_lock_with_semaphore, GiveUp
  <1>4. CASE Bank(c)
    BY <1>4 DEF Bank
  <1>5. CASE onedram_release_lock(c)
    BY <1>5 DEF onedram_release_lock, AfterRelease, NextRound
  <1>6. CASE send_interrupt_to_phone_with_semaphore(c)
    BY <1>6 DEF send_interrupt_to_phone_with_semaphore, NextRound
  <1> QED BY <1>1, <1>2, <1>3, <1>4, <1>5, <1>6 DEF Access

(* The other steps keep it. *)
LEMMA OtherInv == ASSUME IInv, Tasklets \/ Calls \/ Irq \/ Phone PROVE IInv'
  <1> USE DEF IInv, Control, BankGuarded, LockCounts, AtBank, RequestKept, NoneStruckOff
  <1>1. CASE semaphore_control_handler
    BY <1>1 DEF semaphore_control_handler, Tasklet, return_onedram_semaphore
  <1>2. CASE send_tasklet_handler
    BY <1>2 DEF send_tasklet_handler, Tasklet
  <1>6. CASE dpram_drop_data
    BY <1>6 DEF dpram_drop_data
  <1>3. CASE Calls
    BY <1>3 DEF Calls, dpram_write, dpram_init_and_report, StartTask, OpenClose,
      dpram_phone_reset
  <1>4. CASE Irq
    BY <1>4 DEF Irq, dpram_irq_handler, check_int_pin_level, command_handler, NonCommandGet,
      NonCommandFails, NonCommandLook, IrqReturn
  <1>5. CASE Phone
    BY <1>5 DEF Phone, PhoneAsks, PhoneSends, PhoneReads, PhoneMail, Sends
  <1> QED BY <1>1, <1>2, <1>3, <1>4, <1>5, <1>6 DEF Tasklets

(* Every step keeps the inductive invariant. *)
LEMMA IInvStep == ASSUME IInv, [Next]_dvars PROVE IInv'
  <1>1. CASE Next
    BY <1>1, AccessInv, OtherInv DEF Next
  <1>2. CASE UNCHANGED dvars
    BY <1>2 DEF dvars, IInv, Control, BankGuarded, LockCounts, AtBank, RequestKept,
      NoneStruckOff
  <1> QED BY <1>1, <1>2

(* It holds when the bank has just been mapped. *)
LEMMA IInvInit == Init => IInv
  BY DEF Init, IInv, Control, BankGuarded, LockCounts, AtBank, RequestKept, NoneStruckOff

(***************************************************************************)
(* The inductive invariant holds throughout: whatever the order of the     *)
(* system calls, tasklets, interrupts and mails of the phone.              *)
(***************************************************************************)
THEOREM InductiveInvariant == Spec => []IInv
  BY IInvInit, IInvStep, PTL DEF Spec
-----------------------------------------------------------------------------
(***************************************************************************)
(* Every access under onedram_lock, and the look of the interrupt handler  *)
(* at the rings, has the semaphore (the check in _memcpy).  The two        *)
(* accesses of dpram_drop_data, which takes no lock, are not among them.   *)
(***************************************************************************)
THEOREM BankAlwaysGuarded == Spec => []BankGuarded
  BY InductiveInvariant, PTL DEF IInv

(* onedram_lock is the number of contexts at the bank.                     *)
THEOREM LockAlwaysCounts == Spec => []LockCounts
  BY InductiveInvariant, PTL DEF IInv

(* No counted request of the phone is forgotten.                           *)
THEOREM RequestAlwaysKept == Spec => []RequestKept
  BY InductiveInvariant, PTL DEF IInv
-----------------------------------------------------------------------------
(***************************************************************************)
(* Type correctness, given the invariant above.                            *)
(***************************************************************************)

(* The steps of the contexts keep the types of the data. *)
LEMMA AccessType ==
  ASSUME IInv, DataType, NEW c \in Context, Access(c) PROVE DataType'
  <1> USE DEF IInv, Control, DataType
  <1>1. CASE onedram_get_semaphore(c)
    BY <1>1 DEF onedram_get_semaphore
  <1>2. CASE GetFails(c)
    BY <1>2 DEF GetFails, GiveUp
  <1>3. CASE onedram_lock_with_semaphore(c)
    <2>1. head' \in 0 .. InRoom
      BY <1>3 DEF onedram_lock_with_semaphore, GiveUp
    <2>2. job' \in [Context -> {"none", "write", "init", "read", "empty"}]
      BY <1>3 DEF onedram_lock_with_semaphore, GiveUp
    <2>3. sched' \subseteq {"semaphore", "send"}
      BY <1>3 DEF onedram_lock_with_semaphore, GiveUp
    <2> QED BY <1>3, <2>1, <2>2, <2>3 DEF onedram_lock_with_semaphore
  <1>4. CASE Bank(c)
    BY <1>4 DEF Bank
  <1>5. CASE onedram_release_lock(c)
    BY <1>5 DEF onedram_release_lock, AfterRelease, NextRound
  <1>6. CASE send_interrupt_to_phone_with_semaphore(c)
    BY <1>6 DEF send_interrupt_to_phone_with_semaphore, NextRound
  <1> QED BY <1>1, <1>2, <1>3, <1>4, <1>5, <1>6 DEF Access

(* So do all others. *)
LEMMA OtherType ==
  ASSUME IInv, DataType, Tasklets \/ Calls \/ Irq \/ Phone PROVE DataType'
  <1> USE DEF IInv, Control, DataType
  <1>1. CASE semaphore_control_handler
    <2>1. CASE Tasklet("semaphore") /\ return_onedram_semaphore
      <3>1. requested' \in 0 .. MaxRequested
        BY <2>1 DEF return_onedram_semaphore
      <3>2. job' = job \/ job' = [job EXCEPT !["soft"] = "none"]
        BY <2>1 DEF return_onedram_semaphore
      <3>3. UNCHANGED <<ba, out, in, len, irq>> /\ head' \in {0, head}
        BY <1>1, <2>1 DEF semaphore_control_handler, Tasklet, return_onedram_semaphore
      <3> QED BY <2>1, <3>1, <3>2, <3>3 DEF Tasklet
    <2>2. CASE UNCHANGED <<sched, requested>> /\ ba' = Notice /\ Goto("soft", "idle")
      BY <1>1, <2>2 DEF semaphore_control_handler
    <2> QED BY <1>1, <2>1, <2>2 DEF semaphore_control_handler
  <1>2. CASE send_tasklet_handler
    BY <1>2 DEF send_tasklet_handler, Tasklet
  <1>6. CASE dpram_drop_data
    BY <1>6 DEF dpram_drop_data
  <1>3. CASE Calls
    BY <1>3 DEF Calls, dpram_write, dpram_init_and_report, StartTask, OpenClose,
      dpram_phone_reset
  <1>4. CASE Irq
    <2>1. CASE dpram_irq_handler
      BY <2>1 DEF dpram_irq_handler
    <2>2. CASE check_int_pin_level
      BY <2>2 DEF check_int_pin_level
    <2>3. CASE command_handler
      BY <2>3 DEF command_handler, IrqReturn
    <2>4. CASE NonCommandGet
      BY <2>4 DEF NonCommandGet
    <2>5. CASE NonCommandFails
      BY <2>5 DEF NonCommandFails, IrqReturn
    <2>6. CASE NonCommandLook
      BY <2>6 DEF NonCommandLook, IrqReturn
    <2> QED BY <1>4, <2>1, <2>2, <2>3, <2>4, <2>5, <2>6 DEF Irq
  <1>5. CASE Phone
    <2>1. CASE PhoneAsks
      BY <2>1 DEF PhoneAsks
    <2>2. CASE PhoneSends
      <3>1. out' \in 0 .. OutRoom
        BY <2>2 DEF PhoneSends
      <3>2. in' \in 0 .. InRoom
        BY <2>2 DEF PhoneSends
      <3> QED BY <2>2, <3>1, <3>2 DEF PhoneSends
    <2>3. CASE PhoneReads
      BY <2>3 DEF PhoneReads
    <2> QED BY <1>5, <2>1, <2>2, <2>3 DEF Phone
  <1> QED BY <1>1, <1>2, <1>3, <1>4, <1>5, <1>6 DEF Tasklets

(* serial.tty is set and cleared by dpram_tty_open and dpram_tty_close alone. *)
OpenedOK == opened \in BOOLEAN

(* The flag "opened" is only kept or turned over. *)
LEMMA OpenedType == ASSUME OpenedOK, [Next]_dvars PROVE OpenedOK'
  <1>1. opened' = opened \/ opened' = ~opened
    BY Zenon DEF Next, Access, Tasklets, Calls, Irq, Phone, dvars,
      onedram_get_semaphore, GetFails, onedram_lock_with_semaphore, Bank,
      onedram_release_lock, send_interrupt_to_phone_with_semaphore,
      semaphore_control_handler, send_tasklet_handler, dpram_drop_data,
      dpram_write, dpram_init_and_report, StartTask, OpenClose, dpram_phone_reset,
      dpram_irq_handler, check_int_pin_level, command_handler, NonCommandGet,
      NonCommandFails, NonCommandLook, PhoneAsks, PhoneSends, PhoneReads
  <1> QED BY <1>1, Zenon DEF OpenedOK

(* The variables of the driver keep their types: in particular the rings   *)
(* never hold more than they have room for.                                *)
THEOREM TypeCorrect == Spec => []TypeOK
  <1>1. Init => DataType /\ OpenedOK
    <2>1. Init => DataType
      BY DEF Init, DataType
    <2>2. Init => OpenedOK
      BY Zenon DEF Init, OpenedOK
    <2> QED BY <2>1, <2>2
  <1>2. ASSUME IInv, DataType, [Next]_dvars PROVE DataType'
    <2>1. CASE Next
      BY <1>2, <2>1, AccessType, OtherType DEF Next
    <2>2. CASE UNCHANGED dvars
      BY <1>2, <2>2 DEF dvars, DataType
    <2> QED BY <1>2, <2>1, <2>2
  <1>3. IInv /\ DataType /\ OpenedOK => TypeOK
    <2>1. ASSUME IInv PROVE lock \in 0 .. 2
      BY <2>1 DEF IInv, LockCounts, AtBank
    <2> QED BY <2>1, Zenon DEF IInv, Control, DataType, OpenedOK, TypeOK
  <1> QED
    BY <1>1, <1>2, <1>3, OpenedType, InductiveInvariant, PTL DEF Spec
-----------------------------------------------------------------------------
(***************************************************************************)
(* The send tasklet runs for a mail with SEND in it and schedules itself   *)
(* again when it gets no access: SEND is in its copy of the mail as long   *)
(* as it runs, and in non_cmd while it is scheduled.  Up to the bank it    *)
(* takes it that there are bytes.                                          *)
(***************************************************************************)
SoftReads ==
  /\ pc["soft"] \in {"idle", "reply", "drop", "tail"} => job["soft"] = "none"
  /\ pc["soft"] \notin {"idle", "reply", "drop", "tail"} => "SEND" \in mask /\ "SEND" \in non_cmd
  /\ pc["soft"] \in {"get", "lock", "test", "bank"} => job["soft"] = "read"
  /\ pc["soft"] \in {"release", "honour", "send", "mail", "mail_only"} =>
       job["soft"] \in {"read", "empty"}
  /\ "send" \in sched => "SEND" \in non_cmd

NoticeInv == Control /\ DataType /\ SoftReads

(* The steps of a context at the bank keep SoftReads. *)
LEMMA AccessReads == ASSUME NoticeInv, NEW c \in Context, Access(c) PROVE SoftReads'
  <1> USE DEF NoticeInv, Control, DataType, SoftReads
  <1>1. CASE onedram_get_semaphore(c)
    BY <1>1 DEF onedram_get_semaphore
  <1>2. CASE GetFails(c)
    BY <1>2 DEF GetFails, GiveUp
  <1>3. CASE onedram_lock_with_semaphore(c)
    BY <1>3 DEF onedram_lock_with_semaphore, GiveUp
  <1>4. CASE Bank(c)
    BY <1>4 DEF Bank
  <1>5. CASE onedram_release_lock(c)
    BY <1>5 DEF onedram_release_lock, AfterRelease, NextRound
  <1>6. CASE send_interrupt_to_phone_with_semaphore(c)
    BY <1>6 DEF send_interrupt_to_phone_with_semaphore, NextRound
  <1> QED BY <1>1, <1>2, <1>3, <1>4, <1>5, <1>6 DEF Access

(* So do tasklets, calls, interrupts and the phone. *)
LEMMA OtherReads == ASSUME NoticeInv, Tasklets \/ Calls \/ Irq \/ Phone PROVE SoftReads'
  <1> USE DEF NoticeInv, Control, DataType, SoftReads
  <1>1. CASE semaphore_control_handler
    BY <1>1 DEF semaphore_control_handler, Tasklet, return_onedram_semaphore
  <1>2. CASE send_tasklet_handler
    BY <1>2 DEF send_tasklet_handler, Tasklet
  <1>6. CASE dpram_drop_data
    BY <1>6 DEF dpram_drop_data
  <1>3. CASE Calls
    BY <1>3 DEF Calls, dpram_write, dpram_init_and_report, StartTask, OpenClose,
      dpram_phone_reset
  <1>4. CASE Irq
    BY <1>4 DEF Irq, dpram_irq_handler, check_int_pin_level, command_handler, NonCommandGet,
      NonCommandFails, NonCommandLook, IrqReturn
  <1>5. CASE Phone
    BY <1>5 DEF Phone, PhoneAsks, PhoneSends, PhoneReads
  <1> QED BY <1>1, <1>2, <1>3, <1>4, <1>5, <1>6 DEF Tasklets

(* No step of a context leaves bytes behind. *)
LEMMA AccessKeeps ==
  ASSUME NoticeInv, NEW c \in Context, Access(c), in' > 0, in' > in \/ Coming
  PROVE  Coming'
  <1> USE DEF NoticeInv, Control, DataType, SoftReads, Coming
  <1>1. CASE onedram_get_semaphore(c)
    BY <1>1 DEF onedram_get_semaphore
  <1>2. CASE GetFails(c)
    BY <1>2 DEF GetFails, GiveUp
  <1>3. CASE onedram_lock_with_semaphore(c)
    BY <1>3 DEF onedram_lock_with_semaphore, GiveUp
  <1>4. CASE Bank(c)
    BY <1>4 DEF Bank
  <1>5. CASE onedram_release_lock(c)
    BY <1>5 DEF onedram_release_lock, AfterRelease, NextRound
  <1>6. CASE send_interrupt_to_phone_with_semaphore(c)
    BY <1>6 DEF send_interrupt_to_phone_with_semaphore, NextRound
  <1> QED BY <1>1, <1>2, <1>3, <1>4, <1>5, <1>6 DEF Access

(* Nor does any other, those of Loses apart. *)
LEMMA OtherKeeps ==
  ASSUME NoticeInv, Tasklets \/ Calls \/ Irq \/ Phone, in' > 0, in' > in \/ Coming
  PROVE  Coming' \/ Loses
  <1> USE DEF NoticeInv, Control, DataType, SoftReads, Coming
  <1>1. CASE semaphore_control_handler
    BY <1>1 DEF semaphore_control_handler, Tasklet, return_onedram_semaphore
  <1>2. CASE send_tasklet_handler
    <2>1. CASE opened
      BY <1>2, <2>1 DEF send_tasklet_handler, Tasklet
    <2>2. CASE ~opened /\ sem = "PDA"
      BY <1>2, <2>2 DEF send_tasklet_handler, Tasklet
    <2>3. CASE ~opened /\ sem = "PHONE"
      BY <1>2, <2>3 DEF Loses
    <2> QED BY <2>1, <2>2, <2>3
  <1>6. CASE dpram_drop_data
    <2>1. CASE pc["soft"] = "drop"
      BY <1>6, <2>1 DEF dpram_drop_data
    <2>2. CASE pc["soft"] = "tail"
      <3>1. CASE sem = "PHONE" \/ in # head
        BY <1>6, <2>2, <3>1 DEF Loses
      <3>2. CASE sem = "PDA" /\ in = head
        <4>1. in' = 0 % (InRoom + 1)
          BY <1>6, <2>2, <3>2 DEF dpram_drop_data
        <4>2. 0 % (InRoom + 1) = 0
          OBVIOUS
        <4> QED BY <4>1, <4>2
      <3> QED BY <3>1, <3>2
    <2> QED BY <1>6, <2>1, <2>2 DEF dpram_drop_data
  <1>3. CASE Calls
    BY <1>3 DEF Calls, dpram_write, dpram_init_and_report, StartTask, OpenClose,
      dpram_phone_reset
  <1>4. CASE Irq
    <2>1. CASE dpram_irq_handler
      BY <2>1 DEF dpram_irq_handler
    <2>2. CASE check_int_pin_level
      BY <2>2 DEF check_int_pin_level, Loses
    <2>3. CASE command_handler
      BY <2>3 DEF command_handler, IrqReturn
    <2>4. CASE NonCommandGet
      BY <2>4 DEF NonCommandGet
    <2>5. CASE NonCommandFails
      BY <2>5 DEF Loses
    <2>6. CASE NonCommandLook
      BY <2>6 DEF NonCommandLook, IrqReturn
    <2> QED BY <1>4, <2>1, <2>2, <2>3, <2>4, <2>5, <2>6 DEF Irq
  <1>5. CASE Phone
    <2>1. CASE PhoneAsks
      BY <2>1 DEF PhoneAsks, Sends, PhoneMail
    <2>2. CASE PhoneSends
      <3>1. ab' = {"SEND"} \/ ab' = {"SEND", "REQ_ACK"} \/ ab' = {"RES_ACK"}
        BY <2>2 DEF PhoneSends, Sends, PhoneMail
      <3>2. ab' # NoMail /\ "COMMAND" \notin ab'
        BY <3>1 DEF NoMail
      <3> QED BY <3>2
    <2>3. CASE PhoneReads
      BY <2>3 DEF PhoneReads, PhoneMail
    <2> QED BY <1>5, <2>1, <2>2, <2>3 DEF Phone
  <1> QED BY <1>1, <1>2, <1>3, <1>4, <1>5, <1>6 DEF Tasklets

(***************************************************************************)
(* Bytes of the phone are left without a notice, an interrupt handler or a *)
(* tasklet on the way to them by the steps of Loses and by no others.      *)
(***************************************************************************)
THEOREM NoticeAlwaysKept == Spec => NoticeKept
  <1>1. Init => SoftReads
    BY DEF Init, SoftReads
  <1>2. ASSUME NoticeInv, [Next]_dvars PROVE SoftReads'
    <2>1. CASE Next
      BY <1>2, <2>1, AccessReads, OtherReads DEF Next
    <2>2. CASE UNCHANGED dvars
      BY <1>2, <2>2 DEF dvars, NoticeInv, SoftReads
    <2> QED BY <1>2, <2>1, <2>2
  <1>3. ASSUME NoticeInv, [Next]_dvars
        PROVE  [in' > 0 /\ (in' > in \/ Coming) => Coming' \/ Loses]_dvars
    <2>1. CASE Next
      BY <1>3, <2>1, AccessKeeps, OtherKeeps DEF Next
    <2>2. CASE UNCHANGED dvars
      BY <2>2
    <2> QED BY <1>3, <2>1, <2>2
  <1>4. IInv /\ TypeOK => Control /\ DataType
    BY DEF IInv, TypeOK, DataType
  <1>5. Control /\ DataType /\ SoftReads => NoticeInv
    BY DEF NoticeInv
  <1> QED
    BY <1>1, <1>2, <1>3, <1>4, <1>5, TypeCorrect, InductiveInvariant, PTL DEF Spec, NoticeKept
=============================================================================
