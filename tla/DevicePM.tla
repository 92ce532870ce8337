------------------------------ MODULE DevicePM ------------------------------
(***************************************************************************)
(* The device walks of system suspend: dpm_prepare, dpm_suspend,           *)
(* dpm_suspend_noirq and their undoing in Kernel/drivers/base/power/main.c,*)
(* in the order in which Kernel/kernel/power/suspend.c calls them, against *)
(* devices that are registered and removed meanwhile.                      *)
(*                                                                         *)
(* Every walk but the noirq ones drops dpm_list_mtx around the callback of *)
(* a device; those are the moments at which device_pm_add and              *)
(* device_pm_remove run.                                                   *)
(***************************************************************************)
EXTENDS KernelList, FiniteSets

CONSTANTS
  Device,      \* the struct device objects
  Parent,      \* dev->parent, a function on Device; NoDevice for none
  NoDevice,
  MaxCycle     \* bound on the suspends of a run

ASSUME DeviceAssumption ==
  /\ NoDevice \notin Device
  /\ Parent \in [Device -> Device \union {NoDevice}]
  /\ MaxCycle \in Nat

VARIABLES
  phase,    \* the walk in progress
  list,     \* dpm_list
  local,    \* the list on the stack of the walk, where devices done go
  cur,      \* the device whose callback runs, with dpm_list_mtx released
  status,   \* dev->power.status
  started,  \* transition_started
  cb,       \* history: how far the callbacks of a device have got
  cycle,    \* suspends begun
  astray    \* history: the devices whose registration dpm_complete had overtaken

vars == <<phase, list, local, cur, status, started, cb, cycle, astray>>

Phase == {"idle", "prepare", "suspend", "noirq", "asleep", "resume", "complete"}

(* enum dpm_state, in its order *)
ON == 1
PREPARING == 2
RESUMING == 3
SUSPENDING == 4
OFF == 5
OFF_IRQ == 6

Registered == ToSet(list) \union ToSet(local)

(* A callback must find the device where the one before left it. *)
Called(d, from, to) == [cb EXCEPT ![d] = IF @ \in from THEN to ELSE "misused"]

Init ==
  /\ phase = "idle"
  /\ list = <<>>
  /\ local = <<>>
  /\ cur = NoDevice
  /\ status = [d \in Device |-> ON]
  /\ started = FALSE
  /\ cb = [d \in Device |-> "on"]
  /\ cycle = 0
  /\ astray = {}
-----------------------------------------------------------------------------
(***************************************************************************)
(* Other threads.  The noirq walks hold dpm_list_mtx to the end, and no    *)
(* other thread runs in them or in the sleep.                              *)
(***************************************************************************)
MutexFree ==
  \/ phase = "idle"
  \/ phase \notin {"noirq", "asleep"} /\ cur # NoDevice

(* A parent must not be asleep, and a device without parent is not         *)
(* registered during a transition.  device_pm_add warns of a caller that   *)
(* breaks either rule and links the device all the same; the callers of    *)
(* the model keep the rules (include/linux/pm.h, prepare: "Prevent new     *)
(* children of the device from being registered").  The walk holds a       *)
(* reference to cur, so that object is not used again yet.                 *)
(*                                                                         *)
(* dpm_complete visits a new device next.  Where it has been at the parent *)
(* already, or is there, list_move then puts the child before the parent.  *)
device_pm_add(d) ==
  /\ MutexFree
  /\ d \notin Registered \union {cur}
  /\ IF Parent[d] = NoDevice THEN ~started
     ELSE Parent[d] \in Registered /\ status[Parent[d]] < SUSPENDING
  /\ list' = Append(list, d)
  /\ status' = [status EXCEPT ![d] = ON]
  /\ cb' = [cb EXCEPT ![d] = "on"]
  /\ astray' = IF phase = "complete" /\ Parent[d] \in ToSet(local) \union {cur}
               THEN astray \union {d} ELSE astray \ {d}
  /\ UNCHANGED <<phase, local, cur, started, cycle>>

(* A driver removes a device after the children of it. *)
device_pm_remove(d) ==
  /\ MutexFree
  /\ d \in Registered
  /\ \A c \in Registered : Parent[c] # d
  /\ list' = list_del(list, d)
  /\ local' = list_del(local, d)
  /\ UNCHANGED <<phase, cur, status, started, cb, cycle, astray>>
-----------------------------------------------------------------------------
(* Mutant: list_move_tail where the walk from the back needs list_move. *)
MoveHeadTail == IF cur \in ToSet(list) THEN Append(local, cur) ELSE local

(* list_move_tail and list_move of cur to local, unless it was removed. *)
MoveTail == IF cur \in ToSet(list) THEN Append(local, cur) ELSE local
MoveHead == IF cur \in ToSet(list) THEN <<cur>> \o local ELSE local

(* enter_state has come to dpm_suspend_start. *)
dpm_suspend_start ==
  /\ phase = "idle"
  /\ cycle < MaxCycle
  /\ cycle' = cycle + 1
  /\ phase' = "prepare"
  /\ started' = TRUE
  /\ UNCHANGED <<list, local, cur, status, cb, astray>>

PrepareCall ==
  /\ phase = "prepare"
  /\ cur = NoDevice
  /\ list # <<>>
  /\ cur' = Head(list)
  /\ status' = [status EXCEPT ![Head(list)] = PREPARING]
  /\ UNCHANGED <<phase, list, local, started, cb, cycle, astray>>

PrepareOk ==
  /\ phase = "prepare"
  /\ cur # NoDevice
  /\ status' = [status EXCEPT ![cur] = SUSPENDING]
  /\ cb' = Called(cur, {"on"}, "prepared")
  /\ local' = MoveTail
  /\ list' = list_del(list, cur)
  /\ cur' = NoDevice
  /\ UNCHANGED <<phase, started, cycle, astray>>

(* -EAGAIN: the device stays where it is and is tried again.  For any      *)
(* other error suspend_devices_and_enter goes to dpm_resume_end.           *)
PrepareFail(again) ==
  /\ phase = "prepare"
  /\ cur # NoDevice
  /\ status' = [status EXCEPT ![cur] = ON]
  /\ cur' = NoDevice
  /\ \/ again /\ UNCHANGED <<phase, list, local>>
     \/ ~again /\ phase' = "resume" /\ list' = local \o list /\ local' = <<>>
  /\ UNCHANGED <<started, cb, cycle, astray>>

PrepareDone ==
  /\ phase = "prepare"
  /\ cur = NoDevice
  /\ list = <<>>
  /\ list' = local
  /\ local' = <<>>
  /\ phase' = "suspend"
  /\ UNCHANGED <<cur, status, started, cb, cycle, astray>>

(* Mutant: devices are suspended from the head of dpm_list. *)
SuspendCallFirst ==
  /\ phase = "suspend"
  /\ cur = NoDevice
  /\ list # <<>>
  /\ cur' = Head(list)
  /\ UNCHANGED <<phase, list, local, status, started, cb, cycle, astray>>

SuspendCall ==
  /\ phase = "suspend"
  /\ cur = NoDevice
  /\ list # <<>>
  /\ cur' = Last(list)
  /\ UNCHANGED <<phase, list, local, status, started, cb, cycle, astray>>

SuspendOk ==
  /\ phase = "suspend"
  /\ cur # NoDevice
  /\ status' = [status EXCEPT ![cur] = OFF]
  /\ cb' = Called(cur, {"prepared"}, "suspended")
  /\ local' = MoveHead
  /\ list' = list_del(list, cur)
  /\ cur' = NoDevice
  /\ UNCHANGED <<phase, started, cycle, astray>>

(* Mutant: the device that failed is marked as off. *)
SuspendFailOff ==
  /\ phase = "suspend"
  /\ cur # NoDevice
  /\ status' = [status EXCEPT ![cur] = OFF]
  /\ list' = list \o local
  /\ local' = <<>>
  /\ cur' = NoDevice
  /\ phase' = "resume"
  /\ UNCHANGED <<started, cb, cycle, astray>>

(* ftm_sleep, which ignores the error, is set nowhere in the tree. *)
SuspendFail ==
  /\ phase = "suspend"
  /\ cur # NoDevice
  /\ list' = list \o local
  /\ local' = <<>>
  /\ cur' = NoDevice
  /\ phase' = "resume"
  /\ UNCHANGED <<status, started, cb, cycle, astray>>

SuspendDone ==
  /\ phase = "suspend"
  /\ cur = NoDevice
  /\ list = <<>>
  /\ list' = local
  /\ local' = <<>>
  /\ phase' = "noirq"
  /\ UNCHANGED <<cur, status, started, cb, cycle, astray>>

(* Mutant: the status of the devices is left at DPM_OFF. *)
dpm_suspend_noirq_off(bad) ==
  /\ phase = "noirq"
  /\ bad = NoDevice
  /\ cb' = [d \in Device |-> IF d \in ToSet(list) THEN "late" ELSE cb[d]]
  /\ phase' = "asleep"
  /\ UNCHANGED <<list, local, cur, status, started, cycle, astray>>

(* Walks back from the end of dpm_list until a callback fails, at bad; the *)
(* devices behind bad are then brought back by dpm_resume_noirq.           *)
dpm_suspend_noirq(bad) ==
  LET i == IF bad = NoDevice THEN 0 ELSE CHOOSE i \in DOMAIN list : list[i] = bad
      behind == {list[j] : j \in i + 1 .. Len(list)}
  IN  /\ phase = "noirq"
      /\ bad # NoDevice => bad \in ToSet(list)
      /\ status' = [d \in Device |-> IF d \in behind THEN IF i = 0 THEN OFF_IRQ ELSE OFF
                                     ELSE status[d]]
      /\ cb' = [d \in Device |-> IF d \notin behind THEN cb[d]
                                 ELSE IF cb[d] # "suspended" THEN "misused"
                                 ELSE IF i = 0 THEN "late" ELSE "suspended"]
      /\ phase' = IF i = 0 THEN "asleep" ELSE "resume"
      /\ started' = (started /\ i = 0)
      /\ UNCHANGED <<list, local, cur, cycle, astray>>

(* After the sleep, or when suspend_enter gave it up. *)
dpm_resume_noirq ==
  /\ phase = "asleep"
  /\ phase' = "resume"
  /\ started' = FALSE
  /\ status' = [d \in Device |-> IF d \in ToSet(list) /\ status[d] > OFF THEN OFF
                                 ELSE status[d]]
  /\ cb' = [d \in Device |-> IF d \in ToSet(list) /\ status[d] > OFF
                             THEN IF cb[d] = "late" THEN "suspended" ELSE "misused"
                             ELSE cb[d]]
  /\ UNCHANGED <<list, local, cur, cycle, astray>>
-----------------------------------------------------------------------------
ResumeCall ==
  /\ phase = "resume"
  /\ cur = NoDevice
  /\ list # <<>>
  /\ status[Head(list)] >= OFF
  /\ status' = [status EXCEPT ![Head(list)] = RESUMING]
  /\ cb' = Called(Head(list), {"suspended"}, "prepared")
  /\ cur' = Head(list)
  /\ UNCHANGED <<phase, list, local, started, cycle, astray>>

(* Mutant: a device that was only prepared is taken for done. *)
ResumeSkipOn ==
  /\ phase = "resume"
  /\ cur = NoDevice
  /\ list # <<>>
  /\ status[Head(list)] < OFF
  /\ status' = [status EXCEPT ![Head(list)] = ON]
  /\ local' = Append(local, Head(list))
  /\ list' = list_del(list, Head(list))
  /\ UNCHANGED <<phase, cur, started, cb, cycle, astray>>

(* A device that was not suspended: no callback, the mutex is kept. *)
ResumeSkip ==
  /\ phase = "resume"
  /\ cur = NoDevice
  /\ list # <<>>
  /\ status[Head(list)] < OFF
  /\ status' = [status EXCEPT ![Head(list)] = IF @ = SUSPENDING THEN RESUMING ELSE @]
  /\ local' = Append(local, Head(list))
  /\ list' = list_del(list, Head(list))
  /\ UNCHANGED <<phase, cur, started, cb, cycle, astray>>

ResumeReturn ==
  /\ phase = "resume"
  /\ cur # NoDevice
  /\ local' = MoveTail
  /\ list' = list_del(list, cur)
  /\ cur' = NoDevice
  /\ UNCHANGED <<phase, status, started, cb, cycle, astray>>

ResumeDone ==
  /\ phase = "resume"
  /\ cur = NoDevice
  /\ list = <<>>
  /\ list' = local
  /\ local' = <<>>
  /\ phase' = "complete"
  /\ started' = FALSE
  /\ UNCHANGED <<cur, status, cb, cycle, astray>>

CompleteCall ==
  /\ phase = "complete"
  /\ cur = NoDevice
  /\ list # <<>>
  /\ status[Last(list)] > ON
  /\ status' = [status EXCEPT ![Last(list)] = ON]
  /\ cb' = Called(Last(list), {"prepared"}, "on")
  /\ cur' = Last(list)
  /\ UNCHANGED <<phase, list, local, started, cycle, astray>>

CompleteSkip ==
  /\ phase = "complete"
  /\ cur = NoDevice
  /\ list # <<>>
  /\ status[Last(list)] = ON
  /\ local' = <<Last(list)>> \o local
  /\ list' = list_del(list, Last(list))
  /\ UNCHANGED <<phase, cur, status, started, cb, cycle, astray>>

CompleteReturn ==
  /\ phase = "complete"
  /\ cur # NoDevice
  /\ local' = MoveHead
  /\ list' = list_del(list, cur)
  /\ cur' = NoDevice
  /\ UNCHANGED <<phase, status, started, cb, cycle, astray>>

CompleteDone ==
  /\ phase = "complete"
  /\ cur = NoDevice
  /\ list = <<>>
  /\ list' = local
  /\ local' = <<>>
  /\ phase' = "idle"
  /\ UNCHANGED <<cur, status, started, cb, cycle, astray>>

Walk ==
  \/ PrepareCall \/ PrepareOk \/ PrepareDone
  \/ \E again \in BOOLEAN : PrepareFail(again)
  \/ SuspendCall \/ SuspendOk \/ SuspendFail \/ SuspendDone
  \/ \E bad \in Device \union {NoDevice} : dpm_suspend_noirq(bad)
  \/ dpm_resume_noirq
  \/ ResumeCall \/ ResumeSkip \/ ResumeReturn \/ ResumeDone
  \/ CompleteCall \/ CompleteSkip \/ CompleteReturn \/ CompleteDone

Next ==
  \/ \E d \in Device : device_pm_add(d) \/ device_pm_remove(d)
  \/ dpm_suspend_start
  \/ Walk

Spec == Init /\ [][Next]_vars
-----------------------------------------------------------------------------
TypeOK ==
  /\ phase \in Phase
  /\ list \in Seq(Device)
  /\ local \in Seq(Device)
  /\ cur \in Device \union {NoDevice}
  /\ status \in [Device -> ON .. OFF_IRQ]
  /\ started \in BOOLEAN
  /\ cb \in [Device -> {"on", "prepared", "suspended", "late", "misused"}]
  /\ cycle \in 0 .. MaxCycle
  /\ astray \subseteq Device

(* No device is linked twice, whatever is added and removed in a callback. *)
ListedOnce == IsInjective(list \o local)

(***************************************************************************)
(* Whatever fails, and whichever devices come and go as pm.h lets them,    *)
(* each callback finds its device where the one before left it: suspend    *)
(* follows prepare, resume is called for the devices that were suspended   *)
(* and no others, complete for those that were prepared.                   *)
(***************************************************************************)
CallbacksPaired == \A d \in Device : cb[d] # "misused"

(***************************************************************************)
(* When the transition is over, no registered device was left behind: all  *)
(* are on and all that were prepared were completed.                       *)
(***************************************************************************)
NoneLeftBehind ==
  phase = "idle" => \A d \in Registered : status[d] = ON /\ cb[d] = "on"

(***************************************************************************)
(* In the sleep every device is off.                                       *)
(***************************************************************************)
AsleepAllOff ==
  phase = "asleep" => \A d \in Registered : status[d] = OFF_IRQ /\ cb[d] = "late"

(***************************************************************************)
(* A device is off only while its children are: they are suspended first   *)
(* and resumed last, at any moment of any walk, but for the children that  *)
(* were registered behind the back of dpm_complete.                        *)
(***************************************************************************)
ChildrenFirst ==
  \A d \in Registered \ astray :
    Parent[d] \in Registered /\ status[Parent[d]] >= OFF => status[d] >= OFF

(***************************************************************************)
(* drivers/base/power/main.c: "The entries in the dpm_list list are in a   *)
(* depth first order, simply because children are guaranteed to be         *)
(* discovered after parents, and are inserted at the back of the list on   *)
(* discovery."  As written, between transitions no child comes before its  *)
(* parent.  It does not hold: "this allows new devices to be registered",  *)
(* says dpm_complete of itself, and a child that a complete callback       *)
(* registers is moved before its parent by list_move.                      *)
(***************************************************************************)
DepthFirst ==
  phase = "idle" =>
    \A i, j \in DOMAIN list : Parent[list[i]] = list[j] => j < i

(***************************************************************************)
(* What the code does keep of that order: after any number of walks and    *)
(* failures a child comes before its parent only if it was registered in   *)
(* dpm_complete, when the walk was at the parent or past it.               *)
(***************************************************************************)
OrderKept ==
  phase = "idle" =>
    \A i, j \in DOMAIN list : Parent[list[i]] = list[j] /\ list[i] \notin astray => j < i
=============================================================================
