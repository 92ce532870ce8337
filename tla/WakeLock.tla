------------------------------ MODULE WakeLock ------------------------------
(***************************************************************************)
(* Wake locks and the automatic suspend they hold off:                     *)
(* Kernel/kernel/power/wakelock.c.                                         *)
(*                                                                         *)
(* Every function of that file that touches the wake locks runs under      *)
(* list_lock with interrupts off, so each is one action here.  The suspend *)
(* work item is the exception: it drops list_lock between its steps, and   *)
(* its position is the variable susp.                                      *)
(*                                                                         *)
(* The lists active_wake_locks[] are sets at this level.  The order of the *)
(* real lists, and the walk along them, are the business of WakeLockList,  *)
(* which is checked to implement this module.                              *)
(***************************************************************************)
EXTENDS Integers

CONSTANTS
  Lock,            \* the struct wake_lock objects of the system
  IdleLock,        \* the ones of type WAKE_LOCK_IDLE
  TimerLock,       \* the ones that a handler of the timer interrupt locks with
                   \* a timeout; that interrupt is IRQF_TIMER, and so stays on
                   \* in suspend_device_irqs
  main,            \* main_wake_lock
  unknown,         \* unknown_wakeup
  MaxTimeout,      \* bound on the timeouts, in jiffies
  UnknownTimeout   \* the HZ / 2 that suspend() gives unknown_wakeup

ASSUME LockAssumption ==
  /\ IdleLock \subseteq Lock
  /\ TimerLock \subseteq Lock
  /\ main \in Lock \ IdleLock
  /\ unknown \in Lock \ (IdleLock \cup {main})
  /\ MaxTimeout \in Nat \ {0}
  /\ UnknownTimeout \in 1 .. MaxTimeout

VARIABLES
  inited,  \* locks with WAKE_LOCK_INITIALIZED
  held,    \* locks linked into active_wake_locks[] of their type
  auto,    \* locks with WAKE_LOCK_AUTO_EXPIRE
  left,    \* lock->expires - jiffies, 0 once it is not positive
  timer,   \* jiffies until expire_timer is due, -1 when it is not pending
  work,    \* suspend_work is pending on suspend_work_queue
  susp,    \* where suspend() is (see Phase)
  event    \* current_event_num # entry_event_num

vars == <<inited, held, auto, left, timer, work, susp, event>>

(***************************************************************************)
(* The phases of suspend(): not running; past has_wake_lock but not yet at *)
(* the reading of current_event_num; inside pm_suspend; past               *)
(* power_suspend_late, with the device interrupts off; asleep; back from   *)
(* pm_suspend.                                                             *)
(***************************************************************************)
Phase == {"idle", "checked", "pm", "late", "asleep", "resumed"}

Init ==
  /\ inited = {main, unknown}
  /\ held = {main}
  /\ auto = {}
  /\ left = [l \in Lock |-> 0]
  /\ timer = -1
  /\ work = FALSE
  /\ susp = "idle"
  /\ event = FALSE
-----------------------------------------------------------------------------
(***************************************************************************)
(* has_wake_lock_locked(WAKE_LOCK_SUSPEND), over lists h, flags a and      *)
(* times lf: the locks without timeout, the value returned (-1, or the     *)
(* largest time left), and the expired locks it takes off the list, which  *)
(* it only does when it meets no lock without timeout.                     *)
(***************************************************************************)
Untimed(h, a) == (h \ IdleLock) \ a

HasWakeLock(h, a, lf, ret) ==
  \/ /\ Untimed(h, a) # {}
     /\ ret = -1
  \/ /\ Untimed(h, a) = {}
     /\ ret \in {0} \union {lf[l] : l \in h \ IdleLock}
     /\ \A l \in h \ IdleLock : lf[l] <= ret

Expired(h, a, lf) ==
  IF Untimed(h, a) # {} THEN {} ELSE {l \in h \ IdleLock : lf[l] = 0}

(* expire_wake_lock on every lock that has_wake_lock_locked finds expired. *)
ExpireFrom(h, a, lf) ==
  /\ held' = h \ Expired(h, a, lf)
  /\ auto' = a \ Expired(h, a, lf)

(* Mutant: leaves a pending expire_timer alone.  *)
RearmKeepsTimer(ret) ==
  /\ timer' = IF ret > 0 /\ timer < 0 THEN ret ELSE IF ret > 0 THEN timer ELSE -1
  /\ work' = IF ret = 0 THEN TRUE ELSE work

(* What wake_lock_internal and wake_unlock do with that value. *)
Rearm(ret) ==
  /\ timer' = IF ret > 0 THEN ret ELSE -1
  /\ work' = IF ret = 0 THEN TRUE ELSE work
-----------------------------------------------------------------------------
(***************************************************************************)
(* The operations drivers and user space perform on a lock.                *)
(***************************************************************************)

(* From power_suspend_late on the suspend thread does not sleep and device *)
(* interrupts are off: no task runs, and no handler but the timers'.       *)
TasksRun == susp \notin {"late", "asleep"}

wake_lock_init(l) ==
  /\ TasksRun
  /\ l \notin inited
  /\ inited' = inited \union {l}
  /\ auto' = auto \ {l}
  /\ UNCHANGED <<held, left, timer, work, susp, event>>

(* The callers in the tree destroy a lock that is free or that has a       *)
(* timeout (evdev_release); none destroys one it holds without timeout.    *)
wake_lock_destroy(l) ==
  /\ TasksRun
  /\ l \in inited \ {main, unknown}
  /\ l \in held => l \in auto
  /\ inited' = inited \ {l}
  /\ held' = held \ {l}
  /\ UNCHANGED <<auto, left, timer, work, susp, event>>

wake_lock_internal(l, timeout, has_timeout) ==
  LET h == held \union {l}
      a == IF has_timeout THEN auto \union {l} ELSE auto \ {l}
      lf == [left EXCEPT ![l] = IF has_timeout THEN timeout ELSE 0]
  IN  /\ l \in inited
      /\ left' = lf
      /\ \/ /\ l \in IdleLock
            /\ held' = h
            /\ auto' = a
            /\ UNCHANGED <<timer, work, event>>
         \/ /\ l \notin IdleLock
            /\ has_timeout
            /\ \E ret \in -1 .. MaxTimeout :
                 HasWakeLock(h, a, lf, ret) /\ Rearm(ret)
            /\ ExpireFrom(h, a, lf)
            /\ event' = TRUE
         \/ /\ l \notin IdleLock
            /\ ~has_timeout
            /\ held' = h
            /\ auto' = a
            /\ Rearm(-1)
            /\ event' = TRUE
      /\ UNCHANGED inited

wake_lock(l) ==
  /\ TasksRun
  /\ wake_lock_internal(l, 0, FALSE)
  /\ UNCHANGED susp

wake_lock_timeout(l, timeout) ==
  /\ TasksRun \/ (susp = "late" /\ l \in TimerLock)
  /\ wake_lock_internal(l, timeout, TRUE)
  /\ UNCHANGED susp

wake_unlock(l) ==
  LET h == held \ {l}
      a == auto \ {l}
  IN  /\ TasksRun
      /\ l \in inited
      /\ \/ /\ l \in IdleLock
            /\ held' = h
            /\ auto' = a
            /\ UNCHANGED <<timer, work>>
         \/ /\ l \notin IdleLock
            /\ \E ret \in -1 .. MaxTimeout :
                 HasWakeLock(h, a, left, ret) /\ Rearm(ret)
            /\ ExpireFrom(h, a, left)
      /\ UNCHANGED <<inited, left, susp, event>>
-----------------------------------------------------------------------------
(***************************************************************************)
(* Time, and the expire timer.  Ticks may pass while the timer is due but  *)
(* its softirq has not run yet.                                            *)
(***************************************************************************)
Tick ==
  /\ susp # "asleep"
  /\ left' = [l \in Lock |-> IF left[l] > 0 THEN left[l] - 1 ELSE 0]
  /\ timer' = IF timer > 0 THEN timer - 1 ELSE timer
  /\ UNCHANGED <<inited, held, auto, work, susp, event>>

(* Mutant: the timer expires the locks and does not queue suspend_work. *)
expire_wake_locks_quiet ==
  /\ susp # "asleep"
  /\ timer = 0
  /\ timer' = -1
  /\ ExpireFrom(held, auto, left)
  /\ UNCHANGED <<inited, left, work, susp, event>>

expire_wake_locks ==
  /\ susp # "asleep"
  /\ timer = 0
  /\ timer' = -1
  /\ \E ret \in -1 .. MaxTimeout :
       HasWakeLock(held, auto, left, ret) /\ work' = IF ret = 0 THEN TRUE ELSE work
  /\ ExpireFrom(held, auto, left)
  /\ UNCHANGED <<inited, left, susp, event>>
-----------------------------------------------------------------------------
(***************************************************************************)
(* suspend(), on the single thread of suspend_work_queue, and the parts of *)
(* pm_suspend that look at the wake locks.                                 *)
(***************************************************************************)

(* has_wake_lock, and where suspend() goes when it is zero and non-zero. *)
has_wake_lock(ifFree, ifHeld) ==
  /\ \E ret \in -1 .. MaxTimeout :
       /\ HasWakeLock(held, auto, left, ret)
       /\ susp' = IF ret = 0 THEN ifFree ELSE ifHeld
  /\ ExpireFrom(held, auto, left)

SuspendCheck ==
  /\ susp = "idle"
  /\ work
  /\ work' = FALSE
  /\ has_wake_lock("checked", "idle")
  /\ UNCHANGED <<inited, left, timer, event>>

SuspendEntry ==
  /\ susp = "checked"
  /\ susp' = "pm"
  /\ event' = FALSE
  /\ UNCHANGED <<inited, held, auto, left, timer, work>>

(* The look try_to_freeze_tasks takes while tasks are left to freeze. *)
FreezeCheck ==
  /\ susp = "pm"
  /\ has_wake_lock("pm", "resumed")
  /\ UNCHANGED <<inited, left, timer, work, event>>

(* Mutant: power_suspend_late without its look at the locks. *)
power_suspend_late_blind ==
  /\ susp = "pm"
  /\ susp' = "late"
  /\ UNCHANGED <<inited, held, auto, left, timer, work, event>>

power_suspend_late ==
  /\ susp = "pm"
  /\ has_wake_lock("late", "resumed")
  /\ UNCHANGED <<inited, left, timer, work, event>>

(* Any other failure of pm_suspend, before or after power_suspend_late. *)
PmFail ==
  /\ susp \in {"pm", "late"}
  /\ susp' = "resumed"
  /\ UNCHANGED <<inited, held, auto, left, timer, work, event>>

PmEnter ==
  /\ susp = "late"
  /\ susp' = "asleep"
  /\ UNCHANGED <<inited, held, auto, left, timer, work, event>>

PmWake ==
  /\ susp = "asleep"
  /\ susp' = "resumed"
  /\ UNCHANGED <<inited, held, auto, left, timer, work, event>>

(* Mutant: suspend() returns without unknown_wakeup. *)
SuspendExitPlain ==
  /\ susp = "resumed"
  /\ susp' = "idle"
  /\ UNCHANGED <<inited, held, auto, left, timer, work, event>>

SuspendExit ==
  /\ susp = "resumed"
  /\ susp' = "idle"
  /\ \/ event /\ UNCHANGED <<inited, held, auto, left, timer, work, event>>
     \/ ~event /\ wake_lock_internal(unknown, UnknownTimeout, TRUE)

PmSuspend ==
  \/ SuspendEntry \/ FreezeCheck \/ power_suspend_late
  \/ PmFail \/ PmEnter \/ PmWake \/ SuspendExit

(* unknown_wakeup is private to suspend(); main_wake_lock belongs to       *)
(* earlysuspend.c, which neither destroys it nor gives it a timeout.       *)
LockOp(l) ==
  \/ wake_lock(l)
  \/ wake_unlock(l)
  \/ /\ l # main
     /\ \/ wake_lock_init(l)
        \/ wake_lock_destroy(l)
        \/ \E t \in 0 .. MaxTimeout : wake_lock_timeout(l, t)

Drivers == \E l \in Lock \ {unknown} : LockOp(l)

Kernel == Tick \/ expire_wake_locks \/ SuspendCheck \/ PmSuspend

Next == Drivers \/ Kernel

Spec == Init /\ [][Next]_vars

(***************************************************************************)
(* Time passes, softirqs run, and the thread of suspend_work_queue is      *)
(* scheduled, so each of its steps is taken; drivers owe nothing.          *)
(***************************************************************************)
Fairness ==
  /\ WF_vars(Tick)
  /\ WF_vars(expire_wake_locks)
  /\ WF_vars(SuspendCheck)
  /\ WF_vars(SuspendEntry)
  /\ WF_vars(power_suspend_late \/ PmFail)
  /\ WF_vars(PmEnter \/ PmFail)
  /\ WF_vars(PmWake)
  /\ WF_vars(SuspendExit)

FairSpec == Spec /\ Fairness
-----------------------------------------------------------------------------
TypeOK ==
  /\ inited \subseteq Lock
  /\ held \subseteq inited
  /\ auto \subseteq Lock
  /\ left \in [Lock -> 0 .. MaxTimeout]
  /\ timer \in -1 .. MaxTimeout
  /\ work \in BOOLEAN
  /\ susp \in Phase
  /\ event \in BOOLEAN

(* The locks that hold off suspend. *)
Blocking == held \ IdleLock

(***************************************************************************)
(* While only locks with a timeout hold off suspend, expire_timer is       *)
(* pending and is not due before the last of them runs out: when it fires  *)
(* there is nothing left to wait for (mod_timer in wake_lock_internal and  *)
(* wake_unlock; no other path may take a lock off without it).             *)
(***************************************************************************)
TimerCovers ==
  Untimed(held, auto) = {} =>
    \A l \in Blocking : left[l] > 0 => timer >= left[l]

(***************************************************************************)
(* Suspend is never forgotten: when no lock without timeout is held, then  *)
(* the expire timer is pending, or suspend_work is queued, or suspend() is *)
(* under way and has seen no event (so that it will arm the timer itself,  *)
(* with unknown_wakeup, on its way out).                                   *)
(***************************************************************************)
SuspendNotLost ==
  Untimed(held, auto) = {} =>
    \/ timer >= 0
    \/ work
    \/ susp = "checked"
    \/ susp # "idle" /\ ~event

(***************************************************************************)
(* The look power_suspend_late takes at the locks decides: nothing that    *)
(* happens between it and the sleep makes a lock active, except a timer    *)
(* handler that locks one, as alarm_triggered of alarm-dev.c does: that    *)
(* lock does not keep what include/linux/wakelock.h says, that it          *)
(* "prevents the system from entering suspend ... when active".            *)
(***************************************************************************)
AsleepTimerLocksOnly == susp = "asleep" => Blocking \subseteq TimerLock

(***************************************************************************)
(* Once every step is the kernel's own (time, expire_timer, suspend()) and *)
(* no lock without timeout is held, the kernel goes on trying to suspend:  *)
(* the timeouts run out, the timer fires, suspend() is queued and gets as  *)
(* far as pm_suspend, again and again, whatever becomes of each attempt.   *)
(* A driver's wake_unlock of a lock that is not held does what the timer   *)
(* does and may go on; a driver that takes a lock for ever may not.        *)
(***************************************************************************)
SuspendRetried ==
  <>[][Kernel]_vars => []<>(susp = "pm" \/ Untimed(held, auto) # {})
=============================================================================
