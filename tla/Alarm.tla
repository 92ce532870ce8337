------------------------------- MODULE Alarm --------------------------------
(***************************************************************************)
(* The alarm driver: the alarm queues of drivers/rtc/alarm.c with their    *)
(* hrtimers, the wall clock set through them, the RTC alarm that wakes the *)
(* system from suspend, and the /dev/alarm interface of alarm-dev.c above. *)
(*                                                                         *)
(* alarm-dev.c is the only user of the queues and has one alarm of each    *)
(* type.  One processor, no preemption: what runs with a spinlock held, or *)
(* without sleeping, is one step; only a timer of a queue that is not      *)
(* stopped could come between the sections of alarm_set_rtc.  A tick is a  *)
(* second.                                                                 *)
(***************************************************************************)
EXTENDS Integers, FiniteSets

CONSTANTS
  Types,        \* the types of alarm in use
  None,         \* no time
  MaxTime,      \* bound on the time since boot
  AlarmTimes,   \* the times alarms are set to
  WallTimes,    \* the wall times user space sets
  RefusedTime,  \* whether do_settimeofday may refuse one (tv_nsec)
  SlowDevices   \* whether the devices suspended after the alarm driver
                \* may take longer than the HZ its wake lock lasts

Wakeup == {"RTC_WAKEUP", "ELAPSED_REALTIME_WAKEUP"}
Elapsed == {"ELAPSED_REALTIME_WAKEUP", "ELAPSED_REALTIME"}
AllTypes == Wakeup \cup Elapsed \cup {"RTC", "SYSTEMTIME"}

ASSUME AlarmAssumption ==
  /\ Types \subseteq AllTypes
  /\ MaxTime \in Nat
  /\ WallTimes \subseteq Nat /\ AlarmTimes \subseteq Nat
  /\ None \notin Int
  /\ RefusedTime \in BOOLEAN /\ SlowDevices \in BOOLEAN

VARIABLES
  boot,         \* history: time since boot, time asleep included
  mono, wall,   \* CLOCK_MONOTONIC and CLOCK_REALTIME
  delta,        \* of the two ELAPSED_REALTIME queues
  queue,        \* expiry of the alarm of each type, None when not queued
  armed, expires,   \* hrtimers: those started, and _expires of each
  rtc, rtc_rings,   \* wall time the RTC alarm is set to; its interrupt
  suspended, rtc_lock,                \* alarm.c
  opened, enabled, pending, wait_pending, alarm_lock,   \* alarm-dev.c
  waiter,       \* the thread in ANDROID_ALARM_WAIT
  setter,       \* the thread in alarm_set_rtc
  phase         \* how far the system is on its way into suspend

clocks == <<boot, mono, wall, delta>>
timers == <<queue, armed, expires>>
rtcVars == <<rtc, rtc_rings>>
dev == <<opened, enabled, pending, wait_pending, alarm_lock>>
vars == <<clocks, timers, rtcVars, suspended, rtc_lock, dev, waiter, setter, phase>>

TIME_CHANGE == "TIME_CHANGE"
LockState == {"off", "timed", "held"}
Running == phase = "run"
IrqsOn == phase # "asleep"

Init ==
  /\ boot = 0 /\ mono = 0
  /\ wall \in WallTimes /\ delta = wall
  /\ queue = [t \in Types |-> None]
  /\ armed = {} /\ expires = [t \in Types |-> 0]
  /\ rtc = None /\ rtc_rings = FALSE
  /\ suspended = FALSE /\ rtc_lock = "off"
  /\ opened = FALSE /\ enabled = {} /\ pending = {}
  /\ wait_pending = FALSE /\ alarm_lock = "off"
  /\ waiter = "idle" /\ setter = "idle"
  /\ phase = "run"
-----------------------------------------------------------------------------
(* The wall time at which an alarm set to e is due, for a delta of d.  The *)
(* SYSTEMTIME queue has a timer on the monotonic clock.                    *)
TimerFor(t, e, d) == IF t \in Elapsed THEN d + e ELSE e

Clock(t) == IF t = "SYSTEMTIME" THEN mono ELSE wall

Due(t) == queue[t] # None /\ Clock(t) >= TimerFor(t, queue[t], delta)

(* Mutant: a timer that runs already is left alone. *)
update_timers_once(S, running, q, d, susp) ==
  LET start == {t \in S \ armed : q[t] # None /\ ~(t \in Wakeup /\ susp)} IN
  /\ armed' = running \cup start
  /\ expires' = [t \in Types |-> IF t \in start THEN TimerFor(t, q[t], d) ELSE expires[t]]

(* update_timer_locked for the queues S, once the timers running, the      *)
(* queues and delta are these; for the wake lock see UnlockRtc.            *)
update_timers(S, running, q, d, susp) ==
  LET start == {t \in S : q[t] # None /\ ~(t \in Wakeup /\ susp)} IN
  /\ armed' = running \cup start
  /\ expires' = [t \in Types |-> IF t \in start THEN TimerFor(t, q[t], d) ELSE expires[t]]

(* rtc_lock after update_timer_locked(base, true): the queue is empty. *)
UnlockRtc(S) == IF S \cap Wakeup # {} /\ ~suspended THEN "off" ELSE rtc_lock

(* ANDROID_ALARM_SET, and SET_AND_WAIT before it falls through to WAIT. *)
alarm_set(t, e) ==
  /\ Running
  /\ opened' = TRUE
  /\ enabled' = enabled \cup {t}
  /\ queue' = [queue EXCEPT ![t] = e]
  /\ update_timers({t}, armed, queue', delta, suspended)
  /\ UNCHANGED <<clocks, rtcVars, suspended, rtc_lock, pending, wait_pending, alarm_lock,
                 waiter, setter, phase>>

(* ANDROID_ALARM_CLEAR; the hrtimer is left running. *)
alarm_clear(t) ==
  /\ Running
  /\ opened' = TRUE
  /\ enabled' = enabled \ {t}
  /\ queue' = [queue EXCEPT ![t] = None]
  /\ rtc_lock' = IF queue[t] # None THEN UnlockRtc({t}) ELSE rtc_lock
  /\ pending' = pending \ {t}
  /\ alarm_lock' = IF pending # {} /\ pending' = {} /\ ~wait_pending THEN "off" ELSE alarm_lock
  /\ UNCHANGED <<clocks, armed, expires, rtcVars, suspended, wait_pending, waiter, setter, phase>>

(* ANDROID_ALARM_WAIT up to wait_event_interruptible: the acknowledgement  *)
(* of what the call before it returned.                                    *)
alarm_wait ==
  /\ Running /\ waiter = "idle"
  /\ opened' = TRUE
  /\ waiter' = "wait"
  /\ IF pending = {} /\ wait_pending
       THEN alarm_lock' = "off" /\ wait_pending' = FALSE
       ELSE UNCHANGED <<alarm_lock, wait_pending>>
  /\ UNCHANGED <<clocks, timers, rtcVars, suspended, rtc_lock, enabled, pending, setter, phase>>

(* The rest of it: pending alarms are reported. *)
alarm_wait_return ==
  /\ Running /\ waiter = "wait" /\ pending # {}
  /\ waiter' = "idle"
  /\ wait_pending' = TRUE /\ pending' = {}
  /\ UNCHANGED <<clocks, timers, rtcVars, suspended, rtc_lock, opened, enabled, alarm_lock,
                 setter, phase>>

(* A signal ends the wait. *)
alarm_wait_interrupted ==
  /\ Running /\ waiter = "wait"
  /\ waiter' = "idle"
  /\ UNCHANGED <<clocks, timers, rtcVars, suspended, rtc_lock, dev, setter, phase>>

(* Mutant: an acknowledgement still due is forgotten, with the lock held. *)
ReleaseLockPending == IF pending # {} THEN "off" ELSE alarm_lock

(* alarm_lock after the close. *)
ReleaseLock == IF pending # {} \/ wait_pending THEN "off" ELSE alarm_lock

(* The last close by the process that used the device. *)
alarm_release ==
  /\ Running /\ opened /\ waiter = "idle"
  /\ opened' = FALSE
  /\ enabled' = {} /\ queue' = [t \in Types |-> None]
  /\ rtc_lock' = UnlockRtc({t \in Types : queue[t] # None})
  /\ alarm_lock' = ReleaseLock
  /\ wait_pending' = FALSE /\ pending' = {}
  /\ UNCHANGED <<clocks, armed, expires, rtcVars, suspended, waiter, setter, phase>>
-----------------------------------------------------------------------------
(* The delta that keeps elapsed realtime when the wall time becomes w. *)
NewDelta(w) == delta - (wall - w)

(* ANDROID_ALARM_SET_RTC up to rtc_set_time, which may sleep: the timers   *)
(* of the wall clock are stopped, the time set or refused, and the timers  *)
(* started again.                                                          *)
alarm_set_rtc(w, refused) ==
  /\ Running /\ setter = "idle"
  /\ setter' = "rtc_set_time"
  /\ rtc_lock' = "held"
  /\ delta' = NewDelta(w)
  /\ wall' = IF refused THEN wall ELSE w
  /\ LET stop == Types \ {"SYSTEMTIME"}
     IN update_timers(stop, armed \ stop, queue, delta', suspended)
  /\ UNCHANGED <<boot, mono, queue, rtcVars, suspended, dev, waiter, phase>>

(* The return of alarm_set_rtc; user space is told of the change. *)
alarm_set_rtc_return ==
  /\ Running /\ setter = "rtc_set_time"
  /\ setter' = "idle"
  /\ rtc_lock' = "off"
  /\ pending' = pending \cup {TIME_CHANGE}
  /\ UNCHANGED <<clocks, timers, rtcVars, suspended, opened, enabled, wait_pending, alarm_lock,
                 waiter, phase>>

(* An hrtimer expires: alarm_timer_triggered calls alarm_triggered if the  *)
(* alarm is due, and starts the timer again for one that is not.           *)
alarm_timer_triggered(t) ==
  /\ IrqsOn /\ t \in armed /\ Clock(t) >= expires[t]
  /\ queue' = [queue EXCEPT ![t] = IF Due(t) THEN None ELSE @]
  /\ update_timers({t}, armed \ {t}, queue', delta, suspended)
  /\ rtc_lock' = IF t \in Wakeup /\ suspended /\ queue'[t] # None THEN "timed"
                 ELSE UnlockRtc({t})
  /\ IF Due(t) /\ t \in enabled
       THEN /\ alarm_lock' = "timed"
            /\ enabled' = enabled \ {t} /\ pending' = pending \cup {t}
       ELSE UNCHANGED <<alarm_lock, enabled, pending>>
  /\ UNCHANGED <<clocks, rtcVars, suspended, opened, wait_pending, waiter, setter, phase>>
-----------------------------------------------------------------------------
(* suspend() of wakelock.c as far as this driver goes: with no wake lock   *)
(* held, tasks are frozen.  A task inside alarm_set_rtc is not, yet.       *)
Freeze ==
  /\ phase = "run" /\ setter = "idle"
  /\ rtc_lock = "off" /\ alarm_lock = "off"
  /\ phase' = "frozen"
  /\ UNCHANGED <<clocks, timers, rtcVars, suspended, rtc_lock, dev, waiter, setter>>

(* The wake-up alarms that are queued, and the first of their timers. *)
Queued == {t \in Types \cap Wakeup : queue[t] # None}
FirstWakeup == CHOOSE x \in {expires[t] : t \in Queued} : \A t \in Queued : x <= expires[t]

(* Mutant: the alarm may be the very next second. *)
AboutToGoOffNever(at) == wall >= at + 1

AboutToGoOff(at) == wall + 1 >= at

(* alarm_suspend.  The second hrtimer_cancel is indexed with a mask, and   *)
(* is that of the SYSTEMTIME queue.                                        *)
alarm_suspend ==
  /\ phase = "frozen"
  /\ IF Queued # {} /\ AboutToGoOff(FirstWakeup)
       THEN /\ phase' = "run" /\ rtc_lock' = "timed"
            /\ armed' = (armed \ {"RTC_WAKEUP", "SYSTEMTIME"}) \cup Queued
            /\ expires' = [t \in Types |-> IF t \in Queued THEN TimerFor(t, queue[t], delta)
                                           ELSE expires[t]]
            /\ UNCHANGED <<rtcVars, suspended>>
       ELSE /\ phase' = "down" /\ suspended' = TRUE
            /\ armed' = armed \ {"RTC_WAKEUP", "SYSTEMTIME"}
            /\ rtc' = IF Queued # {} THEN FirstWakeup ELSE None
            /\ UNCHANGED <<rtc_lock, expires>>
  /\ UNCHANGED <<clocks, queue, rtc_rings, dev, waiter, setter>>

(* The rest of suspend_enter: power_suspend_late refuses while a wake lock *)
(* is held.                                                                *)
Sleep ==
  /\ phase = "down"
  /\ rtc_lock = "off" /\ alarm_lock = "off"
  /\ phase' = "asleep"
  /\ UNCHANGED <<clocks, timers, rtcVars, suspended, rtc_lock, dev, waiter, setter>>

(* The RTC alarm: an interrupt before interrupts are off, a wake-up after. *)
(* alarm_triggered_func takes the wake lock for HZ.                        *)
rtc_alarm_irq ==
  /\ rtc_rings
  /\ rtc' = None /\ rtc_rings' = FALSE
  /\ rtc_lock' = "timed"
  /\ phase' = IF phase = "asleep" THEN "up" ELSE phase
  /\ UNCHANGED <<clocks, timers, suspended, dev, waiter, setter>>

(* A key, or the modem, wakes the system. *)
WakeByOther ==
  /\ phase = "asleep"
  /\ phase' = "up"
  /\ UNCHANGED <<clocks, timers, rtcVars, suspended, rtc_lock, dev, waiter, setter>>

(* alarm_resume and the thawing of tasks, after sleep or a failed attempt. *)
alarm_resume ==
  /\ phase \in {"down", "up"}
  /\ phase' = "run"
  /\ rtc' = None /\ rtc_rings' = FALSE /\ suspended' = FALSE
  /\ update_timers(Types \cap Wakeup, armed, queue, delta, FALSE)
  /\ UNCHANGED <<clocks, queue, rtc_lock, dev, waiter, setter>>

(* Time passes.  CLOCK_MONOTONIC, of which only SYSTEMTIME alarms know,    *)
(* stands still in suspend; the RTC rings when it gets to its alarm.       *)
Tick ==
  /\ boot < MaxTime
  /\ boot' = boot + 1 /\ wall' = wall + 1
  /\ mono' = IF phase = "asleep" \/ "SYSTEMTIME" \notin Types THEN mono ELSE mono + 1
  /\ rtc_rings' = (rtc_rings \/ rtc = wall + 1)
  /\ UNCHANGED <<delta, timers, rtc, suspended, rtc_lock, dev, waiter, setter, phase>>

(* A wake lock's time is up. *)
LockTimeout ==
  /\ SlowDevices \/ phase \notin {"frozen", "down"}
  /\ \/ rtc_lock = "timed" /\ rtc_lock' = "off" /\ UNCHANGED alarm_lock
     \/ alarm_lock = "timed" /\ alarm_lock' = "off" /\ UNCHANGED rtc_lock
  /\ UNCHANGED <<clocks, timers, rtcVars, suspended, opened, enabled, pending, wait_pending,
                 waiter, setter, phase>>

Ioctl ==
  \/ \E t \in Types : alarm_clear(t) \/ \E e \in AlarmTimes : alarm_set(t, e)
  \/ alarm_wait \/ alarm_wait_return \/ alarm_wait_interrupted \/ alarm_release
  \/ \E w \in WallTimes, r \in {FALSE, RefusedTime} : alarm_set_rtc(w, r)

System ==
  \/ alarm_set_rtc_return
  \/ \E t \in Types : alarm_timer_triggered(t)
  \/ Freeze \/ alarm_suspend \/ Sleep \/ rtc_alarm_irq \/ WakeByOther \/ alarm_resume
  \/ Tick \/ LockTimeout

Next == Ioctl \/ System

Spec == Init /\ [][Next]_vars

(* Interrupts are served, and a suspend that has failed or ended is undone. *)
Fairness ==
  /\ \A t \in Types : WF_vars(alarm_timer_triggered(t))
  /\ WF_vars(rtc_alarm_irq)
  /\ WF_vars(alarm_resume)

FairSpec == Spec /\ Fairness
-----------------------------------------------------------------------------
(* "set rtc while preserving elapsed realtime" (android_alarm.h): elapsed  *)
(* realtime is the time since boot.  It is not once do_settimeofday has    *)
(* refused a time (RefusedTime): the delta was moved before it was asked.  *)
ElapsedSteady == wall - delta = boot

(* An alarm user space has set and not been told of has not been lost: its *)
(* timer is set to the very moment it is due; in suspend, where a wake-up  *)
(* alarm's timer cannot run, the RTC has still to ring, no later, or a     *)
(* wake lock has the attempt fail.  (SYSTEMTIME alarms are not: see        *)
(* alarm_suspend.)                                                         *)
RtcCovers(due) == rtc_rings \/ (rtc # None /\ wall < rtc /\ rtc <= due)

AlarmsCovered ==
  \A t \in enabled \ {"SYSTEMTIME"} :
    LET due == TimerFor(t, queue[t], delta) IN
    /\ queue[t] # None
    /\ IF t \in Wakeup /\ suspended
         THEN RtcCovers(due) \/ phase = "up" \/ (phase = "down" /\ rtc_lock # "off")
         ELSE t \in armed /\ expires[t] = due

(* The wake lock of /dev/alarm is held only for user space that has alarms *)
(* to fetch, or has fetched some and not come back for more.               *)
LockForUser == alarm_lock # "off" => pending # {} \/ wait_pending

(* A wake-up alarm that is due goes off, also when the system sleeps.      *)
WakeupDelivered == \A t \in Types \cap Wakeup : Due(t) ~> ~Due(t)
=============================================================================
