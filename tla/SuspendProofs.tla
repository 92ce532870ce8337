--------------------------- MODULE SuspendProofs ----------------------------
(***************************************************************************)
(* Proofs about enter_state and its freezer, for every set of tasks, and   *)
(* about the alarm driver that it suspends, for every set of alarm types,  *)
(* of times alarms are set to and of wall times, without a bound on time.  *)
(*                                                                         *)
(* What the freezer promises is not inductive: that nobody is left frozen  *)
(* needs that the two flags exclude each other, and that everybody is      *)
(* stopped after the last pass needs to know what todo stands for.  What   *)
(* enter_state holds is a function of where it is (Holds), the frequency   *)
(* lock apart.                                                             *)
(*                                                                         *)
(* That no alarm is lost needs to know that suspended says how far the     *)
(* suspend is, and that the RTC alarm is set to the first of the timers,   *)
(* all of which are at the moment their alarm is due (Covered).  That      *)
(* elapsed realtime is steady is inductive once the clocks have types.     *)
(***************************************************************************)
EXTENDS SuspendSequence, Alarm, TLAPS

seqAll == <<fzVars, seqVars>>

(* PF_FROZEN is set only in the loop of the refrigerator, and in exchange  *)
(* for TIF_FREEZE; PF_FREEZER_SKIP only in the wait for a vfork child.     *)
FlagsOK ==
  /\ frozen \intersect freezing = {}
  /\ \A t \in frozen : at[t] = "cold"
  /\ \A t \in skip : at[t] = "vfork"

AllStopped(S) == \A t \in S : Stopped(t)

(* Where freeze_processes and thaw_processes are, and what they have done. *)
Progress ==
  /\ fz = "idle" => frozen = {} /\ freezing = {}
  /\ fz \in {"user", "thaw"} => (frozen \union freezing) \intersect Kthread = {}
  /\ fz = "user" /\ ~todo => AllStopped(User)
  /\ fz \in {"kernel", "frozen"} => AllStopped(User)
  /\ fz = "kernel" /\ ~todo => AllStopped(Kthread)
  /\ fz = "frozen" => AllStopped(Kthread)
  /\ fz = "failed" => freezing = {}

FzInv == FreezerTypeOK /\ FlagsOK /\ Progress

(* What enter_state holds at each step, the frequency lock apart: on the   *)
(* way in, and on the way out of any failure or of the sleep.              *)
Holds(st) ==
  CASE st = "idle" -> {}
    [] st = "notify" -> {"pm_mutex", "vt"}
    [] st = "disable" -> {"pm_mutex", "vt", "notified"}
    [] st = "freeze" -> {"pm_mutex", "vt", "notified", "helpers"}
    [] st \in {"devices"} -> {"pm_mutex", "vt", "notified", "helpers", "oom", "console"}
    [] st \in {"enter", "resume"} ->
         {"pm_mutex", "vt", "notified", "helpers", "oom", "console", "devices"}
    [] st \in {"prepare_late", "power_up"} ->
         {"pm_mutex", "vt", "notified", "helpers", "oom", "console", "devices", "noirq"}
    [] st = "sysdevs" ->
         {"pm_mutex", "vt", "notified", "helpers", "oom", "console", "devices", "noirq", "irqs"}
    [] st = "asleep" -> Resource \ {"max_freq"}
    [] st = "finish" -> {"pm_mutex", "vt", "notified", "helpers", "oom"}

(* The freezer is idle before its step, has succeeded behind it, and only  *)
(* the sleep and the steps next to it need the frequency lock.             *)
InStep ==
  /\ taken \ {"max_freq"} = Holds(step)
  /\ step \in {"prepare_late", "sysdevs", "asleep"} => "max_freq" \in taken
  /\ step \in {"idle", "notify", "disable"} => fz = "idle"
  /\ step = "freeze" => fz # "idle"
  /\ step \in {"devices", "enter", "prepare_late", "sysdevs", "asleep", "power_up", "resume"}
       => fz = "frozen"
  /\ step = "finish" => fz \in {"frozen", "thaw"}

SeqInv == FzInv /\ SeqTypeOK /\ InStep
-----------------------------------------------------------------------------
(***************************************************************************)
(* The freezer's passes, rounds, abort and thaw, and the steps of a task   *)
(* through try_to_freeze, the refrigerator and a vfork, keep FzInv.        *)
(***************************************************************************)
LEMMA PassKeeps == ASSUME FzInv, FreezePass PROVE FzInv'
<1> USE TaskAssumption DEF FzInv, FreezePass, Task
<1>1. FreezerTypeOK'
  BY DEF FreezerTypeOK, Asked
<1>2. FlagsOK'
  BY DEF FlagsOK, Asked
<1>3. ~todo' => \A t \in Asked : Stopped(t)'
  BY DEF FreezerTypeOK, FlagsOK, Stopped
<1>4. \A t \in Task : Stopped(t) => Stopped(t)'
  BY DEF Stopped
<1>5. Progress'
  BY <1>3, <1>4 DEF Progress, AllStopped, Asked, FreezerTypeOK
<1> QED
  BY <1>1, <1>2, <1>5

(* freeze_processes, the end of a round, and the abort. *)
LEMMA RoundKeeps ==
  ASSUME FzInv, freeze_processes \/ RoundDone \/ FreezeAbort PROVE FzInv'
<1> USE DEF FzInv, freeze_processes, RoundDone, FreezeAbort
<1>1. FreezerTypeOK'
  BY DEF FreezerTypeOK, FzPc
<1>2. FlagsOK'
  BY DEF FlagsOK
<1>3. Progress'
  BY DEF Progress, AllStopped, Stopped
<1> QED
  BY <1>1, <1>2, <1>3

(* thaw_processes: with both flags disjoint it clears every one of them. *)
LEMMA ThawKeeps == ASSUME FzInv, thaw_processes PROVE FzInv'
<1> USE TaskAssumption DEF FzInv, thaw_processes
<1>1. FreezerTypeOK'
  BY DEF FreezerTypeOK, FzPc
<1>2. FlagsOK'
  BY DEF FlagsOK
<1>3. Progress'
  BY DEF Progress, AllStopped, Stopped, FreezerTypeOK, FlagsOK, Task
<1> QED
  BY <1>1, <1>2, <1>3

(* A task that is stopped stays so, whatever tasks do. *)
LEMMA TasksKeep == ASSUME FzInv, Tasks PROVE FzInv'
<1> PICK t \in Task : TaskStep(t)
  BY DEF Tasks
<1> USE DEF FzInv, TaskStep, try_to_freeze, refrigerator, LeaveRefrigerator,
            freezer_do_not_count, freezer_count
<1>1. FreezerTypeOK'
  BY DEF FreezerTypeOK, At
<1>2. FlagsOK'
  BY DEF FlagsOK, FreezerTypeOK, Task
<1>3. \A u \in Task : Stopped(u) => Stopped(u)'
  BY DEF Stopped, FreezerTypeOK
<1>4. (frozen \union freezing)' \subseteq frozen \union freezing
  OBVIOUS
<1>5. fz' = fz /\ todo' = todo /\ freezing' \subseteq freezing
  OBVIOUS
<1>6. Progress'
  BY <1>3, <1>4, <1>5, Zenon DEF Progress, AllStopped, Task
<1> QED
  BY <1>1, <1>2, <1>6

(* In suspend the freezer only does what enter_state has it do. *)
LEMMA FreezerKeeps == FzInv /\ [SeqNext]_seqAll => FzInv'
<1> SUFFICES ASSUME FzInv, [SeqNext]_seqAll PROVE FzInv'
  OBVIOUS
<1>1. CASE UNCHANGED fzVars
  BY <1>1 DEF FzInv, fzVars, FreezerTypeOK, FlagsOK, Progress, AllStopped, Stopped
<1>2. CASE Freezing
  BY <1>2, PassKeeps, RoundKeeps DEF Freezing
<1>3. CASE \E ok \in BOOLEAN : usermodehelper_disable(ok)
  BY <1>1, <1>3, RoundKeeps DEF usermodehelper_disable
<1>4. CASE FreezeFailed \/ suspend_finish
  BY <1>4, ThawKeeps DEF FreezeFailed, suspend_finish
<1>5. CASE TasksRun
  BY <1>5, TasksKeep DEF TasksRun
<1>6. CASE \/ enter_state \/ FreezeOk \/ Wake \/ dpm_resume_noirq \/ dpm_resume_end
           \/ \E ok \in BOOLEAN :
                \/ Notify(ok) \/ dpm_suspend_start(ok)
                \/ suspend_enter(ok) \/ prepare_late(ok) \/ sysdev_suspend(ok)
  BY <1>1, <1>6 DEF enter_state, FreezeOk, Wake, dpm_resume_noirq, dpm_resume_end, Notify,
     dpm_suspend_start, suspend_enter, prepare_late, sysdev_suspend
<1>7. CASE UNCHANGED seqAll
  BY <1>1, <1>7 DEF seqAll
<1> QED
  BY <1>2, <1>3, <1>4, <1>5, <1>6, <1>7 DEF SeqNext, EnterState, Proceed

(* Every step of enter_state takes and gives back what Holds says, and     *)
(* stands where the freezer does.                                          *)
LEMMA InStepKept == SeqInv /\ [SeqNext]_seqAll => (SeqTypeOK /\ InStep)'
<1> SUFFICES ASSUME SeqInv, [SeqNext]_seqAll PROVE (SeqTypeOK /\ InStep)'
  OBVIOUS
<1>1. FreezerTypeOK'
  BY FreezerKeeps DEF SeqInv, FzInv
<1> USE DEF SeqInv, SeqTypeOK, InStep, Holds, Go, Step, Resource, Finish
<1>2. CASE enter_state \/ FreezeOk \/ \E ok \in BOOLEAN : Notify(ok)
  BY <1>1, <1>2 DEF enter_state, Notify, FreezeOk, fzVars
<1>3. CASE \E ok \in BOOLEAN : usermodehelper_disable(ok)
  BY <1>1, <1>3 DEF usermodehelper_disable, freeze_processes, fzVars
<1>4. CASE Freezing
  BY <1>1, <1>4 DEF Freezing, FreezePass, RoundDone, FreezeAbort, seqVars, FreezerTypeOK
<1>5. CASE FreezeFailed
  BY <1>1, <1>5 DEF FreezeFailed, thaw_processes, seqVars
<1>6. CASE suspend_finish
  BY <1>1, <1>6 DEF suspend_finish, thaw_processes, seqVars
<1>7. CASE \E ok \in BOOLEAN : dpm_suspend_start(ok) \/ suspend_enter(ok)
  BY <1>1, <1>7 DEF dpm_suspend_start, suspend_enter, fzVars
<1>8. CASE \E ok \in BOOLEAN : prepare_late(ok) \/ sysdev_suspend(ok)
  BY <1>1, <1>8 DEF prepare_late, sysdev_suspend, fzVars
<1>9. CASE Wake \/ dpm_resume_noirq \/ dpm_resume_end
  BY <1>1, <1>9 DEF Wake, dpm_resume_noirq, dpm_resume_end, fzVars
<1>10. CASE TasksRun
  BY <1>1, <1>10 DEF TasksRun, Tasks, TaskStep, try_to_freeze, refrigerator, LeaveRefrigerator,
     freezer_do_not_count, freezer_count, seqVars
<1>11. CASE UNCHANGED seqAll
  BY <1>1, <1>11 DEF seqAll, fzVars, seqVars
<1> QED
  BY <1>2, <1>3, <1>4, <1>5, <1>6, <1>7, <1>8, <1>9, <1>10, <1>11
     DEF SeqNext, EnterState, Proceed

(* The inductive invariant of enter_state and its freezer. *)
THEOREM SeqInvAlways == SeqSpec => []SeqInv
<1>1. SeqInit => SeqInv
  BY TaskAssumption DEF SeqInit, FreezerInit, SeqInv, SeqTypeOK, FzInv, FreezerTypeOK, FzPc, At, FlagsOK,
     Progress, AllStopped, InStep, Holds, Step, Resource
<1>2. SeqInv /\ [SeqNext]_seqAll => SeqInv'
  BY FreezerKeeps, InStepKept DEF SeqInv
<1> QED
  BY <1>1, <1>2, PTL DEF SeqSpec, seqAll
-----------------------------------------------------------------------------
(* process.c freezes user tasks before kernel threads and thaws them       *)
(* after: no user task runs without a kernel thread it may need.           *)
THEOREM KernelThreadsAlwaysLast == SeqSpec => []KernelThreadsLast
<1>1. SeqInv => KernelThreadsLast
  BY DEF SeqInv, FzInv, FreezerTypeOK, FzPc, Progress, AllStopped, KernelThreadsLast
<1> QED
  BY <1>1, SeqInvAlways, PTL

(* After thaw_processes no task is frozen or asked to freeze, wherever it  *)
(* was on its way into the refrigerator.                                   *)
THEOREM NobodyEverLeftFrozen == SeqSpec => []NobodyLeftFrozen
<1>1. SeqInv => NobodyLeftFrozen
  BY DEF SeqInv, FzInv, Progress, NobodyLeftFrozen
<1> QED
  BY <1>1, SeqInvAlways, PTL

(* Whichever step fails, enter_state gives back all it took but the        *)
(* frequency lock, and the freezer is idle.                                *)
THEOREM AlwaysBackToNormal == SeqSpec => []BackToNormal
<1>1. SeqInv => BackToNormal
  BY DEF SeqInv, FzInv, Progress, InStep, Holds, BackToNormal
<1> QED
  BY <1>1, SeqInvAlways, PTL

(* No task gets back to its own code while the devices are down.           *)
THEOREM NeverTaskWithoutDevices == SeqSpec => []NoTaskWithoutDevices
<1>1. SeqInv => NoTaskWithoutDevices
  <2> SUFFICES ASSUME SeqInv, "devices" \in taken PROVE \A t \in Task : Stopped(t)
    BY DEF NoTaskWithoutDevices
  <2>1. "devices" \in Holds(step)
    BY DEF SeqInv, InStep
  <2>2. fz = "frozen"
    BY <2>1 DEF SeqInv, SeqTypeOK, Step, InStep, Holds
  <2> QED
    BY <2>2 DEF SeqInv, FzInv, Progress, AllStopped, Task
<1> QED
  BY <1>1, SeqInvAlways, PTL

(* The machine sleeps only with every task stopped and everything that     *)
(* enter_state takes taken.                                                *)
THEOREM AlwaysAsleepPrepared == SeqSpec => []AsleepPrepared
<1>1. SeqInv => AsleepPrepared
  BY DEF SeqInv, SeqTypeOK, InStep, Holds, FzInv, Progress, AllStopped, Task, Resource, AsleepPrepared
<1> QED
  BY <1>1, SeqInvAlways, PTL
-----------------------------------------------------------------------------
(***************************************************************************)
(* The alarm driver.                                                       *)
(***************************************************************************)
TypeOK ==
  /\ boot \in Nat /\ mono \in Nat /\ wall \in Nat /\ delta \in Int
  /\ queue \in [Types -> Nat \cup {None}]
  /\ armed \subseteq Types /\ expires \in [Types -> Int]
  /\ rtc \in Int \cup {None} /\ rtc_rings \in BOOLEAN
  /\ suspended \in BOOLEAN /\ rtc_lock \in LockState
  /\ opened \in BOOLEAN /\ enabled \subseteq Types
  /\ pending \subseteq Types \cup {TIME_CHANGE}
  /\ wait_pending \in BOOLEAN /\ alarm_lock \in LockState
  /\ waiter \in {"idle", "wait"} /\ setter \in {"idle", "rtc_set_time"}
  /\ phase \in {"run", "frozen", "down", "asleep", "up"}

(* suspended is set from alarm_suspend to alarm_resume. *)
SuspendedInStep == suspended <=> phase \in {"down", "asleep", "up"}

CoveredInv == TypeOK /\ SuspendedInStep /\ AlarmsCovered
-----------------------------------------------------------------------------
(***************************************************************************)
(* Of the wake-up alarms queued, at most two, one timer is the first.      *)
(***************************************************************************)
LEMMA FirstIsLeast ==
  ASSUME expires \in [Types -> Int], Queued # {}
  PROVE  FirstWakeup \in Int /\ \A t \in Queued : FirstWakeup <= expires[t]
<1> DEFINE S == {expires[t] : t \in Queued}
<1>1. \E x \in S : \A t \in Queued : x <= expires[t]
  <2>1. PICK a \in Queued : TRUE
    OBVIOUS
  <2>2. Queued \subseteq Types /\ Queued \subseteq {"RTC_WAKEUP", "ELAPSED_REALTIME_WAKEUP"}
    BY DEF Queued, Wakeup
  <2>3. CASE \A t \in Queued : expires[a] <= expires[t]
    BY <2>1, <2>3
  <2>4. CASE \E t \in Queued : ~ (expires[a] <= expires[t])
    <3>1. PICK b \in Queued : ~ (expires[a] <= expires[b])
      BY <2>4
    <3>2. expires[a] \in Int /\ expires[b] \in Int
      BY <2>1, <2>2, <3>1
    <3>3. a # b /\ \A t \in Queued : t = a \/ t = b
      BY <2>1, <2>2, <3>1, <3>2
    <3>4. \A t \in Queued : expires[b] <= expires[t]
      BY <3>1, <3>2, <3>3
    <3> QED BY <3>1, <3>4
  <2> QED BY <2>3, <2>4
<1>2. FirstWakeup \in S /\ \A t \in Queued : FirstWakeup <= expires[t]
  BY <1>1 DEF FirstWakeup
<1>3. S \subseteq Int
  BY DEF Queued
<1> QED BY <1>2, <1>3

(* update_timer_locked for the queues S sets each queued one's timer, but  *)
(* for the wake-up types in suspend, to the moment it is due.              *)
LEMMA TimersSet ==
  ASSUME NEW S \in SUBSET Types, NEW running \in SUBSET Types,
         NEW q \in [Types -> Nat \cup {None}], NEW d \in Int, NEW susp \in BOOLEAN,
         expires \in [Types -> Int], update_timers(S, running, q, d, susp)
  PROVE  /\ armed' \subseteq Types /\ expires' \in [Types -> Int]
         /\ \A t \in S : q[t] # None /\ ~(t \in Wakeup /\ susp)
              => t \in armed' /\ expires'[t] = TimerFor(t, q[t], d)
         /\ \A t \in Types \ S : expires'[t] = expires[t]
         /\ running \subseteq armed'
<1>1. \A t \in Types : q[t] # None => TimerFor(t, q[t], d) \in Int
  BY AlarmAssumption DEF TimerFor
<1> QED BY <1>1 DEF update_timers
-----------------------------------------------------------------------------
(* The calls of /dev/alarm keep the types. *)
LEMMA IoctlTyped == ASSUME TypeOK, Ioctl PROVE TypeOK'
<1> USE AlarmAssumption DEF TypeOK, LockState
<1>1. ASSUME NEW t \in Types, alarm_clear(t) PROVE TypeOK'
  BY <1>1 DEF alarm_clear, UnlockRtc, clocks, rtcVars
<1>2. ASSUME NEW t \in Types, NEW e \in AlarmTimes, alarm_set(t, e) PROVE TypeOK'
  <2>1. queue' \in [Types -> Nat \cup {None}]
    BY <1>2 DEF alarm_set
  <2>2. armed' \subseteq Types /\ expires' \in [Types -> Int]
    <3>1. {t} \in SUBSET Types /\ update_timers({t}, armed, queue', delta, suspended)
      BY <1>2 DEF alarm_set
    <3> QED BY <2>1, <3>1, TimersSet
  <2> QED BY <1>2, <2>1, <2>2 DEF alarm_set, clocks, rtcVars
<1>3. ASSUME alarm_wait \/ alarm_wait_return \/ alarm_wait_interrupted PROVE TypeOK'
  <2>1. UNCHANGED <<clocks, timers, rtcVars, suspended, rtc_lock, enabled, setter, phase>>
    BY <1>3 DEF alarm_wait, alarm_wait_return, alarm_wait_interrupted, dev
  <2>2. /\ opened' \in BOOLEAN /\ wait_pending' \in BOOLEAN /\ alarm_lock' \in LockState
        /\ waiter' \in {"idle", "wait"}
    BY <1>3 DEF alarm_wait, alarm_wait_return, alarm_wait_interrupted, dev
  <2>3. pending' \subseteq Types \cup {TIME_CHANGE}
    BY <1>3 DEF alarm_wait, alarm_wait_return, alarm_wait_interrupted, dev
  <2> QED BY <2>1, <2>2, <2>3 DEF clocks, timers, rtcVars
<1>4. ASSUME alarm_release PROVE TypeOK'
  BY <1>4 DEF alarm_release, UnlockRtc, ReleaseLock, clocks, rtcVars
<1>5. ASSUME NEW w \in WallTimes, NEW r \in BOOLEAN, alarm_set_rtc(w, r) PROVE TypeOK'
  <2>1. wall' \in Nat /\ delta' \in Int
    BY <1>5 DEF alarm_set_rtc, NewDelta
  <2>2. armed' \subseteq Types /\ expires' \in [Types -> Int]
    <3> DEFINE stop == Types \ {"SYSTEMTIME"}
    <3>1. /\ stop \in SUBSET Types /\ armed \ stop \in SUBSET Types
          /\ update_timers(stop, armed \ stop, queue, delta', suspended)
      BY <1>5 DEF alarm_set_rtc
    <3> HIDE DEF stop
    <3> QED BY <2>1, <3>1, TimersSet
  <2> QED BY <1>5, <2>1, <2>2 DEF alarm_set_rtc, rtcVars, dev
<1> QED BY <1>1, <1>2, <1>3, <1>4, <1>5 DEF Ioctl

(* So do timers, suspend, resume and the passing of time. *)
LEMMA SystemTyped == ASSUME TypeOK, System PROVE TypeOK'
<1> USE AlarmAssumption DEF TypeOK, LockState
<1>1. ASSUME alarm_set_rtc_return PROVE TypeOK'
  BY <1>1 DEF alarm_set_rtc_return, clocks, timers, rtcVars
<1>2. ASSUME NEW t \in Types, alarm_timer_triggered(t) PROVE TypeOK'
  <2>1. queue' \in [Types -> Nat \cup {None}]
    BY <1>2 DEF alarm_timer_triggered
  <2>2. armed' \subseteq Types /\ expires' \in [Types -> Int]
    <3>1. /\ {t} \in SUBSET Types /\ armed \ {t} \in SUBSET Types
          /\ update_timers({t}, armed \ {t}, queue', delta, suspended)
      BY <1>2 DEF alarm_timer_triggered
    <3>2. \A u \in Types : queue'[u] # None => TimerFor(u, queue'[u], delta) \in Int
      BY <2>1 DEF TimerFor
    <3> QED BY <3>1, <3>2 DEF update_timers
  <2> QED BY <1>2, <2>1, <2>2 DEF alarm_timer_triggered, UnlockRtc, clocks, rtcVars
<1>3. ASSUME Freeze \/ Sleep \/ WakeByOther \/ rtc_alarm_irq PROVE TypeOK'
  <2>1. UNCHANGED <<clocks, timers, suspended, dev, waiter, setter>>
    BY <1>3 DEF Freeze, Sleep, WakeByOther, rtc_alarm_irq
  <2>2. rtc' \in Int \cup {None} /\ rtc_lock' \in LockState /\ rtc_rings' \in BOOLEAN
    BY <1>3 DEF Freeze, Sleep, WakeByOther, rtc_alarm_irq, rtcVars
  <2>3. phase' \in {phase, "frozen", "asleep", "up"}
    BY <1>3 DEF Freeze, Sleep, WakeByOther, rtc_alarm_irq
  <2> QED BY <2>1, <2>2, <2>3 DEF clocks, timers, dev
<1>4. ASSUME alarm_suspend PROVE TypeOK'
  <2>1. Queued # {} => FirstWakeup \in Int
    BY FirstIsLeast
  <2>2. \A t \in Queued : t \in Types /\ TimerFor(t, queue[t], delta) \in Int
    BY DEF Queued, TimerFor
  <2>3. armed' \subseteq Types
    BY <1>4, <2>2 DEF alarm_suspend
  <2>4. expires' \in [Types -> Int]
    BY <1>4, <2>2 DEF alarm_suspend
  <2>5. rtc' \in Int \cup {None}
    BY <1>4, <2>1 DEF alarm_suspend, rtcVars
  <2>6. phase' \in {"run", "down"} /\ suspended' \in BOOLEAN /\ rtc_lock' \in LockState
    BY <1>4 DEF alarm_suspend
  <2> QED BY <1>4, <2>3, <2>4, <2>5, <2>6 DEF alarm_suspend, clocks, dev
<1>5. ASSUME alarm_resume PROVE TypeOK'
  <2>1. armed' \subseteq Types /\ expires' \in [Types -> Int]
    BY <1>5, TimersSet DEF alarm_resume
  <2> QED BY <1>5, <2>1 DEF alarm_resume, clocks, dev
<1>6. ASSUME Tick PROVE TypeOK'
  BY <1>6 DEF Tick, timers, dev
<1>7. ASSUME LockTimeout PROVE TypeOK'
  BY <1>7 DEF LockTimeout, clocks, timers, rtcVars
<1> QED BY <1>1, <1>2, <1>3, <1>4, <1>5, <1>6, <1>7 DEF System

(***************************************************************************)
(* The type invariant of the alarm driver.                                 *)
(***************************************************************************)
THEOREM TypeCorrect == Spec => []TypeOK
<1>1. Init => TypeOK
  <2> SUFFICES ASSUME Init PROVE TypeOK
    OBVIOUS
  <2>1. wall \in Nat /\ delta \in Int
    BY AlarmAssumption DEF Init
  <2>2. /\ queue \in [Types -> Nat \cup {None}] /\ expires \in [Types -> Int]
        /\ rtc \in Int \cup {None} /\ rtc_lock \in LockState /\ alarm_lock \in LockState
        /\ boot \in Nat /\ mono \in Nat
    BY DEF Init, LockState
  <2>3. /\ rtc_rings \in BOOLEAN /\ suspended \in BOOLEAN /\ opened \in BOOLEAN
        /\ wait_pending \in BOOLEAN
    BY DEF Init
  <2> QED BY <2>1, <2>2, <2>3 DEF Init, TypeOK
<1>2. TypeOK /\ [Next]_vars => TypeOK'
  <2>1. TypeOK /\ UNCHANGED vars => TypeOK'
    BY DEF TypeOK, vars, clocks, timers, rtcVars, dev
  <2> QED BY <2>1, IoctlTyped, SystemTyped DEF Next
<1> QED BY <1>1, <1>2, PTL DEF Spec

(***************************************************************************)
(* alarm_lock is given up on every path on which the last thing user space *)
(* was to be kept awake for is gone: the clear, the wait that acknowledges *)
(* it, and the close.                                                      *)
(***************************************************************************)
THEOREM LockAlwaysForUser == Spec => []LockForUser
<1>1. Init => LockForUser
  BY DEF Init, LockForUser
<1>2. LockForUser /\ [Next]_vars => LockForUser'
  <2> SUFFICES ASSUME LockForUser, [Next]_vars PROVE LockForUser'
    OBVIOUS
  <2> USE DEF LockForUser
  <2>1. CASE Ioctl
    BY <2>1 DEF Ioctl, alarm_clear, alarm_set, alarm_wait, alarm_wait_return,
                alarm_wait_interrupted, alarm_release, ReleaseLock, alarm_set_rtc, dev
  <2>2. CASE System
    BY <2>2 DEF System, alarm_set_rtc_return, alarm_timer_triggered, Freeze, alarm_suspend,
                Sleep, rtc_alarm_irq, WakeByOther, alarm_resume, Tick, LockTimeout, dev
  <2>3. CASE UNCHANGED vars
    BY <2>3 DEF vars, dev
  <2> QED BY <2>1, <2>2, <2>3 DEF Next
<1> QED BY <1>1, <1>2, PTL DEF Spec
-----------------------------------------------------------------------------
(***************************************************************************)
(* What covers one alarm; a step that leaves alone all that it speaks of   *)
(* leaves it covered.                                                      *)
(***************************************************************************)
Covered(t) ==
  LET due == TimerFor(t, queue[t], delta) IN
  /\ queue[t] # None
  /\ IF t \in Wakeup /\ suspended
       THEN RtcCovers(due) \/ phase = "up" \/ (phase = "down" /\ rtc_lock # "off")
       ELSE t \in armed /\ expires[t] = due

(* A call of /dev/alarm leaves no alarm uncovered. *)
LEMMA IoctlCovered == ASSUME CoveredInv, Ioctl PROVE AlarmsCovered'
<1> USE DEF CoveredInv, SuspendedInStep
<1>0. \A t \in enabled \ {"SYSTEMTIME"} : Covered(t) /\ t \in Types
  BY DEF AlarmsCovered, Covered, TypeOK
<1> SUFFICES ASSUME NEW t \in enabled' \ {"SYSTEMTIME"} PROVE Covered(t)'
  BY DEF AlarmsCovered, Covered
<1>1. ASSUME NEW u \in Types, alarm_clear(u) PROVE Covered(t)'
  BY <1>0, <1>1 DEF alarm_clear, Running, Covered, RtcCovers, clocks, rtcVars, TypeOK
<1>2. ASSUME NEW u \in Types, NEW e \in AlarmTimes, alarm_set(u, e) PROVE Covered(t)'
  <2>1. queue' \in [Types -> Nat \cup {None}] /\ queue'[u] # None /\ ~suspended
    BY <1>2, AlarmAssumption DEF alarm_set, TypeOK, Running
  <2>2. /\ u \in armed' /\ expires'[u] = TimerFor(u, queue'[u], delta)
        /\ \A v \in Types \ {u} : expires'[v] = expires[v]
        /\ armed \subseteq armed'
    <3>1. /\ {u} \in SUBSET Types /\ armed \in SUBSET Types /\ expires \in [Types -> Int]
          /\ delta \in Int /\ suspended \in BOOLEAN
          /\ update_timers({u}, armed, queue', delta, suspended)
      BY <1>2 DEF alarm_set, TypeOK
    <3>2. u \in {u}
      OBVIOUS
    <3> QED BY <2>1, <3>1, <3>2 DEF update_timers
  <2>3. UNCHANGED <<delta, suspended>> /\ \A v \in Types \ {u} : queue'[v] = queue[v]
    BY <1>2 DEF alarm_set, clocks, TypeOK
  <2>4. CASE t = u
    BY <2>1, <2>2, <2>3, <2>4 DEF Covered, TimerFor
  <2>5. CASE t # u
    <3>1. t \in enabled
      BY <1>2, <2>5 DEF alarm_set
    <3> QED BY <1>0, <2>1, <2>2, <2>3, <2>5, <3>1 DEF Covered, TimerFor
  <2> QED BY <2>4, <2>5
<1>3. ASSUME alarm_wait \/ alarm_wait_return \/ alarm_wait_interrupted PROVE Covered(t)'
  BY <1>0, <1>3 DEF alarm_wait, alarm_wait_return, alarm_wait_interrupted, clocks, timers,
                    rtcVars, dev, Covered, RtcCovers, TimerFor
<1>4. ASSUME alarm_release PROVE Covered(t)'
  BY <1>4 DEF alarm_release
<1>5. ASSUME NEW w \in WallTimes, NEW r \in BOOLEAN, alarm_set_rtc(w, r) PROVE Covered(t)'
  <2>1. ~suspended /\ UNCHANGED <<queue, suspended, enabled>> /\ delta' \in Int
    BY <1>5, AlarmAssumption DEF alarm_set_rtc, NewDelta, Running, dev, TypeOK
  <2>2. t \in Types \ {"SYSTEMTIME"} /\ queue[t] # None
    BY <1>0, <2>1 DEF Covered
  <2>3. t \in armed' /\ expires'[t] = TimerFor(t, queue[t], delta')
    BY <1>5, <2>1, <2>2, TimersSet DEF alarm_set_rtc, TypeOK
  <2> QED BY <2>1, <2>2, <2>3 DEF Covered, TimerFor
<1> QED BY <1>1, <1>2, <1>3, <1>4, <1>5, AlarmAssumption DEF Ioctl

(* Nor does a step of the system, as long as the devices suspend within    *)
(* the second.                                                             *)
LEMMA SystemCovered == ASSUME CoveredInv, SlowDevices = FALSE, System PROVE AlarmsCovered'
<1> USE DEF CoveredInv, SuspendedInStep
<1>0. \A t \in enabled \ {"SYSTEMTIME"} : Covered(t) /\ t \in Types
  BY DEF AlarmsCovered, Covered, TypeOK
<1> SUFFICES ASSUME NEW t \in enabled' \ {"SYSTEMTIME"} PROVE Covered(t)'
  BY DEF AlarmsCovered, Covered
<1>1. ASSUME alarm_set_rtc_return PROVE Covered(t)'
  BY <1>0, <1>1 DEF alarm_set_rtc_return, Running, clocks, timers, rtcVars, Covered, RtcCovers, TimerFor
<1>2. ASSUME NEW u \in Types, alarm_timer_triggered(u) PROVE Covered(t)'
  <2>1. /\ queue' \in [Types -> Nat \cup {None}] /\ t \in enabled
        /\ \A v \in Types \ {u} : queue'[v] = queue[v]
        /\ UNCHANGED <<delta, wall, suspended, rtc, rtc_rings, phase>>
    BY <1>2 DEF alarm_timer_triggered, TypeOK, clocks, rtcVars
  <2>2. /\ \A v \in {u} : queue'[v] # None /\ ~(v \in Wakeup /\ suspended)
             => v \in armed' /\ expires'[v] = TimerFor(v, queue'[v], delta)
        /\ \A v \in Types \ {u} : expires'[v] = expires[v]
        /\ armed \ {u} \subseteq armed'
    <3>1. /\ {u} \in SUBSET Types /\ armed \ {u} \in SUBSET Types /\ expires \in [Types -> Int]
          /\ delta \in Int /\ suspended \in BOOLEAN
          /\ update_timers({u}, armed \ {u}, queue', delta, suspended)
      BY <1>2 DEF alarm_timer_triggered, TypeOK
    <3> QED BY <2>1, <3>1 DEF update_timers
  <2>3. Covered(t) /\ t \in Types
    BY <1>0, <2>1
  <2>4. suspended => rtc_lock' = "timed" \/ rtc_lock' = rtc_lock
    BY <1>2 DEF alarm_timer_triggered, UnlockRtc
  <2>5. CASE t # u
    BY <2>1, <2>2, <2>3, <2>4, <2>5 DEF Covered, RtcCovers, TimerFor
  <2>6. CASE t = u
    <3>1. queue'[u] = queue[u]
      BY <1>2, <2>1, <2>6 DEF alarm_timer_triggered, TypeOK
    <3> QED BY <2>1, <2>2, <2>3, <2>4, <2>6, <3>1 DEF Covered, RtcCovers, TimerFor
  <2> QED BY <2>5, <2>6
<1>3. ASSUME Freeze \/ WakeByOther PROVE Covered(t)'
  BY <1>0, <1>3 DEF Freeze, WakeByOther, clocks, timers, rtcVars, dev, Covered, RtcCovers, TimerFor
<1>4. ASSUME alarm_suspend PROVE Covered(t)'
  <2>1. /\ t \in enabled /\ Covered(t) /\ t \in Types /\ ~suspended
        /\ UNCHANGED <<wall, delta, queue, rtc_rings>>
    BY <1>0, <1>4 DEF alarm_suspend, clocks, dev
  <2>2. t \in armed /\ expires[t] = TimerFor(t, queue[t], delta) /\ queue[t] # None
    BY <2>1 DEF Covered
  <2>3. CASE t \notin Wakeup
    BY <1>4, <2>1, <2>2, <2>3 DEF alarm_suspend, Covered, Wakeup, Queued, TimerFor
  <2>4. CASE t \in Wakeup
    <3>1. t \in Queued
      BY <2>1, <2>2, <2>4 DEF Queued
    <3>2. CASE AboutToGoOff(FirstWakeup)
      BY <1>4, <2>1, <2>2, <3>1, <3>2 DEF alarm_suspend, Covered, TimerFor
    <3>3. CASE ~AboutToGoOff(FirstWakeup)
      <4>1. FirstWakeup \in Int /\ FirstWakeup <= expires[t]
        BY <3>1, FirstIsLeast DEF TypeOK
      <4>2. rtc' = FirstWakeup /\ suspended'
        BY <1>4, <3>1, <3>3 DEF alarm_suspend
      <4>3. wall < FirstWakeup
        BY <3>3, <4>1 DEF AboutToGoOff, TypeOK
      <4>4. rtc' # None
        BY <4>1, <4>2, AlarmAssumption
      <4> QED BY <2>1, <2>2, <2>4, <4>1, <4>2, <4>3, <4>4 DEF Covered, RtcCovers, TimerFor
    <3> QED BY <3>2, <3>3
  <2> QED BY <2>3, <2>4
<1>5. ASSUME Sleep PROVE Covered(t)'
  BY <1>0, <1>5 DEF Sleep, clocks, timers, rtcVars, dev, Covered, RtcCovers, TimerFor
<1>6. ASSUME rtc_alarm_irq PROVE Covered(t)'
  BY <1>0, <1>6 DEF rtc_alarm_irq, clocks, timers, dev, Covered, RtcCovers, TimerFor
<1>7. ASSUME alarm_resume PROVE Covered(t)'
  <2>1. /\ t \in enabled /\ Covered(t) /\ t \in Types
        /\ UNCHANGED <<delta, queue>> /\ suspended' = FALSE
    BY <1>0, <1>7 DEF alarm_resume, clocks, dev
  <2>2. /\ \A v \in Types \cap Wakeup : queue[v] # None
             => v \in armed' /\ expires'[v] = TimerFor(v, queue[v], delta)
        /\ \A v \in Types \ (Types \cap Wakeup) : expires'[v] = expires[v]
        /\ armed \subseteq armed'
    <3>1. /\ Types \cap Wakeup \in SUBSET Types /\ armed \in SUBSET Types
          /\ expires \in [Types -> Int] /\ queue \in [Types -> Nat \cup {None}]
          /\ delta \in Int /\ update_timers(Types \cap Wakeup, armed, queue, delta, FALSE)
      BY <1>7 DEF alarm_resume, TypeOK
    <3> QED BY <3>1 DEF update_timers
  <2> QED BY <2>1, <2>2 DEF Covered, TimerFor
<1>8. ASSUME Tick PROVE Covered(t)'
  <2>1. /\ t \in enabled /\ Covered(t) /\ t \in Types
        /\ UNCHANGED <<delta, queue, armed, expires, rtc, suspended, rtc_lock, phase>>
        /\ wall' = wall + 1 /\ rtc_rings' = (rtc_rings \/ rtc = wall + 1)
    BY <1>0, <1>8 DEF Tick, timers, dev
  <2>2. TimerFor(t, queue[t], delta) \in Int /\ (rtc # None => rtc \in Int) /\ wall \in Nat
    BY <2>1 DEF Covered, TimerFor, TypeOK
  <2>3. RtcCovers(TimerFor(t, queue[t], delta)) => RtcCovers(TimerFor(t, queue[t], delta))'
    <3> DEFINE due == TimerFor(t, queue[t], delta)
    <3>1. due' = due
      BY <2>1 DEF TimerFor
    <3>2. due \in Int
      BY <2>2
    <3> HIDE DEF due
    <3>3. rtc # None /\ wall < rtc => rtc = wall + 1 \/ wall + 1 < rtc
      BY <2>2
    <3>4. RtcCovers(due) => rtc_rings' \/ (rtc # None /\ wall + 1 < rtc /\ rtc <= due)
      BY <2>1, <3>3, Zenon DEF RtcCovers
    <3> QED BY <2>1, <3>1, <3>4 DEF RtcCovers, due
  <2> QED BY <2>1, <2>3 DEF Covered, TimerFor
<1>9. ASSUME LockTimeout PROVE Covered(t)'
  BY <1>0, <1>9 DEF LockTimeout, clocks, timers, rtcVars, Covered, RtcCovers, TimerFor
<1> QED BY <1>1, <1>2, <1>3, <1>4, <1>5, <1>6, <1>7, <1>8, <1>9 DEF System

(* The flag "suspended" follows alarm_suspend and alarm_resume. *)
LEMMA SuspendedKept == ASSUME SuspendedInStep, [Next]_vars PROVE SuspendedInStep'
<1> USE DEF SuspendedInStep
<1>1. CASE Ioctl
  BY <1>1 DEF Ioctl, alarm_clear, alarm_set, alarm_wait, alarm_wait_return,
              alarm_wait_interrupted, alarm_release, alarm_set_rtc
<1>2. CASE System
  <2>1. ASSUME alarm_suspend PROVE SuspendedInStep'
    BY <2>1 DEF alarm_suspend
  <2>2. ASSUME Freeze \/ Sleep \/ rtc_alarm_irq \/ WakeByOther \/ alarm_resume
        PROVE  SuspendedInStep'
    <3>1. ASSUME alarm_resume PROVE SuspendedInStep'
      BY <3>1 DEF alarm_resume
    <3>2. ASSUME rtc_alarm_irq PROVE SuspendedInStep'
      BY <3>2 DEF rtc_alarm_irq
    <3> QED BY <2>2, <3>1, <3>2 DEF Freeze, Sleep, WakeByOther
  <2>3. ASSUME UNCHANGED <<suspended, phase>> PROVE SuspendedInStep'
    BY <2>3
  <2> QED BY <1>2, <2>1, <2>2, <2>3 DEF System, alarm_set_rtc_return, alarm_timer_triggered,
                                        Tick, LockTimeout
<1>3. CASE UNCHANGED vars
  BY <1>3 DEF vars
<1> QED BY <1>1, <1>2, <1>3 DEF Next

(***************************************************************************)
(* No alarm user space has set is lost by setting the wall clock, by the   *)
(* suspend that stops timers, fails or is cut short by another wake-up, or *)
(* by the resume; provided a suspend that the wake lock of the RTC         *)
(* interrupt is to stop gets no further than that lock lasts.              *)
(***************************************************************************)
THEOREM AlarmsAlwaysCovered == ASSUME SlowDevices = FALSE PROVE Spec => []AlarmsCovered
<1>1. Init => SuspendedInStep /\ AlarmsCovered
  BY DEF Init, SuspendedInStep, AlarmsCovered
<1>2. TypeOK /\ SuspendedInStep /\ AlarmsCovered /\ [Next]_vars
        => (SuspendedInStep /\ AlarmsCovered)'
  <2>1. AlarmsCovered /\ UNCHANGED vars => AlarmsCovered'
    BY DEF AlarmsCovered, RtcCovers, TimerFor, vars, clocks, timers, rtcVars, dev
  <2> QED BY <2>1, IoctlCovered, SystemCovered, SuspendedKept DEF Next, CoveredInv
<1> QED BY <1>1, <1>2, TypeCorrect, PTL DEF Spec
=============================================================================
