-------------------------- MODULE SuspendSequence --------------------------
(***************************************************************************)
(* enter_state of Kernel/kernel/power/suspend.c, with the freezer: what    *)
(* each step on the way into the sleep takes or switches off, what each    *)
(* error path gives back, and in which order.  The s3c6410 platform        *)
(* (plat-s3c64xx/pm.c) has the operations enter, prepare_late and wake; so *)
(* prepare, begin, end, recover and finish do not occur, and the machine   *)
(* has one CPU.                                                            *)
(*                                                                         *)
(* The device walks are DevicePM's business; here they succeed or fail.    *)
(***************************************************************************)
EXTENDS Freezer

VARIABLES
  step,   \* where enter_state is
  taken   \* what is held, stopped or switched off on its account

seqVars == <<step, taken>>

(***************************************************************************)
(* pm_mutex; the VT switch of pm_prepare_console; PM_SUSPEND_PREPARE, sent *)
(* to the notifiers; usermodehelper_disabled; oom_killer_disabled; the     *)
(* consoles stopped by suspend_console; the devices, suspended and with    *)
(* interrupts off; set_max_freq_flag of the cpufreq driver; the interrupts *)
(* of the CPU; the sysdevs.                                                *)
(***************************************************************************)
Resource == {"pm_mutex", "vt", "notified", "helpers", "oom", "console",
             "devices", "noirq", "max_freq", "irqs", "sysdevs"}

Step == {"idle", "notify", "disable", "freeze", "devices", "enter",
         "prepare_late", "sysdevs", "asleep", "power_up", "resume", "finish"}

SeqInit == FreezerInit /\ step = "idle" /\ taken = {}

(* A step that takes the resources on and gives back the resources off. *)
Go(from, to, on, off) ==
  /\ step = from
  /\ step' = to
  /\ taken' = (taken \union on) \ off

(* The end of suspend_prepare's error path and of suspend_finish, then the *)
(* label Unlock of enter_state.                                            *)
Finish == {"notified", "vt", "pm_mutex"}
-----------------------------------------------------------------------------
enter_state ==
  /\ "pm_mutex" \notin taken
  /\ Go("idle", "notify", {"pm_mutex", "vt"}, {})
  /\ UNCHANGED fzVars

Notify(ok) ==
  /\ IF ok THEN Go("notify", "disable", {"notified"}, {})
           ELSE Go("notify", "idle", {}, Finish)
  /\ UNCHANGED fzVars

(* Mutant: the failure of usermodehelper_disable returns at once. *)
usermodehelper_disable_return(ok) ==
  \/ ok /\ Go("disable", "freeze", {"helpers"}, {}) /\ freeze_processes
  \/ ~ok /\ Go("disable", "idle", {}, {"pm_mutex"}) /\ UNCHANGED fzVars

usermodehelper_disable(ok) ==
  \/ ok /\ Go("disable", "freeze", {"helpers"}, {}) /\ freeze_processes
  \/ ~ok /\ Go("disable", "idle", {}, Finish) /\ UNCHANGED fzVars

Freezing ==
  /\ step = "freeze"
  /\ FreezePass \/ RoundDone \/ FreezeAbort
  /\ UNCHANGED seqVars

(* Mutant: the first round of the freezer is taken for success. *)
FreezeOkEarly ==
  /\ fz \in {"kernel", "frozen"}
  /\ Go("freeze", "devices", {"oom", "console"}, {})
  /\ UNCHANGED fzVars

(* freeze_processes has returned zero. *)
FreezeOk ==
  /\ fz = "frozen"
  /\ Go("freeze", "devices", {"oom", "console"}, {})
  /\ UNCHANGED fzVars

(* suspend_thaw_processes, usermodehelper_enable, and on to Finish. *)
FreezeFailed ==
  /\ fz \in {"failed", "thaw"}
  /\ thaw_processes
  /\ IF fz = "thaw" THEN Go("freeze", "idle", {}, {"oom", "helpers"} \union Finish)
                    ELSE step = "freeze" /\ UNCHANGED seqVars
-----------------------------------------------------------------------------
(* suspend_devices_and_enter; the walk undoes itself with dpm_resume_end. *)
dpm_suspend_start(ok) ==
  /\ IF ok THEN Go("devices", "enter", {"devices"}, {})
           ELSE Go("devices", "resume", {"devices"}, {})
  /\ UNCHANGED fzVars

(* suspend_enter as far as dpm_suspend_noirq, which a wake lock may fail.  *)
suspend_enter(ok) ==
  /\ IF ok THEN Go("enter", "prepare_late", {"max_freq", "noirq"}, {})
           ELSE Go("enter", "resume", {"max_freq"}, {})
  /\ UNCHANGED fzVars

prepare_late(ok) ==
  /\ IF ok THEN Go("prepare_late", "sysdevs", {"irqs"}, {})
           ELSE Go("prepare_late", "power_up", {}, {})
  /\ UNCHANGED fzVars

sysdev_suspend(ok) ==
  /\ IF ok THEN Go("sysdevs", "asleep", {"sysdevs"}, {})
           ELSE Go("sysdevs", "power_up", {}, {"irqs", "max_freq"})
  /\ UNCHANGED fzVars

(* suspend_ops->enter returns, with an error or woken up. *)
Wake ==
  /\ Go("asleep", "power_up", {}, {"sysdevs", "irqs", "max_freq"})
  /\ UNCHANGED fzVars

dpm_resume_noirq ==
  /\ Go("power_up", "resume", {}, {"noirq"})
  /\ UNCHANGED fzVars

dpm_resume_end ==
  /\ Go("resume", "finish", {}, {"devices", "console"})
  /\ UNCHANGED fzVars

(* Mutant: suspend_finish thaws the kernel threads alone. *)
suspend_finish_kernel ==
  /\ fz = "frozen"
  /\ Go("finish", "idle", {}, {"oom", "helpers"} \union Finish)
  /\ fz' = "idle"
  /\ frozen' = frozen \ Kthread
  /\ freezing' = {}
  /\ UNCHANGED <<todo, skip, at>>

suspend_finish ==
  /\ thaw_processes
  /\ IF fz = "thaw" THEN Go("finish", "idle", {}, {"oom", "helpers"} \union Finish)
                    ELSE step = "finish" /\ UNCHANGED seqVars

Proceed ==
  \/ FreezeOk \/ FreezeFailed
  \/ \E ok \in BOOLEAN :
       \/ Notify(ok) \/ usermodehelper_disable(ok) \/ dpm_suspend_start(ok)
       \/ suspend_enter(ok) \/ prepare_late(ok) \/ sysdev_suspend(ok)
  \/ Wake \/ dpm_resume_noirq \/ dpm_resume_end \/ suspend_finish

EnterState == enter_state \/ Freezing \/ Proceed

(* No other task runs once the interrupts of the devices are off. *)
TasksRun == Tasks /\ "noirq" \notin taken /\ UNCHANGED seqVars

SeqNext == EnterState \/ TasksRun

SeqSpec == SeqInit /\ [][SeqNext]_<<fzVars, seqVars>>

(* The suspend thread and the tasks are scheduled; sleeps end; a pass that *)
(* leaves tasks to freeze is given up at the latest after TIMEOUT.         *)
SeqFairSpec ==
  /\ SeqSpec
  /\ WF_<<fzVars, seqVars>>(Proceed)
  /\ WF_<<fzVars, seqVars>>(Freezing /\ (RoundDone \/ FreezeAbort))
  /\ \A t \in Task :
       WF_<<fzVars, seqVars>>(TasksRun /\ LeaveRefrigerator(t))
-----------------------------------------------------------------------------
SeqTypeOK ==
  /\ FreezerTypeOK
  /\ step \in Step
  /\ taken \subseteq Resource

(***************************************************************************)
(* Whichever step fails, enter_state returns with everything given back,   *)
(* the lock on the CPU frequency apart (see MaxFreqUnlocked).              *)
(***************************************************************************)
BackToNormal ==
  step = "idle" => taken \subseteq {"max_freq"} /\ fz = "idle" /\ frozen = {}

(***************************************************************************)
(* The machine sleeps only with every task stopped, the helpers disabled   *)
(* and all else prepared.                                                  *)
(***************************************************************************)
AsleepPrepared ==
  step = "asleep" => taken = Resource /\ \A t \in Task : Stopped(t)

(***************************************************************************)
(* No task of user space runs while the devices are down.                  *)
(***************************************************************************)
NoTaskWithoutDevices ==
  "devices" \in taken => \A t \in Task : Stopped(t)

(***************************************************************************)
(* kernel/power/suspend.c: "do the setup for suspend, enter the state, and *)
(* cleaup (after we've woken up)": the frequency lock dvfs_set_max_freq_   *)
(* lock takes for the sleep does not outlive enter_state.                  *)
(***************************************************************************)
MaxFreqUnlocked == step = "idle" => "max_freq" \notin taken

(***************************************************************************)
(* Every attempt to suspend ends, whichever step fails and whichever tasks *)
(* will not freeze.                                                        *)
(***************************************************************************)
AttemptEnds == step # "idle" ~> step = "idle"

(***************************************************************************)
(* Every task that enters the refrigerator gets to run again, after a      *)
(* suspend and after one that was given up while it was on its way in.     *)
(***************************************************************************)
TasksThawed == \A t \in Task : at[t] = "cold" ~> at[t] = "run"
=============================================================================
