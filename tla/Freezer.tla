------------------------------ MODULE Freezer ------------------------------
(***************************************************************************)
(* Stopping all tasks for a suspend and letting them go again:             *)
(* freeze_processes and thaw_processes of Kernel/kernel/power/process.c,   *)
(* the refrigerator of Kernel/kernel/freezer.c, and the waiting parent of  *)
(* a vfork (freezer_do_not_count and freezer_count, linux/freezer.h).      *)
(*                                                                         *)
(* A pass over the tasks holds tasklist_lock on a kernel that is neither   *)
(* SMP nor preemptible, so it is one action; tasks run between passes, at  *)
(* the yield.  A task takes task_lock in the refrigerator, so checking and *)
(* trading TIF_FREEZE for PF_FROZEN is one action too.                     *)
(***************************************************************************)
EXTENDS Integers

CONSTANTS
  User,     \* the tasks that take the fake signal
  Kthread   \* the freezable kernel threads (PF_FREEZER_NOSIG)

ASSUME TaskAssumption == User \intersect Kthread = {}

Task == User \union Kthread

VARIABLES
  fz,       \* where freeze_processes or thaw_processes is
  todo,     \* the last pass left tasks to wait for
  freezing, \* the tasks with TIF_FREEZE
  frozen,   \* the tasks with PF_FROZEN
  skip,     \* the tasks with PF_FREEZER_SKIP
  at        \* where each task is

fzVars == <<fz, todo, freezing, frozen, skip, at>>

FzPc == {"idle", "user", "kernel", "frozen", "failed", "thaw"}

(* Running; in try_to_freeze, which has seen TIF_FREEZE; in the loop of    *)
(* the refrigerator; waiting for a vfork child; just back from that wait.  *)
At == {"run", "enter", "cold", "vfork", "count"}

FreezerInit ==
  /\ fz = "idle"
  /\ todo = FALSE
  /\ freezing = {}
  /\ frozen = {}
  /\ skip = {}
  /\ at \in [Task -> {"run"}]
-----------------------------------------------------------------------------
(* The tasks a pass asks to freeze, with and without sig_only. *)
Asked == IF fz = "user" THEN User ELSE Task

(* Mutant: the first round asks the kernel threads too. *)
FreezePassAll ==
  /\ fz \in {"user", "kernel"}
  /\ todo
  /\ freezing' = freezing \union (Task \ frozen)
  /\ todo' = (Task \ (frozen \union skip) # {})
  /\ UNCHANGED <<fz, frozen, skip, at>>

(* One pass of try_to_freeze_tasks over the tasks that are not frozen. *)
FreezePass ==
  /\ fz \in {"user", "kernel"}
  /\ todo
  /\ freezing' = freezing \union (Asked \ frozen)
  /\ todo' = (Asked \ (frozen \union skip) # {})
  /\ UNCHANGED <<fz, frozen, skip, at>>

freeze_processes ==
  /\ fz = "idle"
  /\ fz' = "user"
  /\ todo' = TRUE
  /\ UNCHANGED <<freezing, frozen, skip, at>>

(* A pass that left nothing to do ends a round. *)
RoundDone ==
  /\ fz \in {"user", "kernel"}
  /\ ~todo
  /\ fz' = IF fz = "user" THEN "kernel" ELSE "frozen"
  /\ todo' = (fz = "user")
  /\ UNCHANGED <<freezing, frozen, skip, at>>

(* A wake lock, or the TIMEOUT: cancel_freezing for every task. *)
FreezeAbort ==
  /\ fz \in {"user", "kernel"}
  /\ todo
  /\ fz' = "failed"
  /\ freezing' = {}
  /\ UNCHANGED <<todo, frozen, skip, at>>

(* Mutant: thaw_process does not clear TIF_FREEZE of a task that is not    *)
(* frozen yet.                                                             *)
thaw_processes_frozen_only ==
  /\ \/ /\ fz \in {"frozen", "failed"}
        /\ fz' = "thaw"
        /\ frozen' = frozen \ Kthread
     \/ /\ fz = "thaw"
        /\ fz' = "idle"
        /\ frozen' = {}
  /\ UNCHANGED <<todo, freezing, skip, at>>

(* thaw_tasks(true) reaches the kernel threads, thaw_tasks(false) all. *)
thaw_processes ==
  /\ \/ /\ fz \in {"frozen", "failed"}
        /\ fz' = "thaw"
        /\ frozen' = frozen \ Kthread
        /\ freezing' = freezing \ (Kthread \ frozen)
     \/ /\ fz = "thaw"
        /\ fz' = "idle"
        /\ frozen' = {}
        /\ freezing' = freezing \ (Task \ frozen)
  /\ UNCHANGED <<todo, skip, at>>
-----------------------------------------------------------------------------
try_to_freeze(t) ==
  /\ at[t] = "run"
  /\ t \in freezing
  /\ at' = [at EXCEPT ![t] = "enter"]
  /\ UNCHANGED <<fz, todo, freezing, frozen, skip>>

refrigerator(t) ==
  /\ at[t] = "enter"
  /\ IF t \in freezing
     THEN /\ frozen' = frozen \union {t}
          /\ freezing' = freezing \ {t}
          /\ at' = [at EXCEPT ![t] = "cold"]
     ELSE /\ at' = [at EXCEPT ![t] = "run"]
          /\ UNCHANGED <<frozen, freezing>>
  /\ UNCHANGED <<fz, todo, skip>>

LeaveRefrigerator(t) ==
  /\ at[t] = "cold"
  /\ t \notin frozen
  /\ at' = [at EXCEPT ![t] = "run"]
  /\ UNCHANGED <<fz, todo, freezing, frozen, skip>>

freezer_do_not_count(t) ==
  /\ t \in User
  /\ at[t] = "run"
  /\ at' = [at EXCEPT ![t] = "vfork"]
  /\ skip' = skip \union {t}
  /\ UNCHANGED <<fz, todo, freezing, frozen>>

(* Clears PF_FREEZER_SKIP, then calls try_to_freeze. *)
freezer_count(t) ==
  \/ /\ at[t] = "vfork"
     /\ at' = [at EXCEPT ![t] = "count"]
     /\ skip' = skip \ {t}
     /\ UNCHANGED <<fz, todo, freezing, frozen>>
  \/ /\ at[t] = "count"
     /\ at' = [at EXCEPT ![t] = IF t \in freezing THEN "enter" ELSE "run"]
     /\ UNCHANGED <<fz, todo, freezing, frozen, skip>>

TaskStep(t) ==
  \/ try_to_freeze(t) \/ refrigerator(t) \/ LeaveRefrigerator(t)
  \/ freezer_do_not_count(t) \/ freezer_count(t)

Tasks == \E t \in Task : TaskStep(t)

FreezerNext ==
  \/ freeze_processes \/ FreezePass \/ RoundDone \/ FreezeAbort \/ thaw_processes
  \/ Tasks

FreezerSpec == FreezerInit /\ [][FreezerNext]_fzVars
-----------------------------------------------------------------------------
FreezerTypeOK ==
  /\ fz \in FzPc
  /\ todo \in BOOLEAN
  /\ freezing \subseteq Task
  /\ frozen \subseteq Task
  /\ skip \subseteq User
  /\ at \in [Task -> At]

(* The task cannot get back to its own code before it is thawed. *)
Stopped(t) ==
  \/ t \in frozen /\ at[t] = "cold"
  \/ t \in freezing /\ at[t] \in {"vfork", "count", "enter"}

(***************************************************************************)
(* Kernel threads are frozen last and thawed first: none is frozen while a *)
(* user task runs that may need it, unless the freezing was given up and   *)
(* the thaw is about to follow.                                            *)
(***************************************************************************)
KernelThreadsLast ==
  fz # "failed" /\ frozen \intersect Kthread # {} =>
    \A t \in User : Stopped(t)

(***************************************************************************)
(* kernel/freezer.c, thaw_process: without task_lock "the task would be    *)
(* frozen and no one would thaw it".  After a thaw, whether the freezing   *)
(* succeeded or was given up, no task is frozen or asked to freeze, nor    *)
(* will one freeze that was on its way into the refrigerator.              *)
(***************************************************************************)
NobodyLeftFrozen == fz = "idle" => frozen = {} /\ freezing = {}
=============================================================================
