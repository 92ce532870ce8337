---------------------------- MODULE WakeLockList ----------------------------
(***************************************************************************)
(* The representation of the wake locks in Kernel/kernel/power/wakelock.c: *)
(* the flags of each lock, the two lists active_wake_locks[], which keep   *)
(* the locks without timeout in front, the walk along them, and the flag   *)
(* WAKE_LOCK_PREVENTING_SUSPEND of the statistics.  WakeLock, with its     *)
(* sets, is what this module implements.                                   *)
(***************************************************************************)
EXTENDS KernelList

CONSTANTS Lock, IdleLock, TimerLock, main, unknown, MaxTimeout, UnknownTimeout

ASSUME ListAssumption ==
  /\ IdleLock \subseteq Lock
  /\ TimerLock \subseteq Lock
  /\ main \in Lock \ IdleLock
  /\ unknown \in Lock \ (IdleLock \cup {main})
  /\ MaxTimeout \in Nat \ {0}
  /\ UnknownTimeout \in 1 .. MaxTimeout

VARIABLES
  flags,     \* lock->flags, the type bits apart
  active,    \* active_wake_locks[]
  inactive,  \* inactive_locks (its order is read by nobody)
  left, timer, work, susp, event  \* as in WakeLock

lvars == <<flags, active, inactive, left, timer, work, susp, event>>

Flag == {"INITIALIZED", "ACTIVE", "AUTO_EXPIRE", "PREVENTING_SUSPEND"}
Type(l) == IF l \in IdleLock THEN "IDLE" ELSE "SUSPEND"

ListInit ==
  /\ flags = [l \in Lock |-> CASE l = main -> {"INITIALIZED", "ACTIVE"}
                               [] l = unknown -> {"INITIALIZED"}
                               [] OTHER -> {}]
  /\ active = [t \in {"SUSPEND", "IDLE"} |-> IF t = "SUSPEND" THEN <<main>> ELSE <<>>]
  /\ inactive = {unknown}
  /\ left = [l \in Lock |-> 0]
  /\ timer = -1
  /\ work = FALSE
  /\ susp = "idle"
  /\ event = FALSE
-----------------------------------------------------------------------------
(* get_expired_time *)
IsExpired(fl, lf, l) == "AUTO_EXPIRE" \in fl[l] /\ lf[l] = 0

(* Mutant: the statistics keep WAKE_LOCK_PREVENTING_SUSPEND set. *)
wake_unlock_stat_locked_kept(fl, S) == fl

(* wake_unlock_stat_locked, for the locks of S *)
wake_unlock_stat_locked(fl, S) ==
  [l \in Lock |-> IF l \in S /\ "ACTIVE" \in fl[l]
                  THEN fl[l] \ {"PREVENTING_SUSPEND"} ELSE fl[l]]

update_sleep_wait_stats_locked(fl, list, lf, done) ==
  [l \in Lock |->
    IF l \notin ToSet(list) THEN fl[l]
    ELSE IF done \/ IsExpired(fl, lf, l) THEN fl[l] \ {"PREVENTING_SUSPEND"}
    ELSE fl[l] \union {"PREVENTING_SUSPEND"}]

(* expire_wake_lock, for the locks of S, on the flags and on the lists *)
expire_wake_lock(fl, S) ==
  LET st == wake_unlock_stat_locked(fl, S)
  IN  [l \in Lock |-> IF l \in S THEN st[l] \ {"ACTIVE", "AUTO_EXPIRE"} ELSE st[l]]

(* Mutant: the walk takes the time left of the last lock for the largest. *)
has_wake_lock_locked_last(fl, list, lf) ==
  LET walk[n \in 0 .. Len(list)] ==
        IF n = 0 THEN [ret |-> 0, gone |-> {}, kept |-> list]
        ELSE LET l == list[n]
                 acc == walk[n - 1]
             IN  IF acc.ret = -1 THEN acc
                 ELSE IF "AUTO_EXPIRE" \notin fl[l] THEN [acc EXCEPT !.ret = -1]
                 ELSE IF lf[l] = 0 THEN [acc EXCEPT !.gone = @ \union {l}, !.kept = list_del(@, l)]
                 ELSE [acc EXCEPT !.ret = lf[l]]
  IN walk[Len(list)]

(* What the walk of has_wake_lock_locked does at lock l, where acc has its *)
(* result so far (-1 ends it), the locks it has found expired, and the     *)
(* list without them.                                                      *)
Visit(fl, lf, l, acc) ==
  IF acc.ret = -1 THEN acc
  ELSE IF "AUTO_EXPIRE" \notin fl[l] THEN [acc EXCEPT !.ret = -1]
  ELSE IF lf[l] = 0 THEN [acc EXCEPT !.gone = @ \union {l}, !.kept = list_del(@, l)]
  ELSE [acc EXCEPT !.ret = IF lf[l] > @ THEN lf[l] ELSE @]

(* The walk, up to each place of the list. *)
WalkUpTo(fl, list, lf) ==
  LET walk[n \in 0 .. Len(list)] ==
        IF n = 0 THEN [ret |-> 0, gone |-> {}, kept |-> list]
                 ELSE Visit(fl, lf, list[n], walk[n - 1])
  IN walk

has_wake_lock_locked(fl, list, lf) == WalkUpTo(fl, list, lf)[Len(list)]

(* The state after that walk. *)
SetLists(fl, look, off) ==
  /\ flags' = expire_wake_lock(fl, look.gone)
  /\ active' = [active EXCEPT !["SUSPEND"] = look.kept]
  /\ inactive' = off \union look.gone

Rearm(ret) ==
  /\ timer' = IF ret > 0 THEN ret ELSE -1
  /\ work' = (work \/ ret = 0)
-----------------------------------------------------------------------------
TasksRun == susp \notin {"late", "asleep"}

wake_lock_init(l) ==
  /\ TasksRun
  /\ "INITIALIZED" \notin flags[l]
  /\ flags' = [flags EXCEPT ![l] = {"INITIALIZED"}]
  /\ inactive' = inactive \union {l}
  /\ UNCHANGED <<active, left, timer, work, susp, event>>

wake_lock_destroy(l) ==
  /\ TasksRun
  /\ "INITIALIZED" \in flags[l]
  /\ "ACTIVE" \in flags[l] => "AUTO_EXPIRE" \in flags[l]
  /\ flags' = [flags EXCEPT ![l] = @ \ {"INITIALIZED"}]
  /\ active' = [active EXCEPT ![Type(l)] = list_del(@, l)]
  /\ inactive' = inactive \ {l}
  /\ UNCHANGED <<left, timer, work, susp, event>>

wake_lock_internal(l, timeout, has_timeout) ==
  LET stale == IF IsExpired(flags, left, l) THEN {l} ELSE {}
      fl == [wake_unlock_stat_locked(flags, stale) EXCEPT ![l] =
              IF has_timeout THEN @ \union {"ACTIVE", "AUTO_EXPIRE"}
                             ELSE (@ \union {"ACTIVE"}) \ {"AUTO_EXPIRE"}]
      rest == list_del(active[Type(l)], l)
      list == IF has_timeout THEN Append(rest, l) ELSE <<l>> \o rest
      lf == [left EXCEPT ![l] = timeout]
      st == IF l = main THEN update_sleep_wait_stats_locked(fl, list, lf, TRUE)
            ELSE IF "ACTIVE" \notin fl[main]
            THEN update_sleep_wait_stats_locked(fl, list, lf, FALSE)
            ELSE fl
      look == IF has_timeout THEN has_wake_lock_locked(st, list, lf)
                             ELSE [ret |-> -1, gone |-> {}, kept |-> list]
  IN  /\ "INITIALIZED" \in flags[l]
      /\ left' = lf
      /\ \/ /\ Type(l) = "IDLE"
            /\ flags' = fl
            /\ active' = [active EXCEPT !["IDLE"] = list]
            /\ inactive' = inactive \ {l}
            /\ UNCHANGED <<timer, work, event>>
         \/ /\ Type(l) = "SUSPEND"
            /\ SetLists(st, look, inactive \ {l})
            /\ Rearm(look.ret)
            /\ event' = TRUE

wake_lock(l) ==
  /\ TasksRun
  /\ wake_lock_internal(l, 0, FALSE)
  /\ UNCHANGED susp

wake_lock_timeout(l, timeout) ==
  /\ TasksRun \/ (susp = "late" /\ l \in TimerLock)
  /\ wake_lock_internal(l, timeout, TRUE)
  /\ UNCHANGED susp

wake_unlock(l) ==
  LET fl == [wake_unlock_stat_locked(flags, {l}) EXCEPT ![l] = @ \ {"ACTIVE", "AUTO_EXPIRE"}]
      list == list_del(active[Type(l)], l)
      look == has_wake_lock_locked(fl, list, left)
      gone == expire_wake_lock(fl, look.gone)
  IN  /\ TasksRun
      /\ "INITIALIZED" \in flags[l]
      /\ \/ /\ Type(l) = "IDLE"
            /\ flags' = fl
            /\ active' = [active EXCEPT !["IDLE"] = list]
            /\ inactive' = inactive \union {l}
            /\ UNCHANGED <<timer, work>>
         \/ /\ Type(l) = "SUSPEND"
            /\ Rearm(look.ret)
            /\ flags' = IF l = main
                        THEN update_sleep_wait_stats_locked(gone, look.kept, left, FALSE)
                        ELSE gone
            /\ active' = [active EXCEPT !["SUSPEND"] = look.kept]
            /\ inactive' = (inactive \union {l}) \union look.gone
      /\ UNCHANGED <<left, susp, event>>
-----------------------------------------------------------------------------
Tick ==
  /\ susp # "asleep"
  /\ left' = [l \in Lock |-> IF left[l] > 0 THEN left[l] - 1 ELSE 0]
  /\ timer' = IF timer > 0 THEN timer - 1 ELSE timer
  /\ UNCHANGED <<flags, active, inactive, work, susp, event>>

Look == has_wake_lock_locked(flags, active["SUSPEND"], left)

expire_wake_locks ==
  /\ susp # "asleep"
  /\ timer = 0
  /\ timer' = -1
  /\ work' = (work \/ Look.ret = 0)
  /\ SetLists(flags, Look, inactive)
  /\ UNCHANGED <<left, susp, event>>

has_wake_lock(ifFree, ifHeld) ==
  /\ susp' = IF Look.ret = 0 THEN ifFree ELSE ifHeld
  /\ SetLists(flags, Look, inactive)

(* suspend(), as in WakeLock *)
suspend ==
  \/ /\ susp = "idle" /\ work /\ work' = FALSE
     /\ has_wake_lock("checked", "idle")
     /\ UNCHANGED <<left, timer, event>>
  \/ /\ susp = "checked" /\ susp' = "pm" /\ event' = FALSE
     /\ UNCHANGED <<flags, active, inactive, left, timer, work>>
  \/ /\ susp = "pm"
     /\ has_wake_lock("pm", "resumed") \/ has_wake_lock("late", "resumed")
     /\ UNCHANGED <<left, timer, work, event>>
  \/ /\ \/ susp \in {"pm", "late"} /\ susp' = "resumed"
        \/ susp = "late" /\ susp' = "asleep"
        \/ susp = "asleep" /\ susp' = "resumed"
     /\ UNCHANGED <<flags, active, inactive, left, timer, work, event>>
  \/ /\ susp = "resumed" /\ susp' = "idle"
     /\ \/ event /\ UNCHANGED <<flags, active, inactive, left, timer, work, event>>
        \/ ~event /\ wake_lock_internal(unknown, UnknownTimeout, TRUE)

LockOp(l) ==
  \/ wake_lock(l)
  \/ wake_unlock(l)
  \/ /\ l # main
     /\ \/ wake_lock_init(l)
        \/ wake_lock_destroy(l)
        \/ \E t \in 0 .. MaxTimeout : wake_lock_timeout(l, t)

ListNext ==
  \/ \E l \in Lock \ {unknown} : LockOp(l)
  \/ Tick
  \/ expire_wake_locks
  \/ suspend

ListSpec == ListInit /\ [][ListNext]_lvars
-----------------------------------------------------------------------------
On(t) == ToSet(active[t])
Listed == On("SUSPEND") \union On("IDLE")

ListTypeOK ==
  /\ flags \in [Lock -> SUBSET Flag]
  /\ active \in [{"SUSPEND", "IDLE"} -> Seq(Lock)]
  /\ inactive \subseteq Lock
  /\ left \in [Lock -> 0 .. MaxTimeout]
  /\ timer \in -1 .. MaxTimeout
  /\ work \in BOOLEAN

(***************************************************************************)
(* Every initialised lock is linked into exactly one list, once, and it is *)
(* the list that WAKE_LOCK_ACTIVE and the type bits name: list_del never   *)
(* meets a lock twice or an unlinked one.                                  *)
(***************************************************************************)
LinkedOnce ==
  /\ \A t \in {"SUSPEND", "IDLE"} : IsInjective(active[t]) /\ \A l \in On(t) : Type(l) = t
  /\ inactive \intersect Listed = {}
  /\ \A l \in Lock :
       IF "INITIALIZED" \in flags[l]
       THEN /\ "ACTIVE" \in flags[l] <=> l \in On(Type(l))
            /\ "ACTIVE" \notin flags[l] <=> l \in inactive
       ELSE l \notin inactive \union Listed

(***************************************************************************)
(* The locks without timeout are in front on each list, where              *)
(* has_wake_lock_locked meets them before it expires anything.             *)
(***************************************************************************)
UntimedFirst ==
  \A t \in {"SUSPEND", "IDLE"} : \A i, j \in DOMAIN active[t] :
    i < j /\ "AUTO_EXPIRE" \notin flags[active[t][j]] =>
      "AUTO_EXPIRE" \notin flags[active[t][i]]

(***************************************************************************)
(* The time for which a lock prevents suspend is charged exactly while it  *)
(* does: WAKE_LOCK_PREVENTING_SUSPEND is set on an initialised lock only   *)
(* when it is active and main_wake_lock is not, and then it is set on      *)
(* every active lock that still has time left.                             *)
(***************************************************************************)
SleepTimeCharged ==
  \A l \in Lock \ IdleLock : "INITIALIZED" \in flags[l] =>
    /\ "PREVENTING_SUSPEND" \in flags[l] =>
         "ACTIVE" \in flags[l] /\ "ACTIVE" \notin flags[main]
    /\ /\ "ACTIVE" \in flags[l]
       /\ "ACTIVE" \notin flags[main]
       /\ ~IsExpired(flags, left, l)
       => "PREVENTING_SUSPEND" \in flags[l]

(***************************************************************************)
(* With the lists taken as sets, every step is a step of WakeLock.         *)
(***************************************************************************)
Abs == INSTANCE WakeLock WITH
  inited <- {l \in Lock : "INITIALIZED" \in flags[l]},
  held <- Listed,
  auto <- {l \in Lock : "AUTO_EXPIRE" \in flags[l]}

ImplementsWakeLock == Abs!Spec
=============================================================================
