------------------------- MODULE EarlySuspendProofs -------------------------
(***************************************************************************)
(* Proofs about the wake locks, early suspend and its frame buffer         *)
(* handler, for every set of handlers, levels and locks.                   *)
(*                                                                         *)
(* First the wake locks alone: TimerCovers is inductive with TypeOK, and   *)
(* SuspendNotLost rests on it, since the suspend work that finds a lock    *)
(* with time left returns and forgets its request, which is right only     *)
(* because the timer is then pending.                                      *)
(*                                                                         *)
(* Early suspend implements WakeLock (every step is one of its steps or    *)
(* leaves its variables alone), so all that is proved of the locks holds   *)
(* there too.  The promises of earlysuspend.c rest on two facts that take  *)
(* the requests, the queue and the thread together: a request that is not  *)
(* yet carried out has its work item queued or running (Answered), and     *)
(* what has been called is a prefix of the list sorted by level, however   *)
(* far a walk is (WalkInStep, Sorted).                                     *)
(***************************************************************************)
EXTENDS FbEarlySuspend, SequenceTheorems, TLAPS

LateTimerLocksOnly == susp \in {"late", "asleep"} => Blocking \subseteq TimerLock

IInv == TypeOK /\ TimerCovers /\ SuspendNotLost

-----------------------------------------------------------------------------
(* has_wake_lock_locked returns a value of the type it is declared with. *)
LEMMA HasWakeLockType ==
  ASSUME NEW h \in SUBSET Lock, NEW a \in SUBSET Lock,
         NEW lf \in [Lock -> 0 .. MaxTimeout],
         NEW ret \in -1 .. MaxTimeout, HasWakeLock(h, a, lf, ret)
  PROVE  /\ ret = -1 <=> Untimed(h, a) # {}
         /\ ret = 0 => \A l \in h \ IdleLock : lf[l] = 0
         /\ ret > 0 => \E l \in h \ IdleLock : lf[l] = ret
         /\ ret >= 0 => \A l \in h \ IdleLock : lf[l] <= ret
  BY LockAssumption DEF HasWakeLock, Untimed

(* Taking the expired locks off leaves the locks without timeout alone. *)
LEMMA ExpireKeepsUntimed ==
  ASSUME NEW h, NEW a, NEW lf
  PROVE  /\ Untimed(h \ Expired(h, a, lf), a \ Expired(h, a, lf)) = Untimed(h, a)
         /\ h \ Expired(h, a, lf) \subseteq h
  BY DEF Untimed, Expired

(***************************************************************************)
(* The tail that wake_lock_internal and wake_unlock share establishes both *)
(* invariants whatever held before: this is where the timer is armed.      *)
(***************************************************************************)
LEMMA RearmEstablishes ==
  ASSUME NEW h \in SUBSET Lock, NEW a \in SUBSET Lock,
         NEW lf \in [Lock -> 0 .. MaxTimeout], NEW ret \in -1 .. MaxTimeout,
         HasWakeLock(h, a, lf, ret), Rearm(ret), ExpireFrom(h, a, lf),
         left' = lf
  PROVE  TimerCovers' /\ SuspendNotLost'
<1>1. Untimed(held', auto') = Untimed(h, a) /\ held' \subseteq h
  BY ExpireKeepsUntimed DEF ExpireFrom
<1>2. CASE Untimed(h, a) # {}
  BY <1>1, <1>2 DEF TimerCovers, SuspendNotLost
<1>3. CASE Untimed(h, a) = {}
  <2>1. ret >= 0 /\ \A l \in h \ IdleLock : lf[l] <= ret
    BY <1>3, HasWakeLockType
  <2>2. CASE ret > 0
    <3>1. timer' = ret
      BY <2>2 DEF Rearm
    <3> QED
      BY <1>1, <2>1, <2>2, <3>1 DEF TimerCovers, SuspendNotLost, Blocking
  <2>3. CASE ret = 0
    <3>1. work'
      BY <2>3 DEF Rearm
    <3> QED
      BY <1>1, <2>1, <2>3, <3>1 DEF TimerCovers, SuspendNotLost, Blocking
  <2> QED
    BY <2>1, <2>2, <2>3
<1> QED
  BY <1>2, <1>3
-----------------------------------------------------------------------------
(***************************************************************************)
(* Type correctness of every wake-lock operation and every step of         *)
(* suspend(): in particular no lock stays on active_wake_locks[] after     *)
(* wake_lock_destroy.                                                      *)
(***************************************************************************)
LEMMA RearmType ==
  ASSUME TypeOK, NEW ret \in -1 .. MaxTimeout, Rearm(ret)
  PROVE  timer' \in -1 .. MaxTimeout /\ work' \in BOOLEAN
<1>1. timer' \in -1 .. MaxTimeout
  BY LockAssumption DEF Rearm
<1>2. work' \in BOOLEAN
  BY Zenon DEF Rearm, TypeOK
<1> QED
  BY <1>1, <1>2

(* wake_lock_internal keeps every variable in its type. *)
LEMMA InternalType ==
  ASSUME TypeOK, NEW l \in Lock, NEW t \in 0 .. MaxTimeout,
         NEW b \in BOOLEAN, wake_lock_internal(l, t, b), susp' \in Phase
  PROVE  TypeOK'
<1> DEFINE h == held \union {l}
           a == IF b THEN auto \union {l} ELSE auto \ {l}
           lf == [left EXCEPT ![l] = IF b THEN t ELSE 0]
<1>1. h \subseteq inited /\ a \subseteq Lock /\ inited' = inited
  BY DEF TypeOK, wake_lock_internal
<1>2. left' = lf /\ lf \in [Lock -> 0 .. MaxTimeout]
  BY LockAssumption DEF TypeOK, wake_lock_internal
<1>3. held' \subseteq h /\ auto' \subseteq a
  BY DEF wake_lock_internal, ExpireFrom
<1>4. -1 \in -1 .. MaxTimeout
  BY LockAssumption
<1>5. /\ timer' \in -1 .. MaxTimeout
      /\ work' \in BOOLEAN
      /\ event' \in BOOLEAN
  BY <1>4, RearmType, Zenon DEF TypeOK, wake_lock_internal
<1> QED
  BY <1>1, <1>2, <1>3, <1>5, Zenon DEF TypeOK

(* So does every step of the drivers, the timer and suspend(). *)
LEMMA TypeStep == TypeOK /\ [Next]_vars => TypeOK'
<1> SUFFICES ASSUME TypeOK, [Next]_vars PROVE TypeOK'
  OBVIOUS
<1> USE LockAssumption
<1>1. ASSUME NEW l \in Lock, wake_lock_init(l) PROVE TypeOK'
  BY <1>1 DEF TypeOK, wake_lock_init
<1>2. ASSUME NEW l \in Lock, wake_lock_destroy(l) PROVE TypeOK'
  BY <1>2 DEF TypeOK, wake_lock_destroy
<1>3. ASSUME NEW l \in Lock, wake_lock(l) PROVE TypeOK'
  <2>1. 0 \in 0 .. MaxTimeout
    OBVIOUS
  <2> QED
    BY <1>3, <2>1, InternalType, Zenon DEF TypeOK, wake_lock
<1>4. ASSUME NEW l \in Lock, NEW t \in 0 .. MaxTimeout, wake_lock_timeout(l, t)
      PROVE  TypeOK'
  BY <1>4, InternalType, Zenon DEF TypeOK, wake_lock_timeout
<1>5. ASSUME NEW l \in Lock, wake_unlock(l) PROVE TypeOK'
  <2>1. timer' \in -1 .. MaxTimeout /\ work' \in BOOLEAN
    BY <1>5, RearmType, Zenon DEF TypeOK, wake_unlock
  <2>2. held' \subseteq held /\ auto' \subseteq auto
    BY <1>5 DEF wake_unlock, ExpireFrom
  <2> QED
    BY <1>5, <2>1, <2>2, Zenon DEF TypeOK, wake_unlock
<1>6. CASE Tick
  BY <1>6 DEF TypeOK, Tick
<1>7. CASE expire_wake_locks
  <2>1. timer' \in -1 .. MaxTimeout
    BY <1>7 DEF expire_wake_locks
  <2>2. work' \in BOOLEAN
    BY <1>7, Zenon DEF TypeOK, expire_wake_locks
  <2>3. held' \subseteq held /\ auto' \subseteq auto
    BY <1>7 DEF expire_wake_locks, ExpireFrom
  <2> QED
    BY <1>7, <2>1, <2>2, <2>3, Zenon DEF TypeOK, expire_wake_locks
<1>8. CASE SuspendCheck
  BY <1>8 DEF TypeOK, SuspendCheck, has_wake_lock, ExpireFrom, Phase
<1>9. CASE SuspendEntry
  BY <1>9 DEF TypeOK, SuspendEntry, Phase
<1>10. CASE FreezeCheck
  BY <1>10 DEF TypeOK, FreezeCheck, has_wake_lock, ExpireFrom, Phase
<1>11. CASE power_suspend_late
  BY <1>11 DEF TypeOK, power_suspend_late, has_wake_lock, ExpireFrom, Phase
<1>12. CASE PmFail \/ PmEnter \/ PmWake
  BY <1>12 DEF TypeOK, PmFail, PmEnter, PmWake, Phase
<1>13. CASE SuspendExit
  <2>1. susp' \in Phase
    BY <1>13 DEF SuspendExit, Phase
  <2>2. CASE UNCHANGED <<inited, held, auto, left, timer, work, event>>
    BY <2>1, <2>2 DEF TypeOK
  <2>3. CASE wake_lock_internal(unknown, UnknownTimeout, TRUE)
    <3>1. UnknownTimeout \in 0 .. MaxTimeout
      OBVIOUS
    <3> QED
      BY <2>1, <2>3, <3>1, InternalType, Zenon
  <2> QED
    BY <1>13, <2>2, <2>3 DEF SuspendExit
<1>14. CASE UNCHANGED vars
  BY <1>14 DEF TypeOK, vars
<1> QED
  BY <1>1, <1>2, <1>3, <1>4, <1>5, <1>6, <1>7, <1>8, <1>9, <1>10, <1>11,
     <1>12, <1>13, <1>14 DEF Next, Kernel, Drivers, LockOp, PmSuspend

(* The types hold after wakelocks_init, with main_wake_lock held. *)
LEMMA TypeInit == Init => TypeOK
<1> SUFFICES ASSUME Init PROVE TypeOK
  OBVIOUS
<1>1. left \in [Lock -> 0 .. MaxTimeout] /\ timer \in -1 .. MaxTimeout
  BY LockAssumption DEF Init
<1>2. inited \subseteq Lock /\ held \subseteq inited /\ auto \subseteq Lock
  BY LockAssumption DEF Init
<1> QED
  BY <1>1, <1>2, Zenon DEF Init, TypeOK, Phase

(* Every state of the system is well typed. *)
THEOREM TypeCorrect == Spec => []TypeOK
  BY TypeInit, TypeStep, PTL DEF Spec
-----------------------------------------------------------------------------
(* Locking establishes both invariants, an idle lock apart, which changes  *)
(* nothing they speak of.                                                  *)
LEMMA InternalInv ==
  ASSUME IInv, NEW l \in Lock, NEW t \in 0 .. MaxTimeout,
         NEW b \in BOOLEAN, wake_lock_internal(l, t, b),
         l \in IdleLock => UNCHANGED susp
  PROVE  TimerCovers' /\ SuspendNotLost'
<1> DEFINE h == held \union {l}
           a == IF b THEN auto \union {l} ELSE auto \ {l}
           lf == [left EXCEPT ![l] = IF b THEN t ELSE 0]
<1>1. left' = lf
  BY DEF wake_lock_internal
<1>2. h \in SUBSET Lock /\ a \in SUBSET Lock
  BY DEF IInv, TypeOK
<1>3. lf \in [Lock -> 0 .. MaxTimeout]
  BY LockAssumption DEF IInv, TypeOK
<1>4. CASE l \in IdleLock
  <2>1. held' = h /\ auto' = a /\ UNCHANGED <<timer, work, event, susp>>
    BY <1>4 DEF wake_lock_internal
  <2>2. /\ Untimed(held', auto') = Untimed(held, auto)
        /\ held' \ IdleLock = held \ IdleLock
    BY <1>4, <2>1 DEF Untimed
  <2>3. \A k \in held \ IdleLock : lf[k] = left[k]
    BY <1>4 DEF IInv, TypeOK
  <2>4. TimerCovers'
    BY <1>1, <2>1, <2>2, <2>3 DEF IInv, TimerCovers, Blocking
  <2>5. SuspendNotLost'
    BY <2>1, <2>2 DEF IInv, SuspendNotLost
  <2> QED
    BY <2>4, <2>5
<1>5. CASE l \notin IdleLock /\ b
  <2>1. PICK ret \in -1 .. MaxTimeout :
          HasWakeLock(h, a, lf, ret) /\ Rearm(ret) /\ ExpireFrom(h, a, lf)
    BY <1>5, Zenon DEF wake_lock_internal
  <2> HIDE DEF h, a, lf
  <2> QED
    BY <1>1, <1>2, <1>3, <2>1, RearmEstablishes
<1>6. CASE l \notin IdleLock /\ ~b
  <2>1. held' = h /\ auto' = auto \ {l}
    BY <1>6 DEF wake_lock_internal
  <2>2. l \in Untimed(held', auto')
    BY <1>6, <2>1 DEF Untimed
  <2> QED
    BY <2>2, Zenon DEF TimerCovers, SuspendNotLost
<1> QED
  BY <1>4, <1>5, <1>6

(* The looks suspend() and pm_suspend take at the locks. *)
LEMMA LookInv ==
  ASSUME IInv, NEW p, NEW q, has_wake_lock(p, q), UNCHANGED <<left, timer>>
  PROVE  /\ Untimed(held', auto') = Untimed(held, auto)
         /\ TimerCovers'
         /\ Untimed(held, auto) = {} /\ timer < 0 => susp' = p
<1>1. Untimed(held', auto') = Untimed(held, auto) /\ held' \subseteq held
  BY ExpireKeepsUntimed DEF has_wake_lock, ExpireFrom
<1>2. TimerCovers'
  BY <1>1 DEF IInv, TimerCovers, Blocking
<1>3. PICK ret \in -1 .. MaxTimeout :
        /\ HasWakeLock(held, auto, left, ret)
        /\ susp' = IF ret = 0 THEN p ELSE q
  BY Zenon DEF has_wake_lock
<1>4. ASSUME Untimed(held, auto) = {}, timer < 0 PROVE susp' = p
  <2>1. /\ held \in SUBSET Lock
        /\ auto \in SUBSET Lock
        /\ left \in [Lock -> 0 .. MaxTimeout]
        /\ timer \in Int
    BY LockAssumption DEF IInv, TypeOK
  <2>2. \A l \in held \ IdleLock : ~ (left[l] > 0)
    BY <1>4, <2>1 DEF IInv, TimerCovers, Blocking
  <2>3. ret >= 0 /\ (ret > 0 => \E l \in held \ IdleLock : left[l] = ret)
    <3>1. HasWakeLock(held, auto, left, ret) /\ ret \in -1 .. MaxTimeout
      BY <1>3, Zenon
    <3>2. /\ ret = -1 <=> Untimed(held, auto) # {}
          /\ ret > 0 => \E l \in held \ IdleLock : left[l] = ret
      BY ONLY <2>1, <3>1, HasWakeLockType
    <3> QED BY <1>4, <3>1, <3>2, LockAssumption
  <2>4. ret = 0
    BY <2>2, <2>3
  <2> QED
    BY <1>3, <2>4
<1> QED
  BY <1>1, <1>2, <1>4, Zenon

(* The inductive step, one case per operation on a lock, per timer event   *)
(* and per step of suspend().                                              *)
LEMMA IInvStep == IInv /\ [Next]_vars => IInv'
<1> SUFFICES ASSUME IInv, [Next]_vars PROVE TimerCovers' /\ SuspendNotLost'
  BY TypeStep DEF IInv
<1> USE LockAssumption
<1>1. ASSUME NEW l \in Lock, wake_lock_init(l)
      PROVE  TimerCovers' /\ SuspendNotLost'
  <2>1. Untimed(held', auto') = Untimed(held, auto)
    BY <1>1 DEF wake_lock_init, IInv, TypeOK, Untimed
  <2> QED
    BY <1>1, <2>1 DEF wake_lock_init, IInv, TimerCovers, SuspendNotLost, Blocking
<1>2. ASSUME NEW l \in Lock, wake_lock_destroy(l)
      PROVE  TimerCovers' /\ SuspendNotLost'
  <2>1. Untimed(held', auto') = Untimed(held, auto) /\ held' \subseteq held
    BY <1>2 DEF wake_lock_destroy, Untimed
  <2> QED
    BY <1>2, <2>1 DEF wake_lock_destroy, IInv, TimerCovers, SuspendNotLost, Blocking
<1>3. ASSUME NEW l \in Lock, wake_lock(l)
      PROVE  TimerCovers' /\ SuspendNotLost'
  <2>1. 0 \in 0 .. MaxTimeout
    OBVIOUS
  <2> QED
    BY <1>3, <2>1, InternalInv, Zenon DEF wake_lock
<1>4. ASSUME NEW l \in Lock, NEW t \in 0 .. MaxTimeout, wake_lock_timeout(l, t)
      PROVE  TimerCovers' /\ SuspendNotLost'
  BY <1>4, InternalInv, Zenon DEF wake_lock_timeout
<1>5. ASSUME NEW l \in Lock, wake_unlock(l)
      PROVE  TimerCovers' /\ SuspendNotLost'
  <2> DEFINE h == held \ {l}
             a == auto \ {l}
  <2>1. CASE l \in IdleLock
    <3>1. Untimed(held', auto') = Untimed(held, auto) /\ held' \subseteq held
      BY <1>5, <2>1 DEF wake_unlock, Untimed
    <3> QED
      BY <1>5, <2>1, <3>1
      DEF wake_unlock, IInv, TimerCovers, SuspendNotLost, Blocking
  <2>2. CASE l \notin IdleLock
    <3>1. PICK ret \in -1 .. MaxTimeout :
            HasWakeLock(h, a, left, ret) /\ Rearm(ret) /\ ExpireFrom(h, a, left)
      BY <1>5, <2>2, Zenon DEF wake_unlock
    <3>2. h \in SUBSET Lock /\ a \in SUBSET Lock
      BY DEF IInv, TypeOK
    <3>3. left' = left /\ left \in [Lock -> 0 .. MaxTimeout]
      BY <1>5 DEF IInv, TypeOK, wake_unlock
    <3> HIDE DEF h, a
    <3> QED
      BY <3>1, <3>2, <3>3, RearmEstablishes
  <2> QED
    BY <2>1, <2>2
<1>6. CASE Tick
  <2>1. \A l \in Lock : left'[l] > 0 => left[l] > 0 /\ left'[l] = left[l] - 1
    BY <1>6 DEF Tick, IInv, TypeOK
  <2>2. TimerCovers'
    BY <1>6, <2>1 DEF Tick, IInv, TypeOK, TimerCovers, Blocking
  <2>3. SuspendNotLost'
    BY <1>6 DEF Tick, IInv, TypeOK, SuspendNotLost
  <2> QED
    BY <2>2, <2>3
<1>7. CASE expire_wake_locks
  <2>1. Untimed(held', auto') = Untimed(held, auto) /\ held' \subseteq held
    BY <1>7, ExpireKeepsUntimed DEF expire_wake_locks, ExpireFrom
  <2>2. CASE Untimed(held, auto) # {}
    BY <2>1, <2>2 DEF TimerCovers, SuspendNotLost
  <2>3. CASE Untimed(held, auto) = {}
    <3>1. /\ held \in SUBSET Lock
          /\ auto \in SUBSET Lock
          /\ left \in [Lock -> 0 .. MaxTimeout]
      BY DEF IInv, TypeOK
    <3>2. \A l \in held \ IdleLock : ~ (left[l] > 0)
      BY <1>7, <2>3, <3>1 DEF expire_wake_locks, IInv, TimerCovers, Blocking
    <3>3. PICK ret \in -1 .. MaxTimeout :
            /\ HasWakeLock(held, auto, left, ret)
            /\ work' = IF ret = 0 THEN TRUE ELSE work
      BY <1>7, Zenon DEF expire_wake_locks
    <3>4. ret >= 0 /\ (ret > 0 => \E l \in held \ IdleLock : left[l] = ret)
      <4>1. HasWakeLock(held, auto, left, ret) /\ ret \in -1 .. MaxTimeout
        BY <3>3, Zenon
      <4>2. /\ ret = -1 <=> Untimed(held, auto) # {}
            /\ ret > 0 => \E l \in held \ IdleLock : left[l] = ret
        BY ONLY <3>1, <4>1, HasWakeLockType
      <4> QED BY <2>3, <4>1, <4>2, LockAssumption
    <3>5. ret = 0
      BY <3>2, <3>4
    <3>6. work'
      BY <3>3, <3>5
    <3>7. left' = left
      BY <1>7 DEF expire_wake_locks
    <3>8. TimerCovers'
      BY <2>1, <3>2, <3>7 DEF TimerCovers, Blocking
    <3> QED
      BY <3>6, <3>8 DEF SuspendNotLost
  <2> QED
    BY <2>2, <2>3
<1>8. CASE SuspendCheck
  <2>1. /\ Untimed(held', auto') = Untimed(held, auto)
        /\ TimerCovers'
        /\ Untimed(held, auto) = {} /\ timer < 0 => susp' = "checked"
    BY <1>8, LookInv, Zenon DEF SuspendCheck
  <2>2. timer' = timer /\ timer \in Int
    BY <1>8 DEF SuspendCheck, IInv, TypeOK
  <2>3. SuspendNotLost'
    BY <2>1, <2>2 DEF SuspendNotLost
  <2> QED
    BY <2>1, <2>3
<1>9. CASE SuspendEntry
  BY <1>9 DEF SuspendEntry, IInv, TimerCovers, SuspendNotLost, Blocking
<1>10. CASE FreezeCheck \/ power_suspend_late
  <2>1. /\ Untimed(held', auto') = Untimed(held, auto)
        /\ TimerCovers'
    BY <1>10, LookInv, Zenon DEF FreezeCheck, power_suspend_late
  <2>2. susp = "pm" /\ susp' # "idle" /\ UNCHANGED <<timer, work, event>>
    BY <1>10 DEF FreezeCheck, power_suspend_late, has_wake_lock
  <2>3. SuspendNotLost'
    BY <2>1, <2>2 DEF IInv, SuspendNotLost
  <2> QED
    BY <2>1, <2>3
<1>11. CASE PmFail \/ PmEnter \/ PmWake
  BY <1>11 DEF PmFail, PmEnter, PmWake, IInv, TimerCovers, SuspendNotLost, Blocking
<1>12. CASE SuspendExit
  <2>1. CASE event /\ UNCHANGED <<inited, held, auto, left, timer, work, event>>
    BY <1>12, <2>1 DEF SuspendExit, IInv, TimerCovers, SuspendNotLost, Blocking
  <2>2. CASE wake_lock_internal(unknown, UnknownTimeout, TRUE)
    <3>1. UnknownTimeout \in 0 .. MaxTimeout /\ unknown \notin IdleLock
      OBVIOUS
    <3> QED
      BY <2>2, <3>1, InternalInv, Zenon
  <2> QED
    BY <1>12, <2>1, <2>2 DEF SuspendExit
<1>13. CASE UNCHANGED vars
  BY <1>13 DEF vars, IInv, TimerCovers, SuspendNotLost, Blocking
<1> QED
  BY <1>1, <1>2, <1>3, <1>4, <1>5, <1>6, <1>7, <1>8, <1>9, <1>10, <1>11,
     <1>12, <1>13 DEF Next, Kernel, Drivers, LockOp, PmSuspend

(* The base case: main_wake_lock is held, so both parts hold vacuously. *)
LEMMA IInvInit == Init => IInv
<1> SUFFICES ASSUME Init PROVE TimerCovers /\ SuspendNotLost
  BY TypeInit DEF IInv
<1>1. main \in Untimed(held, auto)
  BY LockAssumption DEF Init, Untimed
<1> QED
  BY <1>1 DEF TimerCovers, SuspendNotLost

(* The two invariants below are inductive with the types. *)
THEOREM InductiveInvariant == Spec => []IInv
  BY IInvInit, IInvStep, PTL DEF Spec

(* Whenever only locks with a timeout are held, expire_timer is pending    *)
(* and not due before the last of them runs out.                           *)
THEOREM TimerCoversAlways == Spec => []TimerCovers
<1>1. IInv => TimerCovers
  BY DEF IInv
<1> QED
  BY <1>1, InductiveInvariant, PTL

(* However locks, unlocks, expiries and the steps of suspend() interleave, *)
(* the wish to suspend is never dropped.                                   *)
THEOREM SuspendNeverLost == Spec => []SuspendNotLost
<1>1. IInv => SuspendNotLost
  BY DEF IInv
<1> QED
  BY <1>1, InductiveInvariant, PTL
-----------------------------------------------------------------------------
(***************************************************************************)
(* From power_suspend_late to the wake-up only timer handlers take locks.  *)
(***************************************************************************)
LEMMA LateStep ==
  TypeOK /\ LateTimerLocksOnly /\ [Next]_vars => LateTimerLocksOnly'
<1> SUFFICES ASSUME TypeOK, LateTimerLocksOnly, [Next]_vars,
                    susp' \in {"late", "asleep"}
             PROVE  held' \ IdleLock \subseteq TimerLock
  BY DEF LateTimerLocksOnly, Blocking
<1>1. ASSUME NEW l \in Lock, NEW t \in 0 .. MaxTimeout, wake_lock_timeout(l, t)
      PROVE  held' \ IdleLock \subseteq TimerLock
  <2>1. susp' = susp /\ l \in TimerLock
    BY <1>1 DEF wake_lock_timeout, TasksRun
  <2>2. held' \subseteq held \union {l}
    BY <1>1 DEF wake_lock_timeout, wake_lock_internal, ExpireFrom
  <2> QED
    BY <2>1, <2>2 DEF LateTimerLocksOnly, Blocking
<1>2. CASE Tick \/ expire_wake_locks \/ PmEnter \/ UNCHANGED vars
  <2>1. held' \subseteq held /\ susp \in {"late", "asleep"}
    BY <1>2 DEF Tick, expire_wake_locks, ExpireFrom, PmEnter, vars
  <2> QED
    BY <2>1 DEF LateTimerLocksOnly, Blocking
<1>3. CASE power_suspend_late
  <2>1. PICK ret \in -1 .. MaxTimeout :
          /\ HasWakeLock(held, auto, left, ret)
          /\ susp' = IF ret = 0 THEN "late" ELSE "resumed"
    BY <1>3, Zenon DEF power_suspend_late, has_wake_lock
  <2>2. ret = 0
    BY <2>1
  <2>3. /\ held \in SUBSET Lock
        /\ auto \in SUBSET Lock
        /\ left \in [Lock -> 0 .. MaxTimeout]
    BY DEF TypeOK
  <2>4. Untimed(held, auto) = {} /\ \A l \in held \ IdleLock : left[l] = 0
    BY <2>1, <2>2, <2>3, HasWakeLockType
  <2>5. held' = held \ Expired(held, auto, left)
    BY <1>3 DEF power_suspend_late, has_wake_lock, ExpireFrom
  <2> QED
    BY <2>4, <2>5 DEF Expired
<1>4. CASE SuspendCheck \/ SuspendEntry \/ FreezeCheck \/ PmFail \/ PmWake \/ SuspendExit
  BY <1>4 DEF SuspendCheck, SuspendEntry, FreezeCheck, PmFail, PmWake,
              SuspendExit, has_wake_lock
<1>5. ASSUME NEW l \in Lock,
             \/ wake_lock_init(l) \/ wake_lock_destroy(l)
             \/ wake_lock(l) \/ wake_unlock(l)
      PROVE  FALSE
  BY <1>5 DEF wake_lock_init, wake_lock_destroy, wake_lock, wake_unlock, TasksRun
<1> QED
  BY <1>1, <1>2, <1>3, <1>4, <1>5 DEF Next, Kernel, Drivers, LockOp, PmSuspend

(* A machine asleep has no lock active but those that timer handlers take: *)
(* a driver's or a process's lock always keeps it awake.                   *)
THEOREM AsleepWithTimerLocksOnly == Spec => []AsleepTimerLocksOnly
<1>1. Init => LateTimerLocksOnly
  BY DEF Init, LateTimerLocksOnly
<1>2. LateTimerLocksOnly => AsleepTimerLocksOnly
  BY DEF LateTimerLocksOnly, AsleepTimerLocksOnly
<1> QED
  BY <1>1, <1>2, LateStep, TypeCorrect, PTL DEF Spec

-----------------------------------------------------------------------------
(* Early suspend. *)
Requested == "SUSPEND_REQUESTED" \in state
Suspended == "SUSPENDED" \in state
Pending(w) == w \in ToSet(queue)

(* main_wake_lock has no timeout, and one of suspend() and the two work    *)
(* items runs at a time.                                                   *)
MainUntimed == main \in inited \ auto
OneThread == susp # "idle" => pc = "idle"
LateMainFree == susp \in {"late", "asleep"} => main \notin held

(* A walk holds early_suspend_lock, a registration holds it too, and the   *)
(* machine is not frozen under one.                                        *)
Walking == pc \in {"suspending", "resuming"}
OneHolder == joining # {} => ~Walking /\ susp \notin {"late", "asleep"}

(* An open request has its work item to come. *)
Answered ==
  /\ Requested =>
       \/ Pending("early_suspend") \/ pc = "early_suspend"
       \/ Suspended /\ (pc \in {"suspending", "sync"} \/ main \notin held)
  /\ Suspended /\ ~Requested => Pending("late_resume") \/ pc = "late_resume"

(* The handlers called are the first n of the list. *)
DownTo(n) == \A i \in 1..Len(handlers) : handlers[i] \in down <=> i <= n

WalkInStep ==
  /\ pc = "suspending" =>
       /\ Suspended
       /\ Len(walk) <= Len(handlers)
       /\ \A j \in 1..Len(walk) : walk[j] = handlers[(Len(handlers) - Len(walk)) + j]
       /\ DownTo(Len(handlers) - Len(walk))
  /\ pc = "resuming" =>
       /\ ~Suspended
       /\ Len(walk) <= Len(handlers)
       /\ \A j \in 1..Len(walk) : walk[j] = handlers[(Len(walk) - j) + 1]
       /\ DownTo(Len(walk))
  /\ ~Walking =>
       /\ walk = << >>
       /\ \A i \in 1..Len(handlers) : handlers[i] \in down <=> Suspended /\ handlers[i] \notin joining

Sorted == \A i, j \in 1..Len(handlers) : i < j => Level[handlers[i]] <= Level[handlers[j]]

MainInStep == main \notin held => state = StateBit /\ ~Walking

(* The types, with the queue that suspend_work shares. *)
QueueOK ==
  /\ queue \in Seq(WorkItem) /\ IsInjective(queue)
  /\ work <=> Pending("suspend")

ListOK ==
  /\ state \subseteq StateBit /\ pc \in Pc
  /\ walk \in Seq(Handler)
  /\ handlers \in Seq(Handler) /\ IsInjective(handlers)
  /\ down \subseteq Handler
  /\ joining \subseteq ToSet(handlers) /\ \A g, h \in joining : g = h

ControlInv == MainUntimed /\ OneThread /\ OneHolder /\ LateMainFree /\ MainInStep /\ Answered
ListInv == WalkInStep /\ Sorted

ESInv == TypeOK /\ QueueOK /\ ListOK /\ ControlInv /\ ListInv

(* The answer of the drawing program. *)
FbInv ==
  /\ fb_state \in {"DRAWING_OK", "REQUEST_STOP_DRAWING", "STOPPED_DRAWING"}
  /\ fb_state = "STOPPED_DRAWING" => drawer \in Idle
  /\ fb \in ToSet(handlers) \cap down => timedout \/ fb_state = "STOPPED_DRAWING"
  /\ fb \in joining => ~Suspended
-----------------------------------------------------------------------------
(***************************************************************************)
(* The queue and the list as sequences.                                    *)
(***************************************************************************)
LEMMA SetOfSeq ==
  ASSUME NEW S, NEW s \in Seq(S)
  PROVE  /\ Len(s) \in Nat /\ ToSet(s) = {s[i] : i \in 1..Len(s)}
         /\ \A i \in 1..Len(s) : s[i] \in S
         /\ IsInjective(s) <=> \A i, j \in 1..Len(s) : s[i] = s[j] => i = j
BY DEF ToSet, IsInjective

(* queue_work puts the item into the queue, once. *)
LEMMA QueueWork ==
  ASSUME NEW S, NEW q \in Seq(S), IsInjective(q), NEW w \in S
  PROVE  /\ queue_work(q, w) \in Seq(S) /\ IsInjective(queue_work(q, w))
         /\ ToSet(queue_work(q, w)) = ToSet(q) \cup {w}
<1>1. CASE w \in ToSet(q)
  BY <1>1 DEF queue_work
<1>2. CASE w \notin ToSet(q)
  <2> DEFINE t == Append(q, w)
  <2>1. /\ t \in Seq(S) /\ Len(t) = Len(q) + 1 /\ t[Len(q) + 1] = w
        /\ \A i \in 1..Len(q) : t[i] = q[i]
    BY AppendProperties
  <2>2. Len(q) \in Nat /\ \A i \in 1..Len(q) : q[i] # w
    BY <1>2, SetOfSeq
  <2>3. queue_work(q, w) = t
    BY <1>2 DEF queue_work
  <2> HIDE DEF t
  <2>4. ToSet(t) = ToSet(q) \cup {w}
    BY <2>1, <2>2, SetOfSeq
  <2>5. \A i, j \in 1..Len(q) : q[i] = q[j] => i = j
    BY SetOfSeq
  <2>6. \A i, j \in 1..Len(t) : t[i] = t[j] => i = j
    BY <2>1, <2>2, <2>5
  <2>7. IsInjective(t)
    BY <2>1, <2>6, SetOfSeq
  <2> QED BY <2>1, <2>3, <2>4, <2>7
<1> QED BY <1>1, <1>2

(* The head of the queue is in it once. *)
LEMMA TakeHead ==
  ASSUME NEW S, NEW q \in Seq(S), IsInjective(q), q # << >>
  PROVE  /\ Tail(q) \in Seq(S) /\ IsInjective(Tail(q))
         /\ Head(q) \in S /\ Head(q) \in ToSet(q)
         /\ ToSet(Tail(q)) = ToSet(q) \ {Head(q)}
<1> DEFINE t == Tail(q)
<1>1. /\ t \in Seq(S) /\ Len(t) = Len(q) - 1 /\ \A i \in 1..Len(t) : t[i] = q[i + 1]
      /\ Head(q) = q[1] /\ Head(q) \in S
  BY HeadTailProperties
<1>2. Len(q) \in Nat /\ Len(q) >= 1
  BY EmptySeq
<1>3. \A i, j \in 1..Len(q) : q[i] = q[j] => i = j
  BY SetOfSeq
<1> HIDE DEF t
<1>4. \A i, j \in 1..Len(t) : t[i] = t[j] => i = j
  <2> TAKE i, j \in 1..Len(t)
  <2>1. i + 1 \in 1..Len(q) /\ j + 1 \in 1..Len(q)
    BY <1>1, <1>2
  <2> QED BY <1>1, <1>3, <2>1
<1>5. ToSet(t) = {q[i] : i \in 2..Len(q)}
  <2>1. ToSet(t) = {t[i] : i \in 1..Len(t)}
    BY <1>1, SetOfSeq
  <2>2. \A i \in 1..Len(t) : i + 1 \in 2..Len(q)
    BY <1>1, <1>2
  <2>3. \A i \in 2..Len(q) : i - 1 \in 1..Len(t) /\ t[i - 1] = q[i]
    <3> TAKE i \in 2..Len(q)
    <3>1. i - 1 \in 1..Len(t) /\ (i - 1) + 1 = i
      BY <1>1, <1>2
    <3> QED BY <1>1, <3>1
  <2>4. {t[i] : i \in 1..Len(t)} \subseteq {q[i] : i \in 2..Len(q)}
    BY <1>1, <2>2
  <2>5. {q[i] : i \in 2..Len(q)} \subseteq {t[i] : i \in 1..Len(t)}
    BY <2>3
  <2> QED BY <2>1, <2>4, <2>5
<1>6. ToSet(q) = {q[i] : i \in 1..Len(q)}
  BY SetOfSeq
<1>7. {q[i] : i \in 2..Len(q)} = {q[i] : i \in 1..Len(q)} \ {q[1]}
  BY <1>2, <1>3
<1>8. IsInjective(t)
  BY <1>1, <1>4, SetOfSeq
<1>9. q[1] \in ToSet(q)
  BY <1>2, <1>6
<1> QED BY <1>1, <1>5, <1>6, <1>7, <1>8, <1>9 DEF t
-----------------------------------------------------------------------------
(***************************************************************************)
(* What the wake locks do to main_wake_lock, which is not idle and, in     *)
(* earlysuspend.c, has no timeout.                                         *)
(***************************************************************************)
LEMMA ExpireKeepsMain ==
  ASSUME NEW h, NEW a, NEW lf, main \notin a, ExpireFrom(h, a, lf)
  PROVE  (main \in held' <=> main \in h) /\ main \notin auto'
BY LockAssumption DEF ExpireFrom, Expired, Untimed

(* Taking another lock does nothing to main_wake_lock. *)
LEMMA InternalKeepsMain ==
  ASSUME NEW l \in Lock, l # main, NEW t, NEW b \in BOOLEAN, main \notin auto,
         wake_lock_internal(l, t, b)
  PROVE  /\ (main \in held' <=> main \in held) /\ main \notin auto' /\ inited' = inited
         /\ work => work'
<1> DEFINE h == held \cup {l}
           a == IF b THEN auto \cup {l} ELSE auto \ {l}
           lf == [left EXCEPT ![l] = IF b THEN t ELSE 0]
<1>1. inited' = inited
  BY DEF wake_lock_internal
<1>2. work => work'
  BY DEF wake_lock_internal, Rearm
<1>3. (main \in h <=> main \in held) /\ main \notin a
  OBVIOUS
<1>4. (held' = h /\ auto' = a) \/ ExpireFrom(h, a, lf)
  BY DEF wake_lock_internal
<1> HIDE DEF h, a, lf
<1>5. (main \in held' <=> main \in h) /\ main \notin auto'
  BY <1>3, <1>4, ExpireKeepsMain
<1> QED BY <1>1, <1>2, <1>3, <1>5

(* wake_lock and wake_unlock of main_wake_lock itself. *)
LEMMA LockMain ==
  ASSUME wake_lock(main), MainUntimed
  PROVE  main \in held' /\ MainUntimed' /\ (work => work') /\ UNCHANGED susp
BY LockAssumption DEF wake_lock, wake_lock_internal, Rearm, MainUntimed

(* wake_unlock(main) releases it and nothing else that early suspend       *)
(* relies on.                                                              *)
LEMMA UnlockMain ==
  ASSUME wake_unlock(main), MainUntimed
  PROVE  main \notin held' /\ MainUntimed' /\ (work => work') /\ UNCHANGED susp
BY LockAssumption DEF wake_unlock, ExpireFrom, Rearm, MainUntimed

(* The look at the locks finds main_wake_lock when it is held. *)
LEMMA LookAtMain ==
  ASSUME NEW p, NEW q, has_wake_lock(p, q), main \notin auto
  PROVE  /\ (main \in held' <=> main \in held) /\ main \notin auto'
         /\ susp' = p \/ susp' = q
         /\ main \in held => susp' = q
<1>1. (main \in held' <=> main \in held) /\ main \notin auto'
  BY ExpireKeepsMain DEF has_wake_lock
<1>2. PICK ret \in -1 .. MaxTimeout :
        HasWakeLock(held, auto, left, ret) /\ susp' = IF ret = 0 THEN p ELSE q
  BY Zenon DEF has_wake_lock
<1>3. main \in held => Untimed(held, auto) # {}
  BY LockAssumption DEF Untimed
<1>4. main \in held => ret = -1
  BY <1>2, <1>3 DEF HasWakeLock
<1> QED BY <1>1, <1>2, <1>4

(* What suspend(), the timer and the other users of wake locks do to it. *)
OthersMain ==
  /\ main \in held' <=> main \in held
  /\ MainUntimed'
  /\ work => work'
  /\ susp' \in {"late", "asleep"} => susp \in {"late", "asleep"} \/ main \notin held
  /\ susp' \in {"late", "asleep"} => susp \in {"late", "asleep"} \/ joining = {}
  /\ susp = "idle" => susp' = "idle"

(* No step of the wake locks but those of early suspend touches            *)
(* main_wake_lock.                                                         *)
LEMMA OtherKeepsMain == ASSUME MainUntimed, OtherWakeLock PROVE OthersMain
<1> USE LockAssumption DEF MainUntimed, OthersMain
<1>1. ASSUME NEW l \in Lock \ {main, unknown}, LockOp(l) PROVE OthersMain
  <2>1. UNCHANGED susp
    BY <1>1 DEF LockOp, wake_lock, wake_unlock, wake_lock_init, wake_lock_destroy, wake_lock_timeout
  <2>2. CASE wake_lock(l)
    BY <2>1, <2>2, InternalKeepsMain DEF wake_lock
  <2>3. CASE wake_unlock(l)
    <3>1. main \in held' <=> main \in held
      BY <2>3, ExpireKeepsMain DEF wake_unlock
    <3>2. main \notin auto' /\ inited' = inited
      BY <2>3, ExpireKeepsMain DEF wake_unlock
    <3>3. work => work'
      BY <2>3 DEF wake_unlock, Rearm
    <3> QED BY <2>1, <3>1, <3>2, <3>3
  <2>4. CASE wake_lock_init(l)
    BY <2>1, <2>4 DEF wake_lock_init
  <2>5. CASE wake_lock_destroy(l)
    BY <2>1, <2>5 DEF wake_lock_destroy
  <2>6. CASE \E t \in 0 .. MaxTimeout : wake_lock_timeout(l, t)
    BY <2>1, <2>6, InternalKeepsMain DEF wake_lock_timeout
  <2> QED BY <1>1, <2>2, <2>3, <2>4, <2>5, <2>6 DEF LockOp
<1>2. ASSUME Tick PROVE OthersMain
  BY <1>2 DEF Tick
<1>3. ASSUME expire_wake_locks PROVE OthersMain
  <2>1. (main \in held' <=> main \in held) /\ main \notin auto' /\ inited' = inited
    BY <1>3, ExpireKeepsMain DEF expire_wake_locks
  <2>2. work => work'
    BY <1>3 DEF expire_wake_locks
  <2> QED BY <1>3, <2>1, <2>2 DEF expire_wake_locks
<1>4. ASSUME FreezeCheck PROVE OthersMain
  <2>1. has_wake_lock("pm", "resumed") /\ UNCHANGED <<inited, work>> /\ susp = "pm"
    BY <1>4 DEF FreezeCheck
  <2> QED BY <2>1, LookAtMain
<1>5. ASSUME power_suspend_late, susp' = "late" => joining = {} PROVE OthersMain
  <2>1. has_wake_lock("late", "resumed") /\ UNCHANGED <<inited, work>> /\ susp = "pm"
    BY <1>5 DEF power_suspend_late
  <2> QED BY <1>5, <2>1, LookAtMain
<1>6. ASSUME SuspendEntry \/ PmFail \/ PmEnter \/ PmWake PROVE OthersMain
  BY <1>6 DEF SuspendEntry, PmFail, PmEnter, PmWake
<1>7. ASSUME SuspendExit PROVE OthersMain
  <2>1. susp' = "idle" /\ susp = "resumed"
    BY <1>7 DEF SuspendExit
  <2>2. CASE UNCHANGED <<inited, held, auto, left, timer, work, event>>
    BY <2>1, <2>2
  <2>3. CASE wake_lock_internal(unknown, UnknownTimeout, TRUE)
    BY <2>1, <2>3, InternalKeepsMain
  <2> QED BY <1>7, <2>2, <2>3 DEF SuspendExit
<1> QED BY <1>1, <1>2, <1>3, <1>4, <1>5, <1>6, <1>7 DEF OtherWakeLock, PmSuspend
-----------------------------------------------------------------------------
(***************************************************************************)
(* Early suspend implements WakeLock: request_suspend_state and the two    *)
(* work items use main_wake_lock as the drivers use theirs, and nothing    *)
(* else of it.                                                             *)
(***************************************************************************)
LEMMA ESStep == [ESNext]_allVars => [Next]_vars
<1> SUFFICES ASSUME [ESNext]_allVars PROVE [Next]_vars
  OBVIOUS
<1>1. ASSUME wake_lock(main) \/ wake_unlock(main) PROVE Next
  BY <1>1, LockAssumption DEF Next, Drivers, LockOp
<1>2. CASE User
  BY <1>1, <1>2 DEF User, request_suspend_state, register_early_suspend, unregister_early_suspend
<1>3. CASE Thread \/ DirectCall
  BY <1>1, <1>3 DEF DirectCall, Thread, run_workqueue, early_suspend, CallSuspend, SuspendCalled, ReleaseMain, late_resume,
                    CallResume, ResumeCalled
<1>4. CASE WakeLocks
  BY <1>4 DEF WakeLocks, RunSuspend, OtherWakeLock, Next, Kernel, Drivers
<1>5. CASE UNCHANGED allVars
  BY <1>5 DEF allVars
<1> QED BY <1>2, <1>3, <1>4, <1>5 DEF ESNext

(* Every behaviour of earlysuspend.c on top of the locks is one of         *)
(* wakelock.c under some drivers: what is proved of the locks holds with   *)
(* early suspend as well.                                                  *)
THEOREM ImplementsWakeLock == ESSpec => Spec
<1>1. ESInit => Init
  BY DEF ESInit
<1> QED BY <1>1, ESStep, PTL DEF ESSpec, Spec
-----------------------------------------------------------------------------
(***************************************************************************)
(* The queue through each kind of step.                                    *)
(***************************************************************************)
LEMMA SuspendQueued ==
  ASSUME QueueOK, work => work'
  PROVE  /\ QueueSuspend(queue) \in Seq(WorkItem) /\ IsInjective(QueueSuspend(queue))
         /\ work' <=> "suspend" \in ToSet(QueueSuspend(queue))
         /\ \A w \in WorkItem \ {"suspend"} : w \in ToSet(QueueSuspend(queue)) <=> Pending(w)
<1>1. CASE work'
  <2>1. "suspend" \in WorkItem
    BY DEF WorkItem
  <2>2. /\ queue_work(queue, "suspend") \in Seq(WorkItem) /\ IsInjective(queue_work(queue, "suspend"))
        /\ ToSet(queue_work(queue, "suspend")) = ToSet(queue) \cup {"suspend"}
    BY <2>1, QueueWork DEF QueueOK
  <2> QED BY <1>1, <2>2 DEF QueueSuspend, Pending
<1>2. CASE ~work'
  BY <1>2 DEF QueueSuspend, QueueOK, Pending
<1> QED BY <1>1, <1>2

(* queue_work of one of the two items, which a pending one absorbs. *)
LEMMA ItemQueued ==
  ASSUME NEW q \in Seq(WorkItem), IsInjective(q), work' <=> "suspend" \in ToSet(q),
         NEW w \in WorkItem \ {"suspend"}, queue' = queue_work(q, w)
  PROVE  QueueOK' /\ \A v \in WorkItem : Pending(v)' <=> v \in ToSet(q) \/ v = w
<1>1. queue' \in Seq(WorkItem) /\ IsInjective(queue') /\ ToSet(queue') = ToSet(q) \cup {w}
  BY QueueWork
<1> QED BY <1>1 DEF QueueOK, Pending

(* The worker takes the item at the head. *)
LEMMA ItemTaken ==
  ASSUME QueueOK, NEW w, Dequeue(w),
         IF w = "suspend" THEN ~work' ELSE work' = work
  PROVE  /\ QueueOK' /\ Pending(w) /\ w \in WorkItem
         /\ \A v \in WorkItem : Pending(v)' <=> Pending(v) /\ v # w
<1>1. /\ queue' \in Seq(WorkItem) /\ IsInjective(queue')
      /\ w \in WorkItem /\ w \in ToSet(queue) /\ ToSet(queue') = ToSet(queue) \ {w}
  BY TakeHead DEF Dequeue, QueueOK
<1> QED BY <1>1 DEF QueueOK, Pending, WorkItem

(***************************************************************************)
(* A step that calls no handler and does not change the list.              *)
(***************************************************************************)
LEMMA ListKept ==
  ASSUME ListOK, ListInv, UNCHANGED <<pc, walk, handlers, down, joining>>, state' \subseteq StateBit,
         Suspended' <=> Suspended
  PROVE  ListOK' /\ ListInv'
BY DEF ListOK, ListInv, WalkInStep, Walking, Sorted, DownTo
-----------------------------------------------------------------------------
(***************************************************************************)
(* The requests.                                                           *)
(***************************************************************************)
LEMMA RequestOff ==
  ASSUME ESInv, request_suspend_state(FALSE)
  PROVE  QueueOK' /\ ListOK' /\ ControlInv' /\ ListInv'
<1>1. /\ ~Requested /\ state' = state \cup {"SUSPEND_REQUESTED"}
      /\ queue' = queue_work(queue, "early_suspend")
      /\ UNCHANGED <<vars, pc, walk, handlers, down, joining>>
  BY DEF request_suspend_state, Requested
<1>2. QueueOK' /\ \A v \in WorkItem : Pending(v)' <=> Pending(v) \/ v = "early_suspend"
  <2>1. /\ queue \in Seq(WorkItem) /\ IsInjective(queue)
        /\ work' <=> "suspend" \in ToSet(queue)
        /\ "early_suspend" \in WorkItem \ {"suspend"}
    BY <1>1 DEF ESInv, QueueOK, Pending, vars, WorkItem
  <2> QED BY <1>1, <2>1, ItemQueued DEF Pending
<1>3. state' \subseteq StateBit /\ (Suspended' <=> Suspended) /\ Requested'
  BY <1>1 DEF ESInv, ListOK, StateBit, Suspended, Requested
<1>4. ListOK' /\ ListInv'
  BY <1>1, <1>3, ListKept DEF ESInv
<1>5. Pending("early_suspend")'
  BY <1>2 DEF WorkItem
<1>6. state # StateBit
  BY <1>1 DEF Requested, StateBit
<1>7. ControlInv'
  BY <1>1, <1>3, <1>5, <1>6 DEF ESInv, ControlInv, MainUntimed, OneThread, OneHolder, Walking, LateMainFree,
                               MainInStep, Answered, vars
<1> QED BY <1>2, <1>4, <1>7

(* A request to resume keeps the invariant. *)
LEMMA RequestOn ==
  ASSUME ESInv, request_suspend_state(TRUE)
  PROVE  QueueOK' /\ ListOK' /\ ControlInv' /\ ListInv'
<1>1. /\ state' = state \ {"SUSPEND_REQUESTED"} /\ wake_lock(main) /\ TasksRun
      /\ queue' = queue_work(QueueSuspend(queue), "late_resume")
      /\ UNCHANGED <<pc, walk, handlers, down, joining>>
  BY DEF request_suspend_state
<1>2. main \in held' /\ MainUntimed' /\ (work => work') /\ UNCHANGED susp
  BY <1>1, LockMain DEF ESInv, ControlInv
<1>3. QueueOK' /\ Pending("late_resume")'
  <2>1. "late_resume" \in WorkItem \ {"suspend"}
    BY DEF WorkItem
  <2> QED BY <1>1, <1>2, <2>1, SuspendQueued, ItemQueued DEF ESInv
<1>4. state' \subseteq StateBit /\ (Suspended' <=> Suspended) /\ ~Requested'
  BY <1>1 DEF ESInv, ListOK, StateBit, Suspended, Requested
<1>5. ListOK' /\ ListInv'
  BY <1>1, <1>4, ListKept DEF ESInv
<1>6. OneThread' /\ OneHolder' /\ LateMainFree' /\ MainInStep' /\ Answered'
  BY <1>1, <1>2, <1>3, <1>4 DEF ESInv, ControlInv, OneThread, OneHolder, Walking, LateMainFree, MainInStep,
                               Answered, TasksRun
<1> QED BY <1>2, <1>3, <1>5, <1>6 DEF ControlInv
-----------------------------------------------------------------------------
(***************************************************************************)
(* The wake locks and suspend().                                           *)
(***************************************************************************)
LEMMA WakeLocksKeep ==
  ASSUME ESInv, WakeLocks PROVE QueueOK' /\ ListOK' /\ ControlInv' /\ ListInv'
<1>1. ListOK' /\ ListInv'
  <2>1. UNCHANGED <<state, pc, walk, handlers, down, joining>>
    BY DEF WakeLocks
  <2>2. state' \subseteq StateBit /\ (Suspended' <=> Suspended)
    BY <2>1 DEF ESInv, ListOK, Suspended
  <2> QED BY <2>1, <2>2, ListKept DEF ESInv
<1>2. CASE OtherWakeLock
  <2>1. OthersMain
    BY <1>2, OtherKeepsMain DEF ESInv, ControlInv
  <2>2. /\ QueueOK'
        /\ Pending("early_suspend")' <=> Pending("early_suspend")
        /\ Pending("late_resume")' <=> Pending("late_resume")
    <3>1. queue' = QueueSuspend(queue) /\ (work => work')
      BY <1>2, <2>1 DEF OtherWakeLock, OthersMain
    <3>2. "early_suspend" \in WorkItem \ {"suspend"} /\ "late_resume" \in WorkItem \ {"suspend"}
      BY DEF WorkItem
    <3> QED BY <3>1, <3>2, SuspendQueued DEF ESInv, QueueOK, Pending
  <2>3. ControlInv'
    BY <2>1, <2>2 DEF WakeLocks, OthersMain, ESInv, ControlInv, MainUntimed, OneThread,
                      OneHolder, Walking, LateMainFree, MainInStep, Answered, Requested, Suspended
  <2> QED BY <1>1, <2>2, <2>3
<1>3. CASE RunSuspend
  <2>1. /\ Dequeue("suspend") /\ ~work' /\ pc = "idle"
        /\ has_wake_lock("checked", "idle") /\ UNCHANGED inited
    BY <1>3 DEF RunSuspend, SuspendCheck, Dequeue
  <2>2. QueueOK' /\ \A v \in WorkItem : Pending(v)' <=> Pending(v) /\ v # "suspend"
    BY <2>1, ItemTaken DEF ESInv
  <2>3. /\ Pending("early_suspend")' <=> Pending("early_suspend")
        /\ Pending("late_resume")' <=> Pending("late_resume")
    BY <2>2 DEF WorkItem
  <2>4. (main \in held' <=> main \in held) /\ MainUntimed' /\ susp' \in {"checked", "idle"}
    BY <2>1, LookAtMain DEF ESInv, ControlInv, MainUntimed
  <2>5. ControlInv'
    BY <2>1, <2>3, <2>4 DEF WakeLocks, ESInv, ControlInv, OneThread, OneHolder, Walking, LateMainFree, MainInStep,
                            Answered, Requested, Suspended
  <2> QED BY <1>1, <2>2, <2>5
<1> QED BY <1>2, <1>3 DEF WakeLocks
-----------------------------------------------------------------------------
(***************************************************************************)
(* The two work items; only ReleaseMain touches the wake locks.            *)
(***************************************************************************)
LEMMA TakeKeeps ==
  ASSUME ESInv, run_workqueue PROVE QueueOK' /\ ListOK' /\ ControlInv' /\ ListInv'
<1>1. PICK w \in {"early_suspend", "late_resume"} : Dequeue(w) /\ pc' = w
  BY DEF run_workqueue
<1>2. /\ pc = "idle" /\ susp = "idle" /\ work' = work
      /\ UNCHANGED <<held, inited, auto, susp, state, walk, handlers, down, joining>>
  BY <1>1 DEF run_workqueue, Dequeue, vars
<1>3. QueueOK' /\ \A v \in WorkItem : Pending(v)' <=> Pending(v) /\ v # w
  BY <1>1, <1>2, ItemTaken DEF ESInv
<1>4. /\ Pending("early_suspend") => Pending("early_suspend")' \/ pc' = "early_suspend"
      /\ Pending("late_resume") => Pending("late_resume")' \/ pc' = "late_resume"
  BY <1>1, <1>3 DEF WorkItem
<1>5. ListOK' /\ ListInv'
  BY <1>1, <1>2 DEF ESInv, ListOK, Pc, ListInv, WalkInStep, Walking, Sorted, DownTo, Suspended
<1>6. ControlInv'
  BY <1>1, <1>2, <1>4 DEF ESInv, ControlInv, MainUntimed, OneThread, OneHolder, Walking,
                          LateMainFree, MainInStep, Answered, Requested, Suspended
<1> QED BY <1>3, <1>5, <1>6

(* So does the start of early_suspend, or its abort. *)
LEMMA EarlySuspendKeeps ==
  ASSUME ESInv, early_suspend PROVE QueueOK' /\ ListOK' /\ ControlInv' /\ ListInv'
<1>1. /\ pc = "early_suspend" /\ joining = {} /\ susp = "idle"
      /\ UNCHANGED <<held, inited, auto, work, susp, queue, handlers, down, joining>>
  BY DEF early_suspend, vars, ESInv, ControlInv, OneThread
<1>2. QueueOK'
  BY <1>1 DEF ESInv, QueueOK, Pending
<1>3. Pending("late_resume")' <=> Pending("late_resume")
  BY <1>1 DEF Pending
<1>4. CASE state = {"SUSPEND_REQUESTED"}
  <2>1. state' = StateBit /\ pc' = "suspending" /\ walk' = handlers
    BY <1>4 DEF early_suspend, StateBit
  <2>2. ~Suspended /\ Suspended' /\ Requested'
    BY <1>4, <2>1 DEF StateBit, Suspended, Requested
  <2>3. DownTo(0) /\ walk' \in Seq(Handler) /\ Len(handlers) \in Nat
    BY <1>1, <2>1, <2>2 DEF ESInv, ListOK, ListInv, WalkInStep, Walking, DownTo
  <2>4. ListOK'
    BY <1>1, <2>1 DEF ESInv, ListOK, Pc
  <2>5. ListInv'
    <3>1. Len(handlers) - Len(handlers) = 0 /\ \A j \in 1..Len(handlers) : 0 + j = j
      BY <2>3
    <3> QED BY <1>1, <2>1, <2>2, <2>3, <3>1 DEF ESInv, ListInv, WalkInStep, Walking, Sorted, DownTo
  <2>6. main \in held
    BY <1>4 DEF ESInv, ControlInv, MainInStep, StateBit
  <2>7. ControlInv'
    BY <1>1, <2>1, <2>2, <2>6 DEF ESInv, ControlInv, MainUntimed, OneThread, OneHolder, Walking, LateMainFree,
                                 MainInStep, Answered
  <2> QED BY <1>2, <2>4, <2>5, <2>7
<1>5. CASE state # {"SUSPEND_REQUESTED"}
  <2>1. pc' = "sync" /\ UNCHANGED <<state, walk>>
    BY <1>5 DEF early_suspend
  <2>2. ListOK' /\ ListInv'
    BY <1>1, <2>1 DEF ESInv, ListOK, Pc, ListInv, WalkInStep, Walking, Sorted, DownTo, Suspended
  <2>3. Requested => Suspended
    BY <1>5 DEF ESInv, ListOK, StateBit, Requested, Suspended
  <2>4. ControlInv'
    BY <1>1, <1>3, <2>1, <2>3 DEF ESInv, ControlInv, MainUntimed, OneThread, OneHolder, Walking, LateMainFree,
                                 MainInStep, Answered, Requested, Suspended
  <2> QED BY <1>2, <2>2, <2>4
<1> QED BY <1>4, <1>5

(* So does the start, or the abort, of late_resume. *)
LEMMA LateResumeKeeps ==
  ASSUME ESInv, late_resume PROVE QueueOK' /\ ListOK' /\ ControlInv' /\ ListInv'
<1>1. /\ pc = "late_resume" /\ joining = {} /\ susp = "idle"
      /\ UNCHANGED <<held, inited, auto, work, susp, queue, handlers, down, joining>>
  BY DEF late_resume, vars, ESInv, ControlInv, OneThread
<1>2. QueueOK'
  BY <1>1 DEF ESInv, QueueOK, Pending
<1>3. Pending("early_suspend")' <=> Pending("early_suspend")
  BY <1>1 DEF Pending
<1>4. CASE state = {"SUSPENDED"}
  <2>1. state' = {} /\ pc' = "resuming" /\ walk' = Reverse(handlers)
    BY <1>4 DEF late_resume
  <2>2. Suspended /\ ~Suspended' /\ ~Requested'
    BY <1>4, <2>1 DEF Suspended, Requested
  <2>3. DownTo(Len(handlers)) /\ handlers \in Seq(Handler) /\ Len(handlers) \in Nat
    BY <1>1, <2>2 DEF ESInv, ListOK, ListInv, WalkInStep, Walking, DownTo
  <2>4. /\ walk' \in Seq(Handler) /\ Len(walk') = Len(handlers)
        /\ \A j \in 1..Len(handlers) : walk'[j] = handlers[(Len(handlers) - j) + 1]
    <3>1. \A j \in 1..Len(handlers) : (Len(handlers) - j) + 1 \in 1..Len(handlers)
      BY <2>3
    <3>2. walk' = [j \in 1..Len(handlers) |-> handlers[(Len(handlers) - j) + 1]]
      BY <2>1 DEF Reverse
    <3>3. walk' \in [1..Len(handlers) -> Handler]
      BY <2>3, <3>1, <3>2
    <3>4. walk' \in Seq(Handler) /\ Len(walk') = Len(handlers)
      BY <2>3, <3>3
    <3> QED BY <3>2, <3>4
  <2>5. ListOK'
    BY <1>1, <2>1, <2>4 DEF ESInv, ListOK, Pc
  <2>6. ListInv'
    BY <1>1, <2>1, <2>2, <2>3, <2>4 DEF ESInv, ListInv, WalkInStep, Walking, Sorted, DownTo
  <2>7. main \in held
    BY <1>4 DEF ESInv, ControlInv, MainInStep, StateBit
  <2>8. ControlInv'
    BY <1>1, <2>1, <2>2, <2>7 DEF ESInv, ControlInv, MainUntimed, OneThread, OneHolder, Walking, LateMainFree,
                                 MainInStep, Answered
  <2> QED BY <1>2, <2>5, <2>6, <2>8
<1>5. CASE state # {"SUSPENDED"}
  <2>1. pc' = "idle" /\ UNCHANGED <<state, walk>>
    BY <1>5 DEF late_resume
  <2>2. ListOK' /\ ListInv'
    BY <1>1, <2>1 DEF ESInv, ListOK, Pc, ListInv, WalkInStep, Walking, Sorted, DownTo, Suspended
  <2>3. Suspended => Requested
    BY <1>5 DEF ESInv, ListOK, StateBit, Requested, Suspended
  <2>4. ControlInv'
    BY <1>1, <1>3, <2>1, <2>3 DEF ESInv, ControlInv, MainUntimed, OneThread, OneHolder, Walking, LateMainFree,
                                 MainInStep, Answered, Requested, Suspended
  <2> QED BY <1>2, <2>2, <2>4
<1> QED BY <1>4, <1>5

(* One handler has been called: the walk is one shorter. *)
LEMMA CallKeeps ==
  ASSUME ESInv, CallSuspend \/ CallResume PROVE QueueOK' /\ ListOK' /\ ControlInv' /\ ListInv'
<1> DEFINE n == Len(handlers)
           m == Len(walk)
<1>1. /\ walk # << >> /\ walk' = Tail(walk)
      /\ UNCHANGED <<vars, state, queue, pc, handlers, joining>>
  BY DEF CallSuspend, CallResume
<1>2. /\ n \in Nat /\ m \in Nat /\ m >= 1
      /\ Head(walk) = walk[1] /\ Head(walk) \in Handler
      /\ walk' \in Seq(Handler) /\ Len(walk') = m - 1
      /\ \A j \in 1..(m - 1) : walk'[j] = walk[j + 1]
  <2>1. walk \in Seq(Handler) /\ handlers \in Seq(Handler)
    BY DEF ESInv, ListOK
  <2> QED BY <1>1, <2>1, HeadTailProperties, EmptySeq
<1>3. \A i, j \in 1..n : handlers[i] = handlers[j] => i = j
  BY SetOfSeq DEF ESInv, ListOK
<1>4. QueueOK' /\ ControlInv'
  BY <1>1 DEF vars, ESInv, QueueOK, Pending, ControlInv, MainUntimed, OneThread, OneHolder, Walking, LateMainFree,
              MainInStep, Answered, Requested, Suspended
<1>5. ListOK'
  BY <1>1, <1>2 DEF ESInv, ListOK, CallSuspend, CallResume
<1>6. Sorted' /\ (Suspended' <=> Suspended)
  BY <1>1 DEF ESInv, ListInv, Sorted, Suspended
<1> HIDE DEF n, m
<1>7. CASE CallSuspend
  <2>1. /\ pc = "suspending" /\ Suspended /\ m <= n
        /\ \A j \in 1..m : walk[j] = handlers[(n - m) + j]
        /\ \A i \in 1..n : handlers[i] \in down <=> i <= n - m
        /\ down' = down \cup {Head(walk)}
    BY <1>7 DEF CallSuspend, ESInv, ListInv, WalkInStep, DownTo, n, m
  <2>2. n - (m - 1) = (n - m) + 1 /\ (n - m) + 1 \in 1..n /\ Head(walk) = handlers[(n - m) + 1]
    BY <1>2, <2>1
  <2>3. \A j \in 1..(m - 1) : walk'[j] = handlers[(n - (m - 1)) + j]
    <3> TAKE j \in 1..(m - 1)
    <3>1. j + 1 \in 1..m /\ (n - (m - 1)) + j = (n - m) + (j + 1)
      BY <1>2
    <3> QED BY <1>2, <2>1, <3>1
  <2>4. \A i \in 1..n : handlers[i] \in down' <=> i <= n - (m - 1)
    <3> TAKE i \in 1..n
    <3>1. handlers[i] \in down' <=> handlers[i] \in down \/ i = (n - m) + 1
      BY <1>3, <2>1, <2>2
    <3> QED BY <1>2, <2>1, <2>2, <3>1
  <2>5. m - 1 <= n
    BY <1>2, <2>1
  <2>6. WalkInStep'
    BY <1>1, <1>2, <1>6, <2>1, <2>3, <2>4, <2>5 DEF WalkInStep, Walking, DownTo, n
  <2> QED BY <1>4, <1>5, <1>6, <2>6 DEF ListInv
<1>8. CASE CallResume
  <2>1. /\ pc = "resuming" /\ ~Suspended /\ m <= n
        /\ \A j \in 1..m : walk[j] = handlers[(m - j) + 1]
        /\ \A i \in 1..n : handlers[i] \in down <=> i <= m
        /\ down' = down \ {Head(walk)}
    BY <1>8 DEF CallResume, ESInv, ListInv, WalkInStep, DownTo, n, m
  <2>2. m \in 1..n /\ Head(walk) = handlers[m]
    BY <1>2, <2>1
  <2>3. \A j \in 1..(m - 1) : walk'[j] = handlers[((m - 1) - j) + 1]
    <3> TAKE j \in 1..(m - 1)
    <3>1. j + 1 \in 1..m /\ ((m - 1) - j) + 1 = (m - (j + 1)) + 1
      BY <1>2
    <3> QED BY <1>2, <2>1, <3>1
  <2>4. \A i \in 1..n : handlers[i] \in down' <=> i <= m - 1
    <3> TAKE i \in 1..n
    <3>1. handlers[i] \in down' <=> handlers[i] \in down /\ i # m
      BY <1>3, <2>1, <2>2
    <3> QED BY <1>2, <2>1, <2>2, <3>1
  <2>5. m - 1 <= n
    BY <1>2, <2>1
  <2>6. WalkInStep'
    BY <1>1, <1>2, <1>6, <2>1, <2>3, <2>4, <2>5 DEF WalkInStep, Walking, DownTo, n
  <2> QED BY <1>4, <1>5, <1>6, <2>6 DEF ListInv
<1> QED BY <1>7, <1>8

(* The end of a walk, and of early_suspend. *)
LEMMA CalledKeeps ==
  ASSUME ESInv, SuspendCalled \/ ResumeCalled
  PROVE  QueueOK' /\ ListOK' /\ ControlInv' /\ ListInv'
<1>1. /\ walk = << >> /\ Len(walk) = 0 /\ Len(handlers) \in Nat
      /\ UNCHANGED <<vars, state, queue, walk, handlers, down, joining>>
  BY DEF SuspendCalled, ResumeCalled, ESInv, ListOK
<1>2. QueueOK' /\ ListOK' /\ Sorted'
  BY <1>1 DEF vars, ESInv, QueueOK, Pending, ListOK, Pc, SuspendCalled, ResumeCalled, ListInv, Sorted
<1>3. CASE SuspendCalled
  <2>1. /\ pc = "suspending" /\ pc' = "sync" /\ Suspended /\ DownTo(Len(handlers))
        /\ joining = {}
    BY <1>1, <1>3 DEF SuspendCalled, ESInv, ListInv, WalkInStep, ControlInv, OneHolder, Walking
  <2>2. WalkInStep'
    BY <1>1, <2>1 DEF WalkInStep, Walking, DownTo, Suspended
  <2>3. ControlInv'
    BY <1>1, <2>1 DEF vars, ESInv, ControlInv, MainUntimed, OneThread, OneHolder, Walking, LateMainFree,
                      MainInStep, Answered, Requested, Suspended, Pending
  <2> QED BY <1>2, <2>2, <2>3 DEF ListInv
<1>4. CASE ResumeCalled
  <2>1. pc = "resuming" /\ pc' = "idle" /\ ~Suspended /\ DownTo(0)
    BY <1>1, <1>4 DEF ResumeCalled, ESInv, ListInv, WalkInStep
  <2>2. WalkInStep'
    BY <1>1, <2>1 DEF WalkInStep, Walking, DownTo, Suspended
  <2>3. ControlInv'
    BY <1>1, <2>1 DEF vars, ESInv, ControlInv, MainUntimed, OneThread, OneHolder, Walking, LateMainFree,
                      MainInStep, Answered, Requested, Suspended, Pending
  <2> QED BY <1>2, <2>2, <2>3 DEF ListInv
<1> QED BY <1>3, <1>4

(* So does the end of early_suspend, which releases main_wake_lock if      *)
(* still wanted.                                                           *)
LEMMA ReleaseKeeps ==
  ASSUME ESInv, ReleaseMain PROVE QueueOK' /\ ListOK' /\ ControlInv' /\ ListInv'
<1>1. /\ pc = "sync" /\ pc' = "idle" /\ queue' = QueueSuspend(queue)
      /\ UNCHANGED <<state, walk, handlers, down, joining>>
  BY DEF ReleaseMain
<1>2. /\ MainUntimed' /\ (work => work') /\ UNCHANGED susp
      /\ IF state = StateBit THEN main \notin held' ELSE UNCHANGED held
  BY UnlockMain DEF ReleaseMain, ESInv, ControlInv, MainUntimed, vars
<1>3. /\ QueueOK'
      /\ Pending("early_suspend")' <=> Pending("early_suspend")
      /\ Pending("late_resume")' <=> Pending("late_resume")
  <2>1. "early_suspend" \in WorkItem \ {"suspend"} /\ "late_resume" \in WorkItem \ {"suspend"}
    BY DEF WorkItem
  <2> QED BY <1>1, <1>2, <2>1, SuspendQueued DEF ESInv, QueueOK, Pending
<1>4. ListOK' /\ ListInv'
  BY <1>1 DEF ESInv, ListOK, Pc, ListInv, WalkInStep, Walking, Sorted, DownTo, Suspended
<1>5. state # StateBit => ~Requested \/ ~Suspended
  BY DEF ESInv, ListOK, StateBit, Requested, Suspended
<1>6. ControlInv'
  <2>1. OneThread' /\ OneHolder' /\ LateMainFree'
    BY <1>1, <1>2 DEF ESInv, ControlInv, OneThread, OneHolder, Walking, LateMainFree
  <2>2. MainInStep'
    BY <1>1, <1>2 DEF ESInv, ControlInv, MainInStep, Walking
  <2>3. Answered'
    BY <1>1, <1>2, <1>3, <1>5 DEF ESInv, ControlInv, Answered, Requested, Suspended
  <2> QED BY <1>2, <2>1, <2>2, <2>3 DEF ControlInv
<1> QED BY <1>3, <1>4, <1>6
-----------------------------------------------------------------------------
(***************************************************************************)
(* list_add_tail before a place in the list, and list_del.                 *)
(***************************************************************************)
LEMMA InsertShape ==
  ASSUME NEW S, NEW s \in Seq(S), NEW p \in 1..(Len(s) + 1), NEW e \in S
  PROVE  /\ InsertAt(s, p, e) \in Seq(S) /\ Len(InsertAt(s, p, e)) = Len(s) + 1
         /\ \A i \in 1..(Len(s) + 1) :
              InsertAt(s, p, e)[i] = IF i < p THEN s[i] ELSE IF i = p THEN e ELSE s[i - 1]
<1> DEFINE a == SubSeq(s, 1, p - 1)
           b == SubSeq(s, p, Len(s))
           c == <<e>>
           d == a \o c
<1>0. Len(s) \in Nat /\ p \in Nat /\ p >= 1 /\ p <= Len(s) + 1
  OBVIOUS
<1>1. a \in Seq(S) /\ Len(a) = p - 1 /\ \A i \in 1..(p - 1) : a[i] = s[i]
  <2>1. \A i \in 1..(p - 1) : s[i] \in S
    BY <1>0
  <2>2. /\ a \in Seq(S) /\ Len(a) = IF 1 <= p - 1 THEN (p - 1) - 1 + 1 ELSE 0
        /\ \A i \in 1..((p - 1) - 1 + 1) : a[i] = s[1 + i - 1]
    BY <1>0, <2>1, SubSeqProperties
  <2> HIDE DEF a
  <2> QED BY <1>0, <2>2
<1>2. b \in Seq(S) /\ Len(b) = Len(s) - (p - 1) /\ \A i \in 1..(Len(s) - (p - 1)) : b[i] = s[p + i - 1]
  <2>1. \A i \in p..Len(s) : s[i] \in S
    BY <1>0
  <2>2. /\ b \in Seq(S) /\ Len(b) = IF p <= Len(s) THEN Len(s) - p + 1 ELSE 0
        /\ \A i \in 1..(Len(s) - p + 1) : b[i] = s[p + i - 1]
    BY <1>0, <2>1, SubSeqProperties
  <2> HIDE DEF b
  <2> QED BY <1>0, <2>2
<1>3. c \in Seq(S) /\ Len(c) = 1 /\ c[1] = e
  OBVIOUS
<1> HIDE DEF a, b, c
<1>4. d \in Seq(S) /\ Len(d) = p /\ \A i \in 1..p : d[i] = IF i < p THEN s[i] ELSE e
  <2>1. /\ d \in Seq(S) /\ Len(d) = Len(a) + Len(c)
        /\ \A i \in 1..(Len(a) + Len(c)) : d[i] = IF i <= Len(a) THEN a[i] ELSE c[i - Len(a)]
    BY <1>1, <1>3, ConcatProperties, Zenon
  <2> HIDE DEF d
  <2> QED BY <1>0, <1>1, <1>3, <2>1
<1> HIDE DEF d
<1>5. InsertAt(s, p, e) = d \o b
  BY DEF InsertAt, a, b, c, d
<1>6. /\ d \o b \in Seq(S) /\ Len(d \o b) = Len(d) + Len(b)
      /\ \A i \in 1..(Len(d) + Len(b)) : (d \o b)[i] = IF i <= Len(d) THEN d[i] ELSE b[i - Len(d)]
  BY <1>2, <1>4, ConcatProperties, Zenon
<1> DEFINE f == d \o b
<1>7. /\ f \in Seq(S) /\ Len(f) = Len(s) + 1
      /\ \A i \in 1..(Len(s) + 1) : f[i] = IF i <= p THEN d[i] ELSE b[i - p]
  <2>1. Len(d) + Len(b) = Len(s) + 1
    BY <1>0, <1>2, <1>4
  <2> HIDE DEF f
  <2> QED BY <1>4, <1>6, <2>1 DEF f
<1> HIDE DEF f
<1>8. \A i \in 1..(Len(s) + 1) : f[i] = IF i < p THEN s[i] ELSE IF i = p THEN e ELSE s[i - 1]
  <2> TAKE i \in 1..(Len(s) + 1)
  <2>1. CASE i <= p
    BY <1>0, <1>4, <1>7, <2>1
  <2>2. CASE i > p
    <3>1. i - p \in 1..(Len(s) - (p - 1)) /\ p + (i - p) - 1 = i - 1
      BY <1>0, <2>2
    <3>2. b[i - p] = s[i - 1]
      BY <1>2, <3>1
    <3> QED BY <1>0, <1>7, <2>2, <3>2
  <2> QED BY <1>0, <2>1, <2>2
<1> QED BY <1>5, <1>7, <1>8 DEF f

(* What RemoveAt leaves of a sequence, place by place. *)
LEMMA RemoveShape ==
  ASSUME NEW S, NEW s \in Seq(S), NEW p \in 1..Len(s)
  PROVE  /\ RemoveAt(s, p) \in Seq(S) /\ Len(RemoveAt(s, p)) = Len(s) - 1
         /\ \A i \in 1..(Len(s) - 1) : RemoveAt(s, p)[i] = IF i < p THEN s[i] ELSE s[i + 1]
<1> DEFINE a == SubSeq(s, 1, p - 1)
           b == SubSeq(s, p + 1, Len(s))
<1>0. Len(s) \in Nat /\ p \in Nat /\ p >= 1 /\ p <= Len(s)
  OBVIOUS
<1>1. a \in Seq(S) /\ Len(a) = p - 1 /\ \A i \in 1..(p - 1) : a[i] = s[i]
  <2>1. \A i \in 1..(p - 1) : s[i] \in S
    BY <1>0
  <2>2. /\ a \in Seq(S) /\ Len(a) = IF 1 <= p - 1 THEN (p - 1) - 1 + 1 ELSE 0
        /\ \A i \in 1..((p - 1) - 1 + 1) : a[i] = s[1 + i - 1]
    BY <1>0, <2>1, SubSeqProperties
  <2> HIDE DEF a
  <2> QED BY <1>0, <2>2
<1>2. b \in Seq(S) /\ Len(b) = Len(s) - p /\ \A i \in 1..(Len(s) - p) : b[i] = s[p + i]
  <2>1. \A i \in (p + 1)..Len(s) : s[i] \in S
    BY <1>0
  <2>2. /\ b \in Seq(S) /\ Len(b) = IF p + 1 <= Len(s) THEN Len(s) - (p + 1) + 1 ELSE 0
        /\ \A i \in 1..(Len(s) - (p + 1) + 1) : b[i] = s[(p + 1) + i - 1]
    BY <1>0, <2>1, SubSeqProperties
  <2> HIDE DEF b
  <2>3. Len(s) - (p + 1) + 1 = Len(s) - p /\ \A i \in 1..(Len(s) - p) : (p + 1) + i - 1 = p + i
    BY <1>0
  <2> QED BY <1>0, <2>2, <2>3
<1> HIDE DEF a, b
<1>3. /\ a \o b \in Seq(S) /\ Len(a \o b) = Len(a) + Len(b)
      /\ \A i \in 1..(Len(a) + Len(b)) : (a \o b)[i] = IF i <= Len(a) THEN a[i] ELSE b[i - Len(a)]
  BY <1>1, <1>2, ConcatProperties, Zenon
<1> DEFINE f == a \o b
<1>4. /\ f \in Seq(S) /\ Len(f) = Len(s) - 1
      /\ \A i \in 1..(Len(s) - 1) : f[i] = IF i <= p - 1 THEN a[i] ELSE b[i - (p - 1)]
  <2>1. Len(a) + Len(b) = Len(s) - 1
    BY <1>0, <1>1, <1>2
  <2> HIDE DEF f
  <2> QED BY <1>1, <1>3, <2>1 DEF f
<1>5. RemoveAt(s, p) = f
  BY DEF RemoveAt, a, b
<1> HIDE DEF f
<1>6. \A i \in 1..(Len(s) - 1) : f[i] = IF i < p THEN s[i] ELSE s[i + 1]
  <2> TAKE i \in 1..(Len(s) - 1)
  <2>1. CASE i < p
    BY <1>0, <1>1, <1>4, <2>1
  <2>2. CASE i >= p
    <3>1. i - (p - 1) \in 1..(Len(s) - p) /\ p + (i - (p - 1)) = i + 1
      BY <1>0, <2>2
    <3>2. b[i - (p - 1)] = s[i + 1]
      BY <1>2, <3>1
    <3> QED BY <1>0, <1>4, <2>2, <3>2
  <2> QED BY <1>0, <2>1, <2>2
<1> QED BY <1>4, <1>5, <1>6

(***************************************************************************)
(* A new handler goes onto the sorted list, up, while no walk is under     *)
(* way.                                                                    *)
(***************************************************************************)
LEMMA RegisterKeeps ==
  ASSUME ESInv, NEW h \in Handler, register_early_suspend(h)
  PROVE  /\ QueueOK' /\ ListOK' /\ ControlInv' /\ ListInv'
         /\ ToSet(handlers') = ToSet(handlers) \cup {h}
<1> DEFINE n == Len(handlers)
           t == handlers'
<1>1. /\ ~Walking /\ TasksRun /\ UNCHANGED <<vars, state, queue, pc, walk>>
      /\ down' = down \ {h} /\ joining = {} /\ joining' = {h}
      /\ h \notin ToSet(handlers)
  BY DEF register_early_suspend, MutexFree, Walking
<1>2. PICK p \in Place(h, handlers) : handlers' = InsertAt(handlers, p, h)
  BY DEF register_early_suspend
<1>3. /\ handlers \in Seq(Handler) /\ n \in Nat /\ p \in 1..(n + 1)
      /\ \A i \in 1..(p - 1) : Level[handlers[i]] <= Level[h]
      /\ p <= n => Level[handlers[p]] > Level[h]
      /\ \A i \in 1..n : handlers[i] \in Handler
  BY <1>2 DEF Place, ESInv, ListOK
<1>4. /\ t \in Seq(Handler) /\ Len(t) = n + 1
      /\ \A i \in 1..(n + 1) :
           t[i] = IF i < p THEN handlers[i] ELSE IF i = p THEN h ELSE handlers[i - 1]
  <2> DEFINE u == InsertAt(handlers, p, h)
  <2>1. handlers \in Seq(Handler) /\ p \in 1..(Len(handlers) + 1)
    BY <1>3
  <2>2. /\ u \in Seq(Handler) /\ Len(u) = Len(handlers) + 1
        /\ \A i \in 1..(Len(handlers) + 1) :
             u[i] = IF i < p THEN handlers[i] ELSE IF i = p THEN h ELSE handlers[i - 1]
    BY <2>1, InsertShape
  <2>3. t = u
    BY <1>2
  <2> HIDE DEF u
  <2> QED BY <2>2, <2>3, Zenon
<1>5. \A i \in 1..n : handlers[i] # h
  BY <1>1, <1>3, SetOfSeq
<1>6. \A i, j \in 1..n : handlers[i] = handlers[j] => i = j
  BY SetOfSeq DEF ESInv, ListOK
<1>7. \A i, j \in 1..n : i < j => Level[handlers[i]] <= Level[handlers[j]]
  BY DEF ESInv, ListInv, Sorted
<1>8. Level[h] \in Nat /\ \A i \in 1..n : Level[handlers[i]] \in Nat
  BY <1>3, HandlerAssumption
<1>9. walk = << >> /\ \A i \in 1..n : handlers[i] \in down <=> Suspended
  BY <1>1 DEF ESInv, ListInv, WalkInStep
<1> HIDE DEF n, t
<1>10. \A i \in 1..(n + 1) : \/ (i = p /\ t[i] = h)
                            \/ (i < p /\ i \in 1..n /\ t[i] = handlers[i])
                            \/ (i > p /\ i - 1 \in 1..n /\ t[i] = handlers[i - 1])
  BY <1>3, <1>4
<1>11. IsInjective(t)
  <2>1. \A i, j \in 1..(n + 1) : t[i] = t[j] => i = j
    BY <1>3, <1>5, <1>6, <1>10
  <2> QED BY <1>4, <2>1, SetOfSeq
<1>12. \A i, j \in 1..(n + 1) : i < j => Level[t[i]] <= Level[t[j]]
  <2> SUFFICES ASSUME NEW i \in 1..(n + 1), NEW j \in 1..(n + 1), i < j
               PROVE  Level[t[i]] <= Level[t[j]]
    OBVIOUS
  <2>0. n \in Nat /\ p \in 1..(n + 1)
    BY <1>3
  <2>1. CASE j < p
    <3>1. i \in 1..n /\ j \in 1..n /\ t[i] = handlers[i] /\ t[j] = handlers[j]
      BY <1>10, <2>0, <2>1
    <3> QED BY <1>7, <3>1
  <2>2. CASE j = p
    <3>1. i \in 1..(p - 1) /\ t[i] = handlers[i] /\ t[j] = h
      BY <1>10, <2>0, <2>2
    <3> QED BY <1>3, <3>1
  <2>3. CASE i < p /\ j > p
    <3>1. i \in 1..n /\ j - 1 \in 1..n /\ i <= j - 1
      BY <2>0, <2>3
    <3>2. t[i] = handlers[i] /\ t[j] = handlers[j - 1]
      BY <1>10, <2>0, <2>3
    <3>3. Level[handlers[i]] <= Level[handlers[j - 1]]
      BY <1>7, <1>8, <3>1
    <3> QED BY <3>2, <3>3
  <2>4. CASE i = p
    <3>1. p \in 1..n /\ j - 1 \in 1..n /\ p <= j - 1 /\ t[j] = handlers[j - 1] /\ t[i] = h
      BY <1>3, <1>10, <2>4
    <3>2. Level[handlers[p]] <= Level[handlers[j - 1]]
      BY <1>7, <1>8, <3>1
    <3> QED BY <1>3, <1>8, <3>1, <3>2
  <2>5. CASE i > p
    <3>1. /\ i - 1 \in 1..n /\ j - 1 \in 1..n /\ i - 1 < j - 1
          /\ t[i] = handlers[i - 1] /\ t[j] = handlers[j - 1]
      BY <1>10, <2>0, <2>5
    <3> QED BY <1>7, <3>1
  <2> QED BY <2>0, <2>1, <2>2, <2>3, <2>4, <2>5
<1>13. \A i \in 1..(n + 1) : t[i] \in down' <=> Suspended /\ t[i] # h
  <2>1. \A i \in 1..n : handlers[i] \in down' <=> Suspended
    BY <1>1, <1>5, <1>9
  <2> QED BY <1>1, <1>5, <1>10, <2>1
<1>14. QueueOK' /\ ControlInv' /\ (Suspended' <=> Suspended)
  BY <1>1 DEF vars, TasksRun, ESInv, QueueOK, Pending, ControlInv, MainUntimed, OneThread, OneHolder, Walking, LateMainFree,
              MainInStep, Answered, Requested, Suspended
<1>15. ToSet(t) = ToSet(handlers) \cup {h}
  <2>1. ToSet(t) = {t[i] : i \in 1..(n + 1)} /\ ToSet(handlers) = {handlers[i] : i \in 1..n}
    BY <1>3, <1>4, SetOfSeq DEF n
  <2>2. \A i \in 1..n : \E j \in 1..(n + 1) : t[j] = handlers[i]
    <3> TAKE i \in 1..n
    <3>0. n \in Nat /\ p \in 1..(n + 1)
      BY <1>3
    <3>1. CASE i < p
      <4>1. i \in 1..(n + 1)
        BY <3>0
      <4>2. t[i] = handlers[i]
        BY <1>4, <3>1, <4>1
      <4> QED BY <4>1, <4>2
    <3>2. CASE i >= p
      <4>1. i + 1 \in 1..(n + 1) /\ (i + 1) - 1 = i /\ ~(i + 1 < p) /\ i + 1 # p
        BY <3>0, <3>2
      <4>2. t[i + 1] = handlers[i]
        BY <1>4, <4>1
      <4> QED BY <4>1, <4>2
    <3>3. i < p \/ i >= p
      BY <3>0
    <3> QED BY <3>1, <3>2, <3>3
  <2>3. t[p] = h
    BY <1>3, <1>4
  <2>4. \A x \in ToSet(t) : x \in ToSet(handlers) \cup {h}
    BY <1>10, <2>1
  <2>5. p \in 1..(n + 1)
    BY <1>3
  <2>6. \A x \in ToSet(handlers) \cup {h} : x \in ToSet(t)
    BY <2>1, <2>2, <2>3, <2>5
  <2> QED BY <2>4, <2>6
<1>16. ListOK'
  BY <1>1, <1>4, <1>11, <1>15 DEF ESInv, ListOK, t
<1>17. ListInv'
  <2>1. \A i \in 1..Len(handlers') :
          handlers'[i] \in down' <=> Suspended' /\ handlers'[i] \notin joining'
    BY <1>1, <1>4, <1>13, <1>14 DEF t
  <2>2. Sorted'
    BY <1>4, <1>12 DEF Sorted, t
  <2>3. WalkInStep'
    BY <1>1, <1>9, <2>1 DEF WalkInStep, Walking
  <2> QED BY <2>2, <2>3 DEF ListInv
<1> QED BY <1>14, <1>15, <1>16, <1>17 DEF t

(* The direct call takes the new handler down when the others are. *)
LEMMA DirectCallKeeps ==
  ASSUME ESInv, DirectCall PROVE QueueOK' /\ ListOK' /\ ControlInv' /\ ListInv'
<1>1. /\ joining # {} /\ joining' = {} /\ UNCHANGED <<vars, state, queue, pc, walk, handlers>>
      /\ down' = IF Suspended THEN down \cup joining ELSE down
  BY DEF DirectCall, Suspended
<1>2. ~Walking
  BY <1>1 DEF ESInv, ControlInv, OneHolder
<1>3. QueueOK' /\ ControlInv' /\ (Suspended' <=> Suspended)
  BY <1>1 DEF vars, ESInv, QueueOK, Pending, ControlInv, MainUntimed, OneThread, OneHolder,
              Walking, LateMainFree, MainInStep, Answered, Requested, Suspended
<1>4. ListOK'
  <2>1. ToSet(handlers) \subseteq Handler
    BY SetOfSeq DEF ESInv, ListOK
  <2> QED BY <1>1, <2>1 DEF ESInv, ListOK
<1>5. ListInv'
  <2>1. Sorted'
    BY <1>1 DEF ESInv, ListInv, Sorted
  <2>2. \A i \in 1..Len(handlers) : handlers[i] \in down' <=> Suspended
    BY <1>1, <1>2 DEF ESInv, ListInv, WalkInStep
  <2>3. WalkInStep'
    BY <1>1, <1>2, <1>3, <2>2 DEF ESInv, ListInv, WalkInStep, Walking
  <2> QED BY <2>1, <2>3 DEF ListInv
<1> QED BY <1>3, <1>4, <1>5

(* Taking a handler off the list keeps the rest sorted and in step. *)
LEMMA UnregisterKeeps ==
  ASSUME ESInv, NEW h \in Handler, unregister_early_suspend(h)
  PROVE  /\ QueueOK' /\ ListOK' /\ ControlInv' /\ ListInv'
         /\ ToSet(handlers') \subseteq ToSet(handlers)
<1> DEFINE n == Len(handlers)
           t == handlers'
<1>1. ~Walking /\ joining = {} /\ UNCHANGED <<vars, state, queue, pc, walk, down, joining>>
  BY DEF unregister_early_suspend, MutexFree, Walking
<1>2. PICK p \in 1..n : handlers[p] = h /\ handlers' = RemoveAt(handlers, p)
  BY DEF unregister_early_suspend
<1>3. handlers \in Seq(Handler) /\ n \in Nat /\ p \in 1..n
  BY <1>2 DEF ESInv, ListOK
<1>4. /\ t \in Seq(Handler) /\ Len(t) = n - 1
      /\ \A i \in 1..(n - 1) : t[i] = IF i < p THEN handlers[i] ELSE handlers[i + 1]
  <2> DEFINE u == RemoveAt(handlers, p)
  <2>1. handlers \in Seq(Handler) /\ p \in 1..Len(handlers)
    BY <1>3
  <2>2. /\ u \in Seq(Handler) /\ Len(u) = Len(handlers) - 1
        /\ \A i \in 1..(Len(handlers) - 1) : u[i] = IF i < p THEN handlers[i] ELSE handlers[i + 1]
    BY <2>1, RemoveShape
  <2>3. t = u
    BY <1>2
  <2> HIDE DEF u
  <2> QED BY <2>2, <2>3, Zenon
<1>5. \A i, j \in 1..n : handlers[i] = handlers[j] => i = j
  BY SetOfSeq DEF ESInv, ListOK
<1>6. \A i, j \in 1..n : i < j => Level[handlers[i]] <= Level[handlers[j]]
  BY DEF ESInv, ListInv, Sorted
<1>7. (\A i \in 1..n : handlers[i] \in down <=> Suspended) /\ walk = << >>
  BY <1>1 DEF ESInv, ListInv, WalkInStep
<1> HIDE DEF n, t
(* The place in the old list of an element of the new one. *)
<1> DEFINE old(i) == IF i < p THEN i ELSE i + 1
<1>8. \A i \in 1..(n - 1) : old(i) \in 1..n /\ t[i] = handlers[old(i)]
  BY <1>3, <1>4
<1>9. \A i, j \in 1..(n - 1) : (i < j => old(i) < old(j)) /\ (old(i) = old(j) => i = j)
  BY <1>3
<1> HIDE DEF old
<1>10. IsInjective(t)
  <2>1. \A i, j \in 1..(n - 1) : t[i] = t[j] => i = j
    BY <1>5, <1>8, <1>9
  <2> QED BY <1>4, <2>1, SetOfSeq
<1>11. \A i, j \in 1..(n - 1) : i < j => Level[t[i]] <= Level[t[j]]
  BY <1>6, <1>8, <1>9
<1>12. \A i \in 1..(n - 1) : t[i] \in down' <=> Suspended
  BY <1>1, <1>7, <1>8
<1>13. QueueOK' /\ ControlInv' /\ (Suspended' <=> Suspended)
  BY <1>1 DEF vars, ESInv, QueueOK, Pending, ControlInv, MainUntimed, OneThread, OneHolder, Walking, LateMainFree,
              MainInStep, Answered, Requested, Suspended
<1>14. ListOK'
  BY <1>1, <1>4, <1>10 DEF ESInv, ListOK, t
<1>15. ListInv'
  <2>1. \A i \in 1..Len(handlers') : handlers'[i] \in down' <=> Suspended'
    BY <1>4, <1>12, <1>13 DEF t
  <2>2. Sorted'
    BY <1>4, <1>11 DEF Sorted, t
  <2>3. WalkInStep'
    BY <1>1, <1>7, <2>1 DEF WalkInStep, Walking
  <2> QED BY <2>2, <2>3 DEF ListInv
<1>16. ToSet(t) \subseteq ToSet(handlers)
  <2>1. ToSet(t) = {t[i] : i \in 1..(n - 1)} /\ ToSet(handlers) = {handlers[i] : i \in 1..n}
    BY <1>3, <1>4, SetOfSeq DEF n
  <2> QED BY <1>8, <2>1
<1> QED BY <1>13, <1>14, <1>15, <1>16 DEF t
-----------------------------------------------------------------------------
(* Every step keeps the invariant. *)
LEMMA ESInvStep == ESInv /\ [ESNext]_allVars => ESInv'
<1> SUFFICES ASSUME ESInv, [ESNext]_allVars PROVE ESInv'
  OBVIOUS
<1>1. TypeOK'
  BY ESStep, TypeStep DEF ESInv
<1>2. CASE User
  <2>1. CASE \E on \in BOOLEAN : request_suspend_state(on)
    <3>1. request_suspend_state(TRUE) \/ request_suspend_state(FALSE)
      BY <2>1
    <3> QED BY <1>1, <3>1, RequestOn, RequestOff DEF ESInv
  <2>2. CASE \E h \in Handler : register_early_suspend(h)
    BY <1>1, <2>2, RegisterKeeps DEF ESInv
  <2>3. CASE \E h \in Handler : unregister_early_suspend(h)
    BY <1>1, <2>3, UnregisterKeeps DEF ESInv
  <2> QED BY <1>2, <2>1, <2>2, <2>3 DEF User
<1>3. CASE Thread
  BY <1>1, <1>3, TakeKeeps, EarlySuspendKeeps, CallKeeps, CalledKeeps, ReleaseKeeps, LateResumeKeeps
  DEF Thread, ESInv
<1>6. CASE DirectCall
  BY <1>1, <1>6, DirectCallKeeps DEF ESInv
<1>4. CASE WakeLocks
  BY <1>1, <1>4, WakeLocksKeep DEF ESInv
<1>5. CASE UNCHANGED allVars
  <2>1. QueueOK' /\ ControlInv'
    BY <1>5 DEF allVars, vars, esVars, ESInv, QueueOK, Pending, ControlInv, MainUntimed,
                OneThread, OneHolder, Walking, LateMainFree, MainInStep, Answered, Requested, Suspended
  <2>2. ListOK' /\ ListInv'
    BY <1>5 DEF allVars, esVars, ESInv, ListOK, ListInv, WalkInStep, Walking, Sorted, DownTo, Suspended
  <2> QED BY <1>1, <2>1, <2>2 DEF ESInv
<1> QED BY <1>2, <1>3, <1>4, <1>5, <1>6 DEF ESNext

(***************************************************************************)
(* ESInv is an invariant of early suspend.                                 *)
(***************************************************************************)
THEOREM ESInvAlways == ESSpec => []ESInv
<1>1. ESInit => ESInv
  <2> SUFFICES ASSUME ESInit PROVE ESInv
    OBVIOUS
  <2>1. TypeOK
    BY TypeInit DEF ESInit
  <2>2. QueueOK
    BY DEF ESInit, Init, QueueOK, Pending, ToSet, IsInjective
  <2>3. ListOK
    BY DEF ESInit, ListOK, Pc, IsInjective
  <2>4. ControlInv
    BY DEF ESInit, Init, ControlInv, MainUntimed, OneThread, OneHolder, Walking, LateMainFree, MainInStep, Answered,
           Requested, Suspended
  <2>5. ListInv
    BY DEF ESInit, ListInv, WalkInStep, Walking, Sorted, DownTo, Suspended
  <2> QED BY <2>1, <2>2, <2>3, <2>4, <2>5 DEF ESInv
<1> QED BY <1>1, ESInvStep, PTL DEF ESSpec
-----------------------------------------------------------------------------
(* The handlers that are down, wherever the thread is, are the first ones. *)
LEMMA DownIsPrefix ==
  ASSUME ESInv
  PROVE  /\ Walking => \E n \in Nat : DownTo(n)
         /\ ~Walking /\ Suspended => ToSet(handlers) \ joining \subseteq down
         /\ ~Walking /\ ~Suspended => ToSet(handlers) \cap down = {}
         /\ joining \cap down = {}
<1>1. /\ handlers \in Seq(Handler) /\ walk \in Seq(Handler)
      /\ Len(handlers) \in Nat /\ Len(walk) \in Nat /\ pc \in Pc
      /\ ToSet(handlers) = {handlers[i] : i \in 1..Len(handlers)}
  BY SetOfSeq DEF ESInv, ListOK
<1>2. CASE ~Walking
  <2>1. \A i \in 1..Len(handlers) : handlers[i] \in down <=> Suspended /\ handlers[i] \notin joining
    BY <1>2 DEF ESInv, ListInv, WalkInStep
  <2>2. joining \subseteq ToSet(handlers)
    BY DEF ESInv, ListOK
  <2> QED BY <1>1, <1>2, <2>1, <2>2
<1>3. CASE pc = "suspending"
  <2>1. Len(walk) <= Len(handlers) /\ DownTo(Len(handlers) - Len(walk))
    BY <1>3 DEF ESInv, ListInv, WalkInStep
  <2>2. Len(handlers) - Len(walk) \in Nat
    BY <1>1, <2>1
  <2>3. joining = {}
    BY <1>3 DEF ESInv, ControlInv, OneHolder, Walking
  <2> QED BY <1>3, <2>1, <2>2, <2>3 DEF Walking
<1>4. CASE pc = "resuming"
  <2>1. DownTo(Len(walk)) /\ joining = {}
    BY <1>4 DEF ESInv, ListInv, WalkInStep, ControlInv, OneHolder, Walking
  <2> QED BY <1>1, <1>4, <2>1 DEF Walking
<1> QED BY <1>1, <1>2, <1>3, <1>4 DEF Walking

(***************************************************************************)
(* The types of early suspend: no work item is queued twice, no handler is *)
(* twice on the list, and suspend_work is in the queue when it is pending. *)
(***************************************************************************)
THEOREM ESTypeCorrect == ESSpec => []ESTypeOK
<1>1. ESInv => ESTypeOK
  BY DEF ESInv, QueueOK, ListOK, ESTypeOK, Pending
<1> QED BY <1>1, ESInvAlways, PTL

(***************************************************************************)
(* The wake_unlock of early_suspend never undoes the wake_lock of a later  *)
(* request_suspend_state(ON).                                              *)
(***************************************************************************)
THEOREM MainAlwaysReleasedDown == ESSpec => []MainReleasedOnlyDown
<1>1. ESInv => MainReleasedOnlyDown
  <2> SUFFICES ASSUME ESInv, main \notin held
               PROVE  state = StateBit /\ ~Walking /\ ToSet(handlers) \ joining \subseteq down
    BY DEF MainReleasedOnlyDown, Walking
  <2>1. state = StateBit /\ ~Walking
    BY DEF ESInv, ControlInv, MainInStep
  <2>2. Suspended
    BY <2>1 DEF StateBit, Suspended
  <2> QED BY <2>1, <2>2, DownIsPrefix
<1> QED BY <1>1, ESInvAlways, PTL

(***************************************************************************)
(* When neither work item is queued or running, the handlers and           *)
(* main_wake_lock agree with the latest request.                           *)
(***************************************************************************)
THEOREM SettledAlwaysAgrees == ESSpec => []SettledAgrees
<1>1. ESInv => SettledAgrees
  <2> SUFFICES ASSUME ESInv, Settled
               PROVE  IF Requested
                      THEN Suspended /\ ToSet(handlers) \ joining \subseteq down /\ main \notin held
                      ELSE ~Suspended /\ ToSet(handlers) \cap down = {} /\ main \in held
    BY DEF SettledAgrees, Requested, Suspended
  <2>1. pc = "idle" /\ ~Pending("early_suspend") /\ ~Pending("late_resume")
    BY DEF Settled, Pending
  <2>2. (Requested => Suspended /\ main \notin held) /\ (Suspended => Requested)
    BY <2>1 DEF ESInv, ControlInv, Answered
  <2>3. ~Requested => main \in held
    BY DEF ESInv, ControlInv, MainInStep, StateBit, Requested
  <2>4. ~Walking
    BY <2>1 DEF Walking
  <2> QED BY <2>2, <2>3, <2>4, DownIsPrefix
<1> QED BY <1>1, ESInvAlways, PTL

(***************************************************************************)
(* No handler is suspended, or resumed, twice in a row.                    *)
(***************************************************************************)
THEOREM CallbacksAlwaysAlternate == ESSpec => []CallbacksAlternate
<1>1. ESInv => CallbacksAlternate
  <2> SUFFICES ASSUME ESInv PROVE CallbacksAlternate
    OBVIOUS
  <2> DEFINE n == Len(handlers)
             m == Len(walk)
  <2>1. n \in Nat /\ m \in Nat /\ ToSet(walk) = {walk[j] : j \in 1..m}
    BY SetOfSeq DEF ESInv, ListOK
  <2>2. ASSUME pc = "suspending" PROVE ToSet(walk) \cap down = {}
    <3>1. /\ m <= n /\ \A j \in 1..m : walk[j] = handlers[(n - m) + j]
          /\ \A i \in 1..n : handlers[i] \in down <=> i <= n - m
      BY <2>2 DEF ESInv, ListInv, WalkInStep, DownTo
    <3>2. \A j \in 1..m : (n - m) + j \in 1..n /\ ~((n - m) + j <= n - m)
      BY <2>1, <3>1
    <3>3. \A j \in 1..m : walk[j] \notin down
      BY <3>1, <3>2
    <3> HIDE DEF m
    <3> QED BY <2>1, <3>3
  <2>3. ASSUME pc = "resuming" PROVE ToSet(walk) \subseteq down
    <3>1. /\ m <= n /\ \A j \in 1..m : walk[j] = handlers[(m - j) + 1]
          /\ \A i \in 1..n : handlers[i] \in down <=> i <= m
      BY <2>3 DEF ESInv, ListInv, WalkInStep, DownTo
    <3>2. \A j \in 1..m : (m - j) + 1 \in 1..n /\ (m - j) + 1 <= m
      BY <2>1, <3>1
    <3>3. \A j \in 1..m : walk[j] \in down
      BY <3>1, <3>2
    <3> HIDE DEF m
    <3> QED BY <2>1, <3>3
  <2>4. joining \cap down = {}
    BY DownIsPrefix
  <2> QED BY <2>2, <2>3, <2>4 DEF CallbacksAlternate
<1> QED BY <1>1, ESInvAlways, PTL

(***************************************************************************)
(* A handler is never down while one of a lower level is up, wherever in a *)
(* walk the thread is, except for one whose direct call is under way.      *)
(***************************************************************************)
LEMMA InLevelOrder == ASSUME ESInv PROVE LevelOrder
<1> SUFFICES ASSUME NEW g \in ToSet(handlers), NEW h \in ToSet(handlers),
                    Level[g] < Level[h], h \in down
             PROVE  g \in down \union joining
  BY DEF LevelOrder
<1>1. /\ Len(handlers) \in Nat /\ ToSet(handlers) = {handlers[i] : i \in 1..Len(handlers)}
      /\ \A i \in 1..Len(handlers) : handlers[i] \in Handler
  BY SetOfSeq DEF ESInv, ListOK
<1>2. PICK i \in 1..Len(handlers) : g = handlers[i]
  BY <1>1
<1>3. PICK j \in 1..Len(handlers) : h = handlers[j]
  BY <1>1
<1>4. Level[g] \in Nat /\ Level[h] \in Nat
  BY <1>1, <1>2, <1>3, HandlerAssumption
<1>5. i < j
  <2> SUFFICES ASSUME ~(i < j) PROVE FALSE
    OBVIOUS
  <2>1. j < i
    BY <1>1, <1>2, <1>3, <1>4
  <2>2. Level[h] <= Level[g]
    BY <1>2, <1>3, <2>1 DEF ESInv, ListInv, Sorted
  <2> QED BY <1>4, <2>2
<1>6. CASE Walking
  <2>1. PICK n \in Nat : DownTo(n)
    BY <1>6, DownIsPrefix
  <2> QED BY <1>1, <1>2, <1>3, <1>5, <2>1 DEF DownTo
<1>7. CASE ~Walking
  <2>1. Suspended
    BY <1>7, DownIsPrefix
  <2> QED BY <1>7, <2>1, DownIsPrefix
<1> QED BY <1>6, <1>7

(* early_suspend and late_resume take the handlers down by rising level    *)
(* and up by falling level; a handler registered meanwhile is out of order *)
(* only until its direct call has returned, the violation that             *)
(* include/linux/earlysuspend.h allows.                                    *)
THEOREM AlwaysLevelOrder == ESSpec => []LevelOrder
<1>1. ESInv => LevelOrder
  BY InLevelOrder
<1> QED BY <1>1, ESInvAlways, PTL

(***************************************************************************)
(* The machine sleeps only behind a finished early suspend.                *)
(***************************************************************************)
THEOREM AlwaysAsleepDown == ESSpec => []AsleepAllDown
<1>1. ESInv => AsleepAllDown
  <2> SUFFICES ASSUME ESInv, susp \in {"late", "asleep"}
               PROVE  state = StateBit /\ ToSet(handlers) \subseteq down
    BY DEF AsleepAllDown
  <2>1. state = StateBit /\ ~Walking /\ joining = {}
    BY DEF ESInv, ControlInv, LateMainFree, MainInStep, OneHolder
  <2>2. Suspended
    BY <2>1 DEF StateBit, Suspended
  <2> QED BY <2>1, <2>2, DownIsPrefix
<1> QED BY <1>1, ESInvAlways, PTL
-----------------------------------------------------------------------------
(***************************************************************************)
(* The frame buffer handler.  Its two callbacks are calls of a handler,    *)
(* and what the drawing program does leaves early suspend alone.           *)
(***************************************************************************)
LEMMA FbStep == [FbNext]_fbAll => [ESNext]_allVars
BY DEF FbNext, fbAll, FbUser, FbThread, FbCallbacks, Drawer, stop_drawing_early_suspend,
       stop_drawing_return, start_drawing_late_resume, wait_for_fb_sleep_show,
       wait_for_fb_wake_show, wait_for_fb_wake_return, ESNext, Thread

(***************************************************************************)
(* Early suspend with the frame buffer handler implements early suspend,   *)
(* so each theorem above holds of it: the handshake with the program that  *)
(* draws adds no behaviour to the walks.                                   *)
(***************************************************************************)
THEOREM FbImplementsEarlySuspend == FbSpec => ESSpec
<1>1. FbInit => ESInit
  BY DEF FbInit
<1> QED BY <1>1, FbStep, PTL DEF FbSpec, ESSpec

(* The call at the head of a walk is that of a handler that is up before   *)
(* a suspend callback.                                                     *)
LEMMA HeadUp ==
  ASSUME ESInv, pc = "suspending", walk # << >>
  PROVE  Head(walk) \notin down
<1> DEFINE n == Len(handlers)
           m == Len(walk)
<1>1. n \in Nat /\ m \in Nat /\ walk \in Seq(Handler)
  BY SetOfSeq DEF ESInv, ListOK
<1>2. /\ m <= n /\ \A j \in 1..m : walk[j] = handlers[(n - m) + j]
      /\ \A i \in 1..n : handlers[i] \in down <=> i <= n - m
  BY DEF ESInv, ListInv, WalkInStep, DownTo
<1>3. Head(walk) = walk[1] /\ 1 \in 1..m
  BY <1>1
<1>4. (n - m) + 1 \in 1..n /\ ~((n - m) + 1 <= n - m)
  BY <1>1, <1>2, <1>3
<1> QED BY <1>2, <1>3, <1>4

(* The call of a handler that is not fb leaves fb where it is, and no      *)
(* handler is suspended behind a registration.                             *)
LEMMA OtherCalled ==
  ASSUME FbInv, FbThread
  PROVE  handlers' = handlers /\ (fb \in down' <=> fb \in down) /\ (fb \in joining' => ~Suspended')
<1>1. CASE DirectCall
  BY <1>1 DEF DirectCall, FbInv, Suspended
<1>2. CASE Thread
  <2>1. handlers' = handlers /\ (fb \in down' <=> fb \in down)
    BY <1>2 DEF FbThread, Thread, run_workqueue, AtFb, early_suspend, CallSuspend, SuspendCalled,
                ReleaseMain, late_resume, CallResume, ResumeCalled
  <2>2. joining' = joining /\ (joining # {} /\ Suspended' => Suspended)
    BY <1>2 DEF Thread, run_workqueue, early_suspend, CallSuspend, SuspendCalled, ReleaseMain,
                late_resume, CallResume, ResumeCalled, Suspended
  <2> QED BY <2>1, <2>2 DEF FbInv
<1> QED BY <1>1, <1>2 DEF FbThread

(* fb is registered before the first request and stays up until called. *)
LEMMA FbRegistered ==
  ASSUME ESInv, FbInv, FbUser
  PROVE  /\ fb \in ToSet(handlers') \cap down' => fb \in ToSet(handlers) \cap down
         /\ fb \in joining' => ~Suspended'
<1>1. CASE \E on \in BOOLEAN : request_suspend_state(on)
  <2>1. UNCHANGED <<handlers, down, joining>> /\ (Suspended' <=> Suspended)
    BY <1>1 DEF request_suspend_state, Suspended
  <2> QED BY <2>1 DEF FbInv
<1>2. CASE \E h \in Handler : register_early_suspend(h)
  <2>1. PICK h \in Handler : register_early_suspend(h)
    BY <1>2
  <2>2. down' = down \ {h} /\ joining' = {h} /\ UNCHANGED state /\ h \notin ToSet(handlers)
    BY <2>1 DEF register_early_suspend
  <2>3. ToSet(handlers') = ToSet(handlers) \cup {h}
    BY <2>1, RegisterKeeps
  <2>4. fb = h => state = {}
    BY <2>2, <2>3 DEF FbUser
  <2> QED BY <2>2, <2>3, <2>4 DEF Suspended
<1>3. CASE \E h \in Handler : unregister_early_suspend(h)
  <2>1. PICK h \in Handler : unregister_early_suspend(h)
    BY <1>3
  <2>2. UNCHANGED <<down, joining, state>>
    BY <2>1 DEF unregister_early_suspend
  <2>3. ToSet(handlers') \subseteq ToSet(handlers)
    BY <2>1, UnregisterKeeps
  <2> QED BY <2>2, <2>3 DEF FbInv, Suspended
<1> QED BY <1>1, <1>2, <1>3 DEF FbUser, User

(* Every step of the composition keeps the handshake in step. *)
LEMMA FbInvStep == ASSUME ESInv, FbInv, [FbNext]_fbAll PROVE FbInv'
<1>1. CASE FbUser
  BY <1>1, FbRegistered DEF FbUser, fbVars, FbInv
<1>2. CASE FbThread
  BY <1>2, OtherCalled DEF FbThread, fbVars, FbInv
<1>3. CASE WakeLocks /\ UNCHANGED fbVars
  BY <1>3 DEF WakeLocks, fbVars, FbInv, Suspended
<1>4. CASE stop_drawing_early_suspend
  (* fb is at the head of the walk, and still up. *)
  <2>1. fb \notin down /\ UNCHANGED <<handlers, down, joining, state>>
    BY <1>4, HeadUp DEF stop_drawing_early_suspend, AtFb, allVars, esVars
  <2> QED BY <1>4, <2>1 DEF stop_drawing_early_suspend, FbInv, Suspended
<1>5. CASE stop_drawing_return
  BY <1>5 DEF stop_drawing_return, CallSuspend, FbInv, Suspended
<1>6. CASE start_drawing_late_resume
  <2>1. fb \notin down' /\ fb_state' = "DRAWING_OK" /\ UNCHANGED <<joining, state>>
    BY <1>6 DEF start_drawing_late_resume, AtFb, CallResume
  <2> QED BY <2>1 DEF FbInv, Suspended
<1>7. CASE wait_for_fb_sleep_show
  BY <1>7 DEF wait_for_fb_sleep_show, FbInv, Suspended, Idle, allVars, esVars
<1>8. CASE wait_for_fb_wake_show
  BY <1>8 DEF wait_for_fb_wake_show, FbInv, Suspended, Idle, allVars, esVars
<1>9. CASE wait_for_fb_wake_return
  BY <1>9 DEF wait_for_fb_wake_return, FbInv, Suspended, Idle, allVars, esVars
<1>10. CASE UNCHANGED fbAll
  BY <1>10 DEF fbAll, fbVars, allVars, esVars, FbInv, Suspended
<1> QED BY <1>1, <1>2, <1>3, <1>4, <1>5, <1>6, <1>7, <1>8, <1>9, <1>10
        DEF FbNext, FbCallbacks, Drawer

(***************************************************************************)
(* The frame buffer is not switched off under a program that draws: behind *)
(* the handler's answer every handler of a higher level finds it stopped,  *)
(* unless stop_drawing_early_suspend gave up waiting.                      *)
(***************************************************************************)
THEOREM DrawingAlwaysStopped == FbSpec => []DrawingStopped
<1>1. FbInit => FbInv
  BY DEF FbInit, ESInit, FbInv
<1>2. ESInv /\ FbInv /\ [FbNext]_fbAll => FbInv'
  BY FbInvStep
<1>3. ESInv /\ FbInv => DrawingStopped
  <2> SUFFICES ASSUME ESInv, FbInv, NEW h \in ToSet(handlers) \cap down, Level[h] > Level[fb],
                      fb \in ToSet(handlers)
               PROVE  timedout \/ drawer \in Idle
    BY DEF DrawingStopped
  <2>1. Level[fb] < Level[h]
    <3>1. h \in Handler
      BY SetOfSeq DEF ESInv, ListOK
    <3> QED BY <3>1, FbAssumption, HandlerAssumption
  <2>2. fb \in down \/ fb \in joining
    BY <2>1, InLevelOrder DEF LevelOrder
  <2>3. fb \notin joining
    <3>1. fb \in joining => ~Walking /\ ~Suspended
      BY DEF FbInv, ESInv, ControlInv, OneHolder
    <3> QED BY <3>1, DownIsPrefix
  <2> QED BY <2>2, <2>3 DEF FbInv
<1> QED BY <1>1, <1>2, <1>3, FbImplementsEarlySuspend, ESInvAlways, PTL DEF FbSpec
=============================================================================
