---------------------------- MODULE EarlySuspend ----------------------------
(***************************************************************************)
(* The user-visible sleep state and its handlers                           *)
(* (Kernel/kernel/power/earlysuspend.c), composed with the wake locks.     *)
(*                                                                         *)
(* request_suspend_state runs under state_lock with interrupts off, so it  *)
(* is one action.  early_suspend and late_resume run on the one thread of  *)
(* suspend_work_queue, the thread that also runs suspend() of wakelock.c;  *)
(* they call one handler per step.  They hold early_suspend_lock while     *)
(* they do, so a handler is registered or unregistered only between walks. *)
(* register_early_suspend is two steps, the insertion and the direct call  *)
(* of the callback: the mutex keeps the walks out between them, but not    *)
(* requests, the wake locks or suspend().                                  *)
(***************************************************************************)
EXTENDS WakeLock, Sequences, SequencesExt

CONSTANTS
  Handler,   \* the struct early_suspend objects
  Level      \* their level, a function on Handler

ASSUME HandlerAssumption == Level \in [Handler -> Nat]

VARIABLES
  state,     \* the bits of state that are set, a subset of StateBit
  queue,     \* the work items pending on suspend_work_queue, in FIFO order
  pc,        \* where early_suspend or late_resume is (see Pc)
  walk,      \* the handlers it has still to call
  handlers,  \* early_suspend_handlers
  down,      \* the handlers whose latest callback was suspend
  joining    \* the handler register_early_suspend has put on the list while
             \* it still holds early_suspend_lock (at most one)

esVars == <<state, queue, pc, walk, handlers, down, joining>>
allVars == <<vars, esVars>>

StateBit == {"SUSPEND_REQUESTED", "SUSPENDED"}
WorkItem == {"early_suspend", "late_resume", "suspend"}

(* Not running; the item taken off the queue, early_suspend_lock not yet   *)
(* taken; calling suspend handlers; past early_suspend_lock, before the    *)
(* final look at state; calling resume handlers.                           *)
Pc == {"idle", "early_suspend", "late_resume", "suspending", "sync", "resuming"}

ESInit ==
  /\ Init
  /\ state = {}
  /\ queue = <<>>
  /\ pc = "idle"
  /\ walk = <<>>
  /\ handlers = <<>>
  /\ down = {} /\ joining = {}

(* queue_work: nothing happens when the item is pending already. *)
queue_work(q, w) == IF w \in ToSet(q) THEN q ELSE Append(q, w)

(* suspend_work enters the queue when an action of WakeLock sets work. *)
QueueSuspend(q) == IF work' THEN queue_work(q, "suspend") ELSE q

(* run_workqueue takes the item at the head when the thread is free, and   *)
(* clears its pending bit: the item may be queued again from here on.      *)
Dequeue(w) ==
  /\ pc = "idle"
  /\ susp = "idle"
  /\ queue # <<>>
  /\ Head(queue) = w
  /\ queue' = Tail(queue)

run_workqueue ==
  /\ \E w \in {"early_suspend", "late_resume"} : Dequeue(w) /\ pc' = w
  /\ UNCHANGED <<vars, state, walk, handlers, down, joining>>
-----------------------------------------------------------------------------
(* Mutant: a new handler goes to the end of the list. *)
PlaceLast(h, list) == {Len(list) + 1}

(* Where list_for_each stops: at the first handler of a higher level, or   *)
(* at the end of the list.  There is one such place.                       *)
Place(h, list) ==
  {pos \in 1..(Len(list) + 1) :
     /\ \A i \in 1..(pos - 1) : Level[list[i]] <= Level[h]
     /\ pos <= Len(list) => Level[list[pos]] > Level[h]}

(* A task can take early_suspend_lock. *)
MutexFree ==
  /\ pc \notin {"suspending", "resuming"}
  /\ joining = {}
  /\ TasksRun

register_early_suspend(h) ==
  /\ MutexFree
  /\ h \notin ToSet(handlers)
  /\ \E pos \in Place(h, handlers) : handlers' = InsertAt(handlers, pos, h)
  /\ down' = down \ {h}
  /\ joining' = {h}
  /\ UNCHANGED <<vars, state, queue, pc, walk>>

(* Mutant: registering does not suspend a late comer. *)
DirectCallSkipped ==
  /\ joining # {}
  /\ joining' = {}
  /\ UNCHANGED <<vars, state, queue, pc, walk, handlers, down>>

(* The direct call of the new handler, and mutex_unlock. *)
DirectCall ==
  /\ joining # {}
  /\ joining' = {}
  /\ down' = IF "SUSPENDED" \in state THEN down \union joining ELSE down
  /\ UNCHANGED <<vars, state, queue, pc, walk, handlers>>

unregister_early_suspend(h) ==
  /\ MutexFree
  /\ \E i \in 1..Len(handlers) : handlers[i] = h /\ handlers' = RemoveAt(handlers, i)
  /\ UNCHANGED <<vars, state, queue, pc, walk, down, joining>>

(* Mutant: the wake_lock is left to late_resume. *)
request_suspend_state_unlocked(on) ==
  /\ TasksRun
  /\ \/ /\ ~on
        /\ "SUSPEND_REQUESTED" \notin state
        /\ state' = state \union {"SUSPEND_REQUESTED"}
        /\ queue' = queue_work(queue, "early_suspend")
     \/ /\ on
        /\ "SUSPEND_REQUESTED" \in state
        /\ state' = state \ {"SUSPEND_REQUESTED"}
        /\ queue' = queue_work(queue, "late_resume")
  /\ UNCHANGED <<vars, pc, walk, handlers, down, joining>>

(* on: new_state is PM_SUSPEND_ON. *)
request_suspend_state(on) ==
  /\ TasksRun
  /\ \/ /\ ~on
        /\ "SUSPEND_REQUESTED" \notin state
        /\ state' = state \union {"SUSPEND_REQUESTED"}
        /\ queue' = queue_work(queue, "early_suspend")
        /\ UNCHANGED vars
     \/ /\ on
        /\ "SUSPEND_REQUESTED" \in state
        /\ state' = state \ {"SUSPEND_REQUESTED"}
        /\ wake_lock(main)
        /\ queue' = queue_work(QueueSuspend(queue), "late_resume")
  /\ UNCHANGED <<pc, walk, handlers, down, joining>>
-----------------------------------------------------------------------------
(* Mutant: early_suspend does not look whether it is suspended already. *)
early_suspend_again ==
  /\ pc = "early_suspend"
  /\ joining = {}
  /\ IF "SUSPEND_REQUESTED" \in state
     THEN /\ state' = state \union {"SUSPENDED"}
          /\ pc' = "suspending"
          /\ walk' = handlers
     ELSE /\ pc' = "sync"
          /\ UNCHANGED <<state, walk>>
  /\ UNCHANGED <<vars, queue, handlers, down, joining>>

early_suspend ==
  /\ pc = "early_suspend"
  /\ joining = {}
  /\ IF state = {"SUSPEND_REQUESTED"}
     THEN /\ state' = state \union {"SUSPENDED"}
          /\ pc' = "suspending"
          /\ walk' = handlers
     ELSE /\ pc' = "sync"
          /\ UNCHANGED <<state, walk>>
  /\ UNCHANGED <<vars, queue, handlers, down, joining>>

CallSuspend ==
  /\ pc = "suspending"
  /\ walk # <<>>
  /\ down' = down \union {Head(walk)}
  /\ walk' = Tail(walk)
  /\ UNCHANGED <<vars, state, queue, pc, handlers, joining>>

SuspendCalled ==
  /\ pc = "suspending"
  /\ walk = <<>>
  /\ pc' = "sync"
  /\ UNCHANGED <<vars, state, queue, walk, handlers, down, joining>>

(* Mutant: main_wake_lock is released whatever the state has become. *)
ReleaseMainAlways ==
  /\ pc = "sync"
  /\ pc' = "idle"
  /\ wake_unlock(main)
  /\ queue' = QueueSuspend(queue)
  /\ UNCHANGED <<state, walk, handlers, down, joining>>

ReleaseMain ==
  /\ pc = "sync"
  /\ pc' = "idle"
  /\ \/ state = StateBit /\ wake_unlock(main)
     \/ state # StateBit /\ UNCHANGED vars
  /\ queue' = QueueSuspend(queue)
  /\ UNCHANGED <<state, walk, handlers, down, joining>>

(* Mutant: a late_resume that finds the state changed puts itself back. *)
late_resume_requeued ==
  /\ pc = "late_resume"
  /\ joining = {}
  /\ IF state = {"SUSPENDED"}
     THEN /\ state' = {}
          /\ pc' = "resuming"
          /\ walk' = Reverse(handlers)
          /\ UNCHANGED queue
     ELSE /\ queue' = queue_work(queue, "late_resume")
          /\ pc' = "idle"
          /\ UNCHANGED <<state, walk>>
  /\ UNCHANGED <<vars, handlers, down, joining>>

late_resume ==
  /\ pc = "late_resume"
  /\ joining = {}
  /\ IF state = {"SUSPENDED"}
     THEN /\ state' = {}
          /\ pc' = "resuming"
          /\ walk' = Reverse(handlers)
     ELSE pc' = "idle" /\ UNCHANGED <<state, walk>>
  /\ UNCHANGED <<vars, queue, handlers, down, joining>>

CallResume ==
  /\ pc = "resuming"
  /\ walk # <<>>
  /\ down' = down \ {Head(walk)}
  /\ walk' = Tail(walk)
  /\ UNCHANGED <<vars, state, queue, pc, handlers, joining>>

ResumeCalled ==
  /\ pc = "resuming"
  /\ walk = <<>>
  /\ pc' = "idle"
  /\ UNCHANGED <<vars, state, queue, walk, handlers, down, joining>>
-----------------------------------------------------------------------------
(***************************************************************************)
(* The actions of WakeLock, with the queue that suspend_work shares.       *)
(* main_wake_lock is left to the actions above.  A task inside             *)
(* register_early_suspend cannot be frozen, so pm_suspend gets past the    *)
(* freezer only when none is.                                              *)
(***************************************************************************)
RunSuspend == Dequeue("suspend") /\ SuspendCheck

OtherWakeLock ==
  /\ \/ \E l \in Lock \ {main, unknown} : LockOp(l)
     \/ Tick
     \/ expire_wake_locks
     \/ PmSuspend /\ (susp' = "late" => joining = {})
  /\ queue' = QueueSuspend(queue)

WakeLocks ==
  /\ RunSuspend \/ OtherWakeLock
  /\ UNCHANGED <<state, pc, walk, handlers, down, joining>>

User ==
  \/ \E on \in BOOLEAN : request_suspend_state(on)
  \/ \E h \in Handler : register_early_suspend(h) \/ unregister_early_suspend(h)

Thread ==
  \/ run_workqueue
  \/ early_suspend \/ CallSuspend \/ SuspendCalled \/ ReleaseMain
  \/ late_resume \/ CallResume \/ ResumeCalled

ESNext == User \/ DirectCall \/ Thread \/ WakeLocks

ESSpec == ESInit /\ [][ESNext]_allVars

(***************************************************************************)
(* The work-queue thread is scheduled, a callback returns, pm_suspend      *)
(* returns, time passes and the timer softirq runs.                        *)
(***************************************************************************)
Beside(A) ==
  /\ A
  /\ queue' = QueueSuspend(queue)
  /\ UNCHANGED <<state, pc, walk, handlers, down, joining>>

ESFairness ==
  /\ WF_allVars(Thread)
  /\ WF_allVars(DirectCall)
  /\ WF_allVars(RunSuspend /\ UNCHANGED <<state, pc, walk, handlers, down, joining>>)
  /\ WF_allVars(Beside(Tick))
  /\ WF_allVars(Beside(expire_wake_locks))
  /\ WF_allVars(Beside(SuspendEntry))
  /\ WF_allVars(Beside((power_suspend_late /\ joining = {}) \/ PmFail))
  /\ WF_allVars(Beside(PmEnter \/ PmFail))
  /\ WF_allVars(Beside(PmWake))
  /\ WF_allVars(Beside(SuspendExit))

ESFairSpec == ESSpec /\ ESFairness
-----------------------------------------------------------------------------
ESTypeOK ==
  /\ TypeOK
  /\ state \subseteq StateBit
  /\ queue \in Seq(WorkItem) /\ IsInjective(queue)
  /\ work <=> "suspend" \in ToSet(queue)
  /\ pc \in Pc
  /\ walk \in Seq(Handler)
  /\ handlers \in Seq(Handler) /\ IsInjective(handlers)
  /\ down \subseteq Handler
  /\ joining \subseteq ToSet(handlers) /\ \A g, h \in joining : g = h

(***************************************************************************)
(* main_wake_lock is free only while user space asks for sleep and every   *)
(* registered handler has been suspended: whatever requests arrive while   *)
(* the two work items are queued or running, wake_unlock in early_suspend  *)
(* never undoes the wake_lock of a later request_suspend_state(ON).  The   *)
(* one handler that may still be up is that whose direct call by           *)
(* register_early_suspend is under way.                                    *)
(***************************************************************************)
MainReleasedOnlyDown ==
  main \notin held =>
    /\ state = StateBit
    /\ pc \notin {"suspending", "resuming"}
    /\ ToSet(handlers) \ joining \subseteq down

(***************************************************************************)
(* When the queue holds neither of the two work items and neither runs,    *)
(* the handlers and main_wake_lock agree with the latest request: an item  *)
(* that found the state changed under it and aborted was not needed.  (A   *)
(* handler that is being registered gets its direct call.)                 *)
(***************************************************************************)
Settled ==
  /\ pc = "idle"
  /\ ToSet(queue) \subseteq {"suspend"}

SettledAgrees ==
  Settled =>
    IF "SUSPEND_REQUESTED" \in state
    THEN "SUSPENDED" \in state /\ ToSet(handlers) \ joining \subseteq down /\ main \notin held
    ELSE "SUSPENDED" \notin state /\ ToSet(handlers) \intersect down = {} /\ main \in held

(***************************************************************************)
(* No handler is suspended twice or resumed twice in a row, by the walks   *)
(* or by the direct call.                                                  *)
(***************************************************************************)
CallbacksAlternate ==
  /\ pc = "suspending" => ToSet(walk) \intersect down = {}
  /\ pc = "resuming" => ToSet(walk) \subseteq down
  /\ joining \intersect down = {}

(***************************************************************************)
(* include/linux/earlysuspend.h: "Suspend handlers are called in low to    *)
(* high level order, resume handlers are called in the opposite order",    *)
(* and the direct call at a registration "can violate the normal level     *)
(* order".  It violates no more than that: a handler is never down while   *)
(* one of a lower level is up, except for the one handler whose direct     *)
(* call is under way; once that call has returned the late comer stands    *)
(* in the order, for the resumes to come too.                              *)
(***************************************************************************)
LevelOrder ==
  \A g, h \in ToSet(handlers) :
    Level[g] < Level[h] /\ h \in down => g \in down \union joining

(***************************************************************************)
(* The machine goes to sleep only behind a finished early suspend, with no *)
(* exception: a registration under way is waited for.                      *)
(***************************************************************************)
AsleepAllDown ==
  susp \in {"late", "asleep"} => state = StateBit /\ ToSet(handlers) \subseteq down

(***************************************************************************)
(* Once user space makes no more requests, the sleep state settles.        *)
(***************************************************************************)
SettlesAtLast == <>[][~User]_allVars => <>[]Settled
=============================================================================
