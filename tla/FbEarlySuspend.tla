--------------------------- MODULE FbEarlySuspend ---------------------------
(***************************************************************************)
(* The handler by which user space is asked to stop drawing                *)
(* (Kernel/kernel/power/fbearlysuspend.c), composed with early suspend:    *)
(* its suspend callback waits, for a second at most, until the program     *)
(* that draws has read wait_for_fb_wake.  That program (external) draws    *)
(* until its read of wait_for_fb_sleep returns, stops, and reads           *)
(* wait_for_fb_wake before it draws again.                                 *)
(***************************************************************************)
EXTENDS EarlySuspend

CONSTANT fb   \* stop_drawing_early_suspend_desc

ASSUME FbAssumption == fb \in Handler

VARIABLES
  fb_state,
  waiting,    \* stop_drawing_early_suspend is in wait_event_timeout
  timedout,   \* history: the latest such wait ended without an answer
  drawer      \* where the drawing program is

fbVars == <<fb_state, waiting, timedout, drawer>>
fbAll == <<allVars, fbVars>>

Idle == {"wake_show", "again"}   \* the program does not draw

FbInit ==
  /\ ESInit
  /\ fb_state = "DRAWING_OK"
  /\ waiting = FALSE /\ timedout = FALSE
  /\ drawer = "sleep_show"

AtFb == pc \in {"suspending", "resuming"} /\ walk # <<>> /\ Head(walk) = fb
-----------------------------------------------------------------------------
stop_drawing_early_suspend ==
  /\ AtFb /\ pc = "suspending" /\ ~waiting
  /\ fb_state' = "REQUEST_STOP_DRAWING"
  /\ waiting' = TRUE
  /\ UNCHANGED <<allVars, timedout, drawer>>

(* Mutant: the time is not waited for. *)
stop_drawing_return_early ==
  /\ waiting
  /\ CallSuspend
  /\ waiting' = FALSE
  /\ timedout' = FALSE
  /\ UNCHANGED <<fb_state, drawer>>

(* The return of the callback, answered or not. *)
stop_drawing_return ==
  /\ waiting
  /\ CallSuspend
  /\ waiting' = FALSE
  /\ timedout' = (fb_state # "STOPPED_DRAWING")
  /\ UNCHANGED <<fb_state, drawer>>

start_drawing_late_resume ==
  /\ AtFb
  /\ CallResume
  /\ fb_state' = "DRAWING_OK"
  /\ UNCHANGED <<waiting, timedout, drawer>>

(* The read of wait_for_fb_sleep returns; the program draws on for a while. *)
wait_for_fb_sleep_show ==
  /\ TasksRun /\ drawer = "sleep_show"
  /\ fb_state # "DRAWING_OK"
  /\ drawer' = "stopping"
  /\ UNCHANGED <<allVars, fb_state, waiting, timedout>>

(* The read of wait_for_fb_wake up to wait_event_interruptible. *)
wait_for_fb_wake_show ==
  /\ TasksRun /\ drawer \in {"stopping", "again"}
  /\ drawer' = "wake_show"
  /\ fb_state' = IF fb_state = "REQUEST_STOP_DRAWING" THEN "STOPPED_DRAWING" ELSE fb_state
  /\ UNCHANGED <<allVars, waiting, timedout>>

wait_for_fb_wake_return ==
  /\ TasksRun /\ drawer = "wake_show"
  /\ drawer' = IF fb_state = "DRAWING_OK" THEN "sleep_show" ELSE "again"
  /\ UNCHANGED <<allVars, fb_state, waiting, timedout>>
-----------------------------------------------------------------------------
(* The handler is registered at boot (android_power_init) and stays. *)
FbUser ==
  /\ User
  /\ fb \in ToSet(handlers) => fb \in ToSet(handlers')
  /\ fb \in ToSet(handlers') \ ToSet(handlers) => state = {}
  /\ UNCHANGED fbVars

FbThread == (Thread \/ DirectCall) /\ ~AtFb /\ UNCHANGED fbVars

FbCallbacks == stop_drawing_early_suspend \/ stop_drawing_return \/ start_drawing_late_resume

Drawer == wait_for_fb_sleep_show \/ wait_for_fb_wake_show \/ wait_for_fb_wake_return

FbNext ==
  \/ FbUser
  \/ FbThread
  \/ WakeLocks /\ UNCHANGED fbVars
  \/ FbCallbacks
  \/ Drawer

FbSpec == FbInit /\ [][FbNext]_fbAll

(* The wait for the drawing program ends in any case, so the fairness of   *)
(* the thread is that of EarlySuspend; none is asked of the program.       *)
FbFairSpec == FbSpec /\ ESFairness
-----------------------------------------------------------------------------
(***************************************************************************)
(* The frame buffer is not switched off under a program that draws: while  *)
(* a handler of a higher level is suspended the program has answered and   *)
(* does not draw, unless it was given up on.  However the requests and the *)
(* two reads meet, an answer is never taken for that to a later request.   *)
(***************************************************************************)
DrawingStopped ==
  (\E h \in ToSet(handlers) \cap down : Level[h] > Level[fb]) /\ fb \in ToSet(handlers)
    => timedout \/ drawer \in Idle
=============================================================================
