--------------------------- MODULE FbEarlySuspend ---------------------------
(***************************************************************************)
(* kernel/power/fbearlysuspend.c: the handshake that stops user space from *)
(* drawing before the display is switched off.  Two processes share        *)
(* fb_state and one wait queue: the early suspend work, which calls the    *)
(* two hooks in turn (HandlersFollowState of PowerManager says so), and    *)
(* the display thread of user space, which reads the two files of          *)
(* /sys/power in turn and draws in between.                                *)
(***************************************************************************)
EXTENDS Integers

CONSTANT HZ     \* jiffies in the second that the hook waits

ASSUME HZAssumption == HZ \in Nat \ {0}

VARIABLES
    fb_state,
    hook,       \* the early suspend work: "up", "stopping" in the hook, "down"
    hook_timeout,  \* jiffies left of the hook's wait_event_timeout
    drawer,     \* where the display thread is
    asleep      \* the processes blocked on fb_state_wq

fbVars == <<fb_state, hook, hook_timeout, drawer, asleep>>

FbStates == {"STOPPED_DRAWING", "REQUEST_STOP_DRAWING", "DRAWING_OK"}

(***************************************************************************)
(* The display thread draws until the read of wait_for_fb_sleep returns    *)
(* ("told"), stops, reads wait_for_fb_wake until that returns ("awake"),   *)
(* and draws again.  "retry": its read of wait_for_fb_wake failed.         *)
(***************************************************************************)
DrawerSteps == {"awake", "wait_for_fb_sleep", "told", "wait_for_fb_wake", "retry"}

Drawing == drawer \in {"awake", "wait_for_fb_sleep", "told"}

(***************************************************************************)
(* wake_up: every wait on fb_state_wq is non-exclusive, so all waiters are *)
(* made runnable and look at fb_state again when they are scheduled.       *)
(***************************************************************************)
wake_up == asleep' = {}

(***************************************************************************)
(* The wait_event macros: a process that finds its condition true leaves,  *)
(* one that does not goes to sleep.  prepare_to_wait comes before the      *)
(* test, so no wake_up falls between the two.                              *)
(***************************************************************************)
GoesToSleep(p, condition) ==
    /\ p \notin asleep
    /\ ~condition
    /\ asleep' = asleep \cup {p}

stop_drawing_early_suspend ==
    /\ hook = "up"
    /\ fb_state' = "REQUEST_STOP_DRAWING"
    /\ hook' = "stopping"
    /\ hook_timeout' = HZ
    /\ wake_up
    /\ UNCHANGED drawer

StopWaits ==
    /\ hook = "stopping"
    /\ GoesToSleep("hook", fb_state = "STOPPED_DRAWING")
    /\ UNCHANGED <<fb_state, hook, hook_timeout, drawer>>

StopReturns_untimed ==
    /\ hook = "stopping"
    /\ "hook" \notin asleep
    /\ fb_state = "STOPPED_DRAWING"
    /\ hook' = "down"
    /\ hook_timeout' = 0
    /\ UNCHANGED <<fb_state, drawer, asleep>>

StopReturns ==
    /\ hook = "stopping"
    /\ \/ "hook" \notin asleep /\ fb_state = "STOPPED_DRAWING"
       \/ hook_timeout = 0
    /\ hook' = "down"
    /\ asleep' = asleep \ {"hook"}
    /\ hook_timeout' = 0
    /\ UNCHANGED <<fb_state, drawer>>

TimeoutTicks ==
    /\ hook_timeout > 0
    /\ hook_timeout' = hook_timeout - 1
    /\ UNCHANGED <<fb_state, hook, drawer, asleep>>

start_drawing_silently ==
    /\ hook = "down"
    /\ fb_state' = "DRAWING_OK"
    /\ hook' = "up"
    /\ UNCHANGED <<hook_timeout, drawer, asleep>>

start_drawing_late_resume ==
    /\ hook = "down"
    /\ fb_state' = "DRAWING_OK"
    /\ hook' = "up"
    /\ wake_up
    /\ UNCHANGED <<hook_timeout, drawer>>

(***************************************************************************)
(* wait_for_fb_sleep_show.  A signal (the freezer sends one too) ends the  *)
(* wait; the read then fails, and is repeated, only if drawing is allowed. *)
(***************************************************************************)
sleep_show_begins ==
    /\ drawer = "awake"
    /\ drawer' = "wait_for_fb_sleep"
    /\ UNCHANGED <<fb_state, hook, hook_timeout, asleep>>

sleep_show_waits ==
    /\ drawer = "wait_for_fb_sleep"
    /\ GoesToSleep("drawer", fb_state # "DRAWING_OK")
    /\ UNCHANGED <<fb_state, hook, hook_timeout, drawer>>

sleep_show_returns ==
    /\ drawer = "wait_for_fb_sleep"
    /\ "drawer" \notin asleep
    /\ fb_state # "DRAWING_OK"
    /\ drawer' = "told"
    /\ UNCHANGED <<fb_state, hook, hook_timeout, asleep>>

sleep_show_interrupted ==
    /\ drawer = "wait_for_fb_sleep"
    /\ drawer' = IF fb_state = "DRAWING_OK" THEN "awake" ELSE "told"
    /\ asleep' = asleep \ {"drawer"}
    /\ UNCHANGED <<fb_state, hook, hook_timeout>>

(***************************************************************************)
(* wait_for_fb_wake_show.  Calling it says that drawing has stopped: a     *)
(* pending request is answered, once, before the wait.                     *)
(***************************************************************************)
wake_show_begins ==
    /\ drawer \in {"told", "retry"}
    /\ drawer' = "wait_for_fb_wake"
    /\ \/ /\ fb_state = "REQUEST_STOP_DRAWING"
          /\ fb_state' = "STOPPED_DRAWING"
          /\ wake_up
       \/ /\ fb_state # "REQUEST_STOP_DRAWING"
          /\ UNCHANGED <<fb_state, asleep>>
    /\ UNCHANGED <<hook, hook_timeout>>

wake_show_waits ==
    /\ drawer = "wait_for_fb_wake"
    /\ GoesToSleep("drawer", fb_state = "DRAWING_OK")
    /\ UNCHANGED <<fb_state, hook, hook_timeout, drawer>>

wake_show_returns ==
    /\ drawer = "wait_for_fb_wake"
    /\ "drawer" \notin asleep
    /\ fb_state = "DRAWING_OK"
    /\ drawer' = "awake"
    /\ UNCHANGED <<fb_state, hook, hook_timeout, asleep>>

wake_show_interrupted_awake ==
    /\ drawer = "wait_for_fb_wake"
    /\ drawer' = "awake"
    /\ asleep' = asleep \ {"drawer"}
    /\ UNCHANGED <<fb_state, hook, hook_timeout>>

wake_show_interrupted ==
    /\ drawer = "wait_for_fb_wake"
    /\ drawer' = IF fb_state = "DRAWING_OK" THEN "awake" ELSE "retry"
    /\ asleep' = asleep \ {"drawer"}
    /\ UNCHANGED <<fb_state, hook, hook_timeout>>

(***************************************************************************)
(* android_power_init makes the files visible with drawing allowed.        *)
(***************************************************************************)
FbInit ==
    /\ fb_state = "DRAWING_OK"
    /\ hook = "up"
    /\ hook_timeout = 0
    /\ drawer = "awake"
    /\ asleep = {}

HookStep == StopWaits \/ StopReturns

ReadStep ==
    sleep_show_waits \/ sleep_show_returns \/ wake_show_waits \/ wake_show_returns

FbNext ==
    \/ stop_drawing_early_suspend \/ HookStep \/ TimeoutTicks \/ start_drawing_late_resume
    \/ sleep_show_begins \/ wake_show_begins \/ ReadStep
    \/ sleep_show_interrupted \/ wake_show_interrupted

FbSpec == FbInit /\ [][FbNext]_fbVars

(***************************************************************************)
(* The work and a runnable reader inside the kernel are scheduled, and     *)
(* time passes.  User space may take any time between its reads, and       *)
(* nobody promises that a suspend or a resume is ever requested.           *)
(***************************************************************************)
FbFairSpec == FbSpec /\ WF_fbVars(HookStep) /\ WF_fbVars(TimeoutTicks) /\ WF_fbVars(ReadStep)

FbTypeOK ==
    /\ fb_state \in FbStates
    /\ hook \in {"up", "stopping", "down"}
    /\ hook_timeout \in 0 .. HZ
    /\ drawer \in DrawerSteps
    /\ asleep \subseteq {"hook", "drawer"}

(***************************************************************************)
(* FB_STATE_STOPPED_DRAWING is the truth: while it is set user space does  *)
(* not draw, whatever signals end its reads and however late it answers a  *)
(* request whose second has passed.  The hook returns early only on it.    *)
(***************************************************************************)
StoppedMeansStopped == fb_state = "STOPPED_DRAWING" => ~Drawing

(***************************************************************************)
(* The hook never blocks the early suspend work for good: it returns even  *)
(* if user space never answers.                                            *)
(***************************************************************************)
HookReturns == hook = "stopping" ~> hook = "down"

(***************************************************************************)
(* After a resume a display thread that waits in wait_for_fb_wake draws    *)
(* again, unless the next suspend comes first.                             *)
(***************************************************************************)
DrawsAgain ==
    (fb_state = "DRAWING_OK" /\ drawer = "wait_for_fb_wake")
       ~> (Drawing \/ fb_state # "DRAWING_OK")
=============================================================================
