---------------------------- MODULE PowerManager ----------------------------
(***************************************************************************)
(* The power manager of the device: wake locks, the suspend work, early    *)
(* suspend and user wake locks, with everyone that calls them.             *)
(***************************************************************************)
EXTENDS EarlySuspend, UserWakeLock

CONSTANTS
    EvdevLocks,     \* the wake locks of open /dev/input/event* files
    DriverLocks,    \* wake locks drivers hold from interrupts and kthreads
    EvdevTimeout    \* 5 * HZ, in the time unit of the model

ASSUME ClientLocksAssumption ==
    /\ EvdevLocks \subseteq Locks
    /\ DriverLocks \subseteq Locks
    /\ {Main, Unknown, Sync} \cap (UserLocks \cup EvdevLocks \cup DriverLocks) = {}
    /\ UserLocks \cap (EvdevLocks \cup DriverLocks) = {}
    /\ EvdevLocks \cap DriverLocks = {}
ASSUME EvdevTimeoutAssumption == EvdevTimeout \in Timeouts

vars == <<lockVars, suspendQueue, suspendVars, earlySuspendVars>>

(***************************************************************************)
(* state_store: user space writes "mem" or "on" to /sys/power/state; any   *)
(* other text is refused.                                                  *)
(***************************************************************************)
state_store ==
    /\ UserContext
    /\ \E new \in SuspendStates : request_suspend_state(new)

UserStore ==
    /\ \E l \in UserLocks :
          \/ \E arg \in TimeoutArgs \cup {NoTimeout} : wake_lock_store(l, arg)
          \/ wake_unlock_store(l)
    /\ UNCHANGED earlySuspendVars

(***************************************************************************)
(* drivers/input/evdev.c.  Opening the device initialises a lock; an input *)
(* event takes it with a timeout, from an interrupt; the read that empties *)
(* the buffer releases it; closing the file destroys it, held or not.  The *)
(* buffer is in module Evdev: here any read may be the one that empties    *)
(* it.                                                                     *)
(***************************************************************************)
evdev_open(l) == UserContext /\ wake_lock_init(l)

evdev_pass_event(l) ==
    /\ ~IrqsOff
    /\ wake_lock_timeout(l, EvdevTimeout, suspendQueue)

evdev_fetch_next_event(l) == UserContext /\ wake_unlock(l, suspendQueue)

evdev_release(l) == UserContext /\ wake_lock_destroy(l)

Evdev ==
    /\ \E l \in EvdevLocks :
          evdev_open(l) \/ evdev_pass_event(l) \/ evdev_fetch_next_event(l)
             \/ evdev_release(l)
    /\ UNCHANGED <<suspendVars, earlySuspendVars>>

(***************************************************************************)
(* A driver that holds a lock while it works, in interrupt context or on a *)
(* kernel thread the freezer leaves alone.                                 *)
(***************************************************************************)
DriverStep ==
    /\ ~IrqsOff
    /\ \E l \in DriverLocks : wake_lock(l, suspendQueue) \/ wake_unlock(l, suspendQueue)
    /\ UNCHANGED <<suspendVars, earlySuspendVars>>

HandlerRegistration ==
    \E h \in Handlers : register_early_suspend(h) \/ unregister_early_suspend(h)

(***************************************************************************)
(* The timer interrupt, its softirq and the passing of time.               *)
(***************************************************************************)
TimerStep ==
    /\ ~IrqsOff
    /\ TimerFires \/ expire_wake_locks
    /\ UNCHANGED <<suspendVars, earlySuspendVars>>

ClockStep ==
    /\ ~IrqsOff
    /\ Tick
    /\ UNCHANGED <<suspendVars, earlySuspendVars>>

WorkerStep ==
    \/ (run_workqueue \/ SuspendWork) /\ UNCHANGED earlySuspendVars
    \/ EarlyWork

SyncStep == SyncBegins \/ SyncEnds

WakeUpStep == WakeUp /\ UNCHANGED earlySuspendVars

Init ==
    /\ WakeLockInit({Main, Unknown, Sync} \cup DriverLocks)
    /\ SuspendInit
    /\ EarlySuspendInit

Next ==
    \/ state_store \/ UserStore \/ Evdev \/ DriverStep \/ HandlerRegistration
    \/ TimerStep \/ ClockStep \/ WorkerStep \/ SyncStep \/ WakeUpStep

(***************************************************************************)
(* The scheduler runs every runnable thread, the timer interrupt comes and *)
(* the softirq follows it.  Nothing is promised about user space, drivers  *)
(* or wakeup sources.                                                      *)
(***************************************************************************)
Fairness ==
    /\ WF_vars(WorkerStep)
    /\ WF_vars(SyncStep)
    /\ WF_vars(TimerStep)
    /\ WF_vars(ClockStep)

Spec == Init /\ [][Next]_vars

FairSpec == Spec /\ Fairness

TypeOK ==
    /\ WakeLockTypeOK
    /\ worker \in {"idle"} \cup SuspendSteps \cup EarlySteps
    /\ requested_suspend_state \in SuspendStates
    /\ state \subseteq StateBits
    /\ handlers \in Seq(Handlers)
    /\ calledDown \subseteq Handlers
    /\ position \in 0 .. Len(handlers)
    /\ syncPending \in BOOLEAN
    /\ syncing \in BOOLEAN

(***************************************************************************)
(* A suspend is never lost.  Whenever nothing keeps the device awake, the  *)
(* way to the next suspend attempt exists: a lock without a deadline is    *)
(* still held (whose release re-evaluates), the timer is armed or its      *)
(* handler is on its way, suspend_work is pending, or suspend() is running *)
(* and will look again, or take unknown_wakeup, before it returns.         *)
(***************************************************************************)
AttemptCommitted ==
    worker \in SuspendSteps \ {"suspend", "entry"} => ~newEvent

SuspendNotLost ==
    \/ Permanent # {}
    \/ expire_timer # Off
    \/ expiring
    \/ Pending(suspendQueue, "suspend")
    \/ worker \in SuspendSteps /\ AttemptCommitted

(***************************************************************************)
(* main_wake_lock is released only while the user-visible state is fully   *)
(* suspended: a write of "on" that races the end of early_suspend takes    *)
(* the lock back and keeps it.                                             *)
(***************************************************************************)
MainHeldUnlessSuspended == Main \notin active => state = StateBits

(***************************************************************************)
(* The device sleeps only when user space last asked for it, all handlers  *)
(* have been suspended and no lock user space can hold is held, whatever   *)
(* was written while the suspend was under way.                            *)
(***************************************************************************)
SleepOnlyWhenAsked ==
    worker = "asleep" =>
        /\ requested_suspend_state = "mem"
        /\ calledDown = Registered
        /\ active \cap (UserLocks \cup {Main}) = {}

(***************************************************************************)
(* The hooks follow the SUSPENDED bit: with early_suspend_lock free every  *)
(* registered handler is down or none is, and while the hooks run those    *)
(* down are the first in level order (earlysuspend.h: "Suspend handlers    *)
(* are called in low to high level order, resume handlers are called in    *)
(* the opposite order").                                                   *)
(***************************************************************************)
HandlersFollowState ==
    /\ ~early_suspend_lock =>
          calledDown = IF "SUSPENDED" \in state THEN Registered ELSE {}
    /\ early_suspend_lock =>
          \A i, j \in 1 .. Len(handlers) :
             Level[handlers[i]] < Level[handlers[j]] /\ handlers[j] \in calledDown
                => handlers[i] \in calledDown

(***************************************************************************)
(* wakelock.h: "A wake_lock prevents the system from entering suspend or   *)
(* other low power states when active."                                    *)
(***************************************************************************)
ActiveLockPreventsSuspend ==
    worker = "asleep" => \A l \in active : l \in autoExpire /\ left[l] = 0

(***************************************************************************)
(* The timeouts lookup_wake_lock_name can convert: rounding up does not    *)
(* overflow the unsigned long long, nor the number of jiffies the long.    *)
(***************************************************************************)
TimeoutFits(ns) ==
    /\ ns + NsPerJiffy - 1 < UllSize
    /\ (ns + NsPerJiffy - 1) \div NsPerJiffy < LongSize \div 2

(***************************************************************************)
(* A lock user space takes with a timeout is held for at least the time it *)
(* asked for, if the widths of the code can hold that time.  A longer one  *)
(* is cut to a 32-bit long (userwakelock.c:75) and not honoured; the write *)
(* does not refuse it.                                                     *)
(***************************************************************************)
RequestedTimeHonoured ==
    [][\A l \in UserLocks, ns \in TimeoutArgs :
          TimeoutFits(ns) /\ wake_lock_store(l, ns)
             => l \in active' /\ left'[l] * NsPerJiffy >= ns]_vars

(***************************************************************************)
(* The write that wins.  If user space stops writing to /sys/power/state   *)
(* after "on", the handlers are resumed and main_wake_lock is held for     *)
(* good.                                                                   *)
(***************************************************************************)
OnHonoured ==
    <>[](requested_suspend_state = "on")
        => <>[](calledDown = {} /\ Main \in active)

(***************************************************************************)
(* If it stops after "mem" and no other lock is taken for good, the device *)
(* keeps trying to suspend.                                                *)
(***************************************************************************)
MemHonoured ==
    (/\ <>[]("SUSPEND_REQUESTED" \in state)
     /\ <>[](active \subseteq {Main, Unknown, Sync})
     /\ []<>~IrqsOff)
        => []<>(worker = "prepare")
=============================================================================
