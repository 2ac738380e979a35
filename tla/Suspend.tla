------------------------------ MODULE Suspend ------------------------------
(***************************************************************************)
(* The suspend work of kernel/power/wakelock.c and the path it drives:     *)
(* pm_suspend and enter_state (kernel/power/suspend.c), the freezer        *)
(* (kernel/power/process.c) and the noirq callback power_suspend_late.     *)
(*                                                                         *)
(* The works of suspend_work_queue are run by one kernel thread; worker is *)
(* where that thread is.  Between two of its steps interrupts, the timer   *)
(* softirq and the other threads run, until arch_suspend_disable_irqs.     *)
(***************************************************************************)
EXTENDS WakeLock

CONSTANT UnknownTimeout   \* HZ / 2, in the time unit of the model

ASSUME UnknownTimeoutAssumption == UnknownTimeout \in 1 .. MaxTimeout

VARIABLES
    worker,                   \* what the thread of suspend_work_queue is doing
    requested_suspend_state   \* "on" or "mem"

suspendVars == <<worker, requested_suspend_state>>

SuspendStates == {"on", "mem"}

(***************************************************************************)
(* The steps of suspend(), in order.                                       *)
(***************************************************************************)
Frozen == {"freeze_tasks", "devices", "late", "noirq", "irqs_off", "asleep", "resume"}
SuspendSteps == {"suspend", "entry", "sync", "prepare", "freeze_user", "thaw", "exit"}
                    \cup Frozen

(***************************************************************************)
(* Who can run.  A user process runs until the first freezer pass has      *)
(* succeeded, and again while thaw_tasks restarts one after the other; no  *)
(* process runs inside the timer softirq; nothing but the suspend thread   *)
(* runs once interrupts are off.                                           *)
(***************************************************************************)
IrqsOff == worker \in {"irqs_off", "asleep"}
ProcessContext == ~expiring /\ ~IrqsOff
UserContext == ProcessContext /\ worker \notin Frozen

WorkerAt(step) == worker = step /\ ~expiring

Goto(step) ==
    /\ worker' = step
    /\ UNCHANGED requested_suspend_state

(***************************************************************************)
(* The thread takes the oldest work; its pending bit is clear from here on *)
(***************************************************************************)
run_workqueue ==
    /\ WorkerAt("idle")
    /\ suspendQueue # << >>
    /\ suspendQueue' = Tail(suspendQueue)
    /\ Goto(Head(suspendQueue))
    /\ UNCHANGED lockVars

SuspendAborts ==
    /\ WorkerAt("suspend")
    /\ HasWakeLock
    /\ has_wake_lock
    /\ Goto("idle")
    /\ UNCHANGED <<newEvent, suspendQueue>>

SuspendStarts ==
    /\ WorkerAt("suspend")
    /\ ~HasWakeLock
    /\ has_wake_lock
    /\ Goto("entry")
    /\ UNCHANGED <<newEvent, suspendQueue>>

(***************************************************************************)
(* entry_event_num = current_event_num: an event between has_wake_lock and *)
(* here is not seen by the comparison at the end.                          *)
(***************************************************************************)
RecordEntryEvent ==
    /\ WorkerAt("entry")
    /\ newEvent' = FALSE
    /\ Goto("sync")
    /\ UNCHANGED <<initialized, active, autoExpire, preventing, left,
                   expire_timer, expiring, suspendQueue>>

(***************************************************************************)
(* After sys_sync, pm_suspend(requested_suspend_state): PM_SUSPEND_ON is   *)
(* refused with -EINVAL.                                                   *)
(***************************************************************************)
pm_suspend ==
    /\ WorkerAt("sync")
    /\ Goto(IF requested_suspend_state = "on" THEN "exit" ELSE "prepare")
    /\ UNCHANGED <<lockVars, suspendQueue>>

(***************************************************************************)
(* enter_state up to the freezer: pm_mutex, sys_sync, notifiers and        *)
(* usermodehelper_disable, each of which may refuse.                       *)
(***************************************************************************)
SuspendPrepare ==
    /\ WorkerAt("prepare")
    /\ \E step \in {"freeze_user", "exit"} : Goto(step)
    /\ UNCHANGED <<lockVars, suspendQueue>>

(***************************************************************************)
(* One round of try_to_freeze_tasks.  With no task left to freeze the pass *)
(* is over without a look at the wake locks; otherwise an active lock or   *)
(* the timeout abandons the suspend, or the thread sleeps and retries.     *)
(***************************************************************************)
FreezeRound(pass, next) ==
    /\ WorkerAt(pass)
    /\ \/ /\ Goto(next)
          /\ UNCHANGED lockVars
       \/ /\ has_wake_lock
          /\ \E step \in (IF HasWakeLock THEN {"thaw"} ELSE {pass, "thaw"}) :
                Goto(step)
          /\ UNCHANGED newEvent
    /\ UNCHANGED suspendQueue

FreezeUserSpace == FreezeRound("freeze_user", "freeze_tasks")
FreezeTasks == FreezeRound("freeze_tasks", "devices")

(***************************************************************************)
(* dpm_suspend_start: a device may refuse, which resumes all of them.      *)
(***************************************************************************)
SuspendDevices ==
    /\ WorkerAt("devices")
    /\ \E step \in {"late", "resume"} : Goto(step)
    /\ UNCHANGED <<lockVars, suspendQueue>>

\* Mutant: the result of has_wake_lock is not returned.
power_suspend_late_ignored ==
    /\ WorkerAt("late")
    /\ has_wake_lock
    /\ \E step \in {"noirq", "resume"} : Goto(step)
    /\ UNCHANGED <<newEvent, suspendQueue>>

(***************************************************************************)
(* suspend_ops->prepare and dpm_suspend_noirq, whose callback for the      *)
(* power device is power_suspend_late: -EAGAIN when a wake lock is active. *)
(* Another device may fail before the callback is reached, or after it.    *)
(***************************************************************************)
power_suspend_late ==
    /\ WorkerAt("late")
    /\ \/ /\ Goto("resume")
          /\ UNCHANGED lockVars
       \/ /\ has_wake_lock
          /\ \E step \in (IF HasWakeLock THEN {"resume"} ELSE {"noirq", "resume"}) :
                Goto(step)
          /\ UNCHANGED newEvent
    /\ UNCHANGED suspendQueue

(***************************************************************************)
(* arch_suspend_disable_irqs, with nothing checked again.                  *)
(***************************************************************************)
DisableIrqs ==
    /\ WorkerAt("noirq")
    /\ Goto("irqs_off")
    /\ UNCHANGED <<lockVars, suspendQueue>>

(***************************************************************************)
(* sysdev_suspend and suspend_ops->enter, either of which may fail.        *)
(***************************************************************************)
SuspendEnter ==
    /\ WorkerAt("irqs_off")
    /\ \E step \in {"asleep", "resume"} : Goto(step)
    /\ UNCHANGED <<lockVars, suspendQueue>>

(***************************************************************************)
(* A wakeup source ends the sleep.                                         *)
(***************************************************************************)
WakeUp ==
    /\ WorkerAt("asleep")
    /\ Goto("resume")
    /\ UNCHANGED <<lockVars, suspendQueue>>

(***************************************************************************)
(* dpm_resume_noirq, dpm_resume_end; then suspend_finish thaws everyone.   *)
(***************************************************************************)
ResumeDevices ==
    /\ WorkerAt("resume")
    /\ Goto("thaw")
    /\ UNCHANGED <<lockVars, suspendQueue>>

SuspendFinish ==
    /\ WorkerAt("thaw")
    /\ Goto("exit")
    /\ UNCHANGED <<lockVars, suspendQueue>>

\* Mutant: unknown_wakeup is not taken.
SuspendExitWithoutLock ==
    /\ WorkerAt("exit")
    /\ Goto("idle")
    /\ UNCHANGED <<lockVars, suspendQueue>>

(***************************************************************************)
(* The end of suspend(): without an event since entry_event_num was read,  *)
(* unknown_wakeup is taken for HZ / 2.                                     *)
(***************************************************************************)
SuspendExit ==
    /\ WorkerAt("exit")
    /\ Goto("idle")
    /\ \/ /\ newEvent
          /\ UNCHANGED <<lockVars, suspendQueue>>
       \/ /\ ~newEvent
          /\ wake_lock_timeout(Unknown, UnknownTimeout, suspendQueue)

SuspendWork ==
    \/ SuspendAborts \/ SuspendStarts \/ RecordEntryEvent \/ pm_suspend
    \/ SuspendPrepare \/ FreezeUserSpace \/ FreezeTasks \/ SuspendDevices
    \/ power_suspend_late \/ DisableIrqs \/ SuspendEnter \/ ResumeDevices
    \/ SuspendFinish \/ SuspendExit

SuspendInit ==
    /\ worker = "idle"
    /\ requested_suspend_state = "mem"
=============================================================================
