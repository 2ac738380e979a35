---------------------------- MODULE EarlySuspend ----------------------------
(***************************************************************************)
(* kernel/power/earlysuspend.c: the user-visible sleep state.              *)
(*                                                                         *)
(* A write to /sys/power/state only records the request and queues a work. *)
(* early_suspend calls the suspend hooks of the registered handlers in     *)
(* level order and then releases main_wake_lock; late_resume calls the     *)
(* resume hooks in the opposite order.  Both run on suspend_work_queue.    *)
(* state is written under the spinlock state_lock, the handler list and    *)
(* the SUSPENDED bit also under the mutex early_suspend_lock.              *)
(***************************************************************************)
EXTENDS Suspend

CONSTANTS
    Sync,       \* sync_wake_lock
    Handlers,   \* every struct early_suspend of the system
    Level       \* the level of each handler

ASSUME SyncAssumption == Sync \in Locks \ {Main, Unknown}
ASSUME LevelAssumption == Level \in [Handlers -> Nat]

VARIABLES
    state,        \* the bits SUSPEND_REQUESTED and SUSPENDED
    handlers,     \* early_suspend_handlers, in list order
    calledDown,   \* the registered handlers whose last hook called was suspend
    position,     \* how many handlers the running work has called
    syncPending,  \* sync_system_work is pending on sync_work_queue
    syncing       \* its thread is inside sync_system

earlySuspendVars == <<state, handlers, calledDown, position, syncPending, syncing>>

StateBits == {"SUSPEND_REQUESTED", "SUSPENDED"}

Registered == {handlers[i] : i \in 1 .. Len(handlers)}

EarlySteps == {"early_suspend", "call_suspend", "release", "late_resume", "call_resume"}

(***************************************************************************)
(* early_suspend_lock is held exactly while the hooks are being called.    *)
(***************************************************************************)
early_suspend_lock == worker \in {"call_suspend", "call_resume"}

\* Mutant: the handler is added at the end of the list.
InsertLast(h, i) == i = Len(handlers) + 1

(***************************************************************************)
(* register_early_suspend: in front of the first handler of a higher       *)
(* level; when the handlers have been suspended the hook is called now.    *)
(***************************************************************************)
InsertPoint(h, i) ==
    /\ \A j \in 1 .. i - 1 : Level[handlers[j]] <= Level[h]
    /\ i <= Len(handlers) => Level[handlers[i]] > Level[h]

register_early_suspend(h) ==
    /\ ProcessContext
    /\ ~early_suspend_lock
    /\ h \notin Registered
    /\ \E i \in 1 .. Len(handlers) + 1 :
          /\ InsertPoint(h, i)
          /\ handlers' = SubSeq(handlers, 1, i - 1) \o <<h>>
                            \o SubSeq(handlers, i, Len(handlers))
    /\ calledDown' = IF "SUSPENDED" \in state THEN calledDown \cup {h}
                                              ELSE calledDown
    /\ UNCHANGED <<state, position, syncPending, syncing,
                   lockVars, suspendVars, suspendQueue>>

unregister_early_suspend(h) ==
    /\ ProcessContext
    /\ ~early_suspend_lock
    /\ \E i \in 1 .. Len(handlers) :
          /\ handlers[i] = h
          /\ handlers' = SubSeq(handlers, 1, i - 1)
                            \o SubSeq(handlers, i + 1, Len(handlers))
    /\ calledDown' = calledDown \ {h}
    /\ UNCHANGED <<state, position, syncPending, syncing,
                   lockVars, suspendVars, suspendQueue>>

(***************************************************************************)
(* early_suspend, up to the handlers.                                      *)
(***************************************************************************)
EarlySuspendBegins ==
    /\ WorkerAt("early_suspend")
    /\ state = {"SUSPEND_REQUESTED"}
    /\ state' = StateBits
    /\ position' = 0
    /\ Goto("call_suspend")
    /\ UNCHANGED <<handlers, calledDown, syncPending, syncing,
                   lockVars, suspendQueue>>

\* Mutant: the abort path returns instead of going to the release.
EarlySuspendReturns ==
    /\ WorkerAt("early_suspend")
    /\ state # {"SUSPEND_REQUESTED"}
    /\ Goto("idle")
    /\ UNCHANGED <<earlySuspendVars, lockVars, suspendQueue>>

EarlySuspendAborts ==
    /\ WorkerAt("early_suspend")
    /\ state # {"SUSPEND_REQUESTED"}
    /\ Goto("release")
    /\ UNCHANGED <<earlySuspendVars, lockVars, suspendQueue>>

CallSuspend ==
    /\ WorkerAt("call_suspend")
    /\ position < Len(handlers)
    /\ position' = position + 1
    /\ calledDown' = calledDown \cup {handlers[position + 1]}
    /\ UNCHANGED <<state, handlers, syncPending, syncing,
                   lockVars, suspendVars, suspendQueue>>

(***************************************************************************)
(* The mutex is released and sync_system_work queued.                      *)
(***************************************************************************)
SuspendCalled ==
    /\ WorkerAt("call_suspend")
    /\ position = Len(handlers)
    /\ position' = 0
    /\ syncPending' = TRUE
    /\ Goto("release")
    /\ UNCHANGED <<state, handlers, calledDown, syncing, lockVars, suspendQueue>>

\* Mutant: main_wake_lock is released without a second look at state.
ReleaseMainUnchecked ==
    /\ WorkerAt("release")
    /\ Goto("idle")
    /\ wake_unlock(Main, suspendQueue)
    /\ UNCHANGED earlySuspendVars

(***************************************************************************)
(* The end of early_suspend, under state_lock.                             *)
(***************************************************************************)
ReleaseMain ==
    /\ WorkerAt("release")
    /\ Goto("idle")
    /\ \/ state = StateBits /\ wake_unlock(Main, suspendQueue)
       \/ state # StateBits /\ UNCHANGED <<lockVars, suspendQueue>>
    /\ UNCHANGED earlySuspendVars

\* Mutant: late_resume also aborts when it finds only the SUSPENDED bit.
LateResumeNeverBegins ==
    /\ WorkerAt("late_resume")
    /\ state = {"SUSPENDED"}
    /\ Goto("idle")
    /\ UNCHANGED <<earlySuspendVars, lockVars, suspendQueue>>

LateResumeBegins ==
    /\ WorkerAt("late_resume")
    /\ state = {"SUSPENDED"}
    /\ state' = {}
    /\ position' = 0
    /\ Goto("call_resume")
    /\ UNCHANGED <<handlers, calledDown, syncPending, syncing,
                   lockVars, suspendQueue>>

LateResumeAborts ==
    /\ WorkerAt("late_resume")
    /\ state # {"SUSPENDED"}
    /\ Goto("idle")
    /\ UNCHANGED <<earlySuspendVars, lockVars, suspendQueue>>

CallResume ==
    /\ WorkerAt("call_resume")
    /\ position < Len(handlers)
    /\ position' = position + 1
    /\ calledDown' = calledDown \ {handlers[Len(handlers) - position]}
    /\ UNCHANGED <<state, handlers, syncPending, syncing,
                   lockVars, suspendVars, suspendQueue>>

ResumeCalled ==
    /\ WorkerAt("call_resume")
    /\ position = Len(handlers)
    /\ position' = 0
    /\ Goto("idle")
    /\ UNCHANGED <<state, handlers, calledDown, syncPending, syncing,
                   lockVars, suspendQueue>>

(***************************************************************************)
(* request_suspend_state, one section under state_lock.  A request that    *)
(* does not change SUSPEND_REQUESTED only records the new state.           *)
(***************************************************************************)
request_suspend_state(new) ==
    /\ requested_suspend_state' = new
    /\ \/ /\ new # "on" /\ "SUSPEND_REQUESTED" \notin state
          /\ state' = state \cup {"SUSPEND_REQUESTED"}
          /\ suspendQueue' = queue_work(suspendQueue, "early_suspend")
          /\ UNCHANGED lockVars
       \/ /\ new = "on" /\ "SUSPEND_REQUESTED" \in state
          /\ state' = state \ {"SUSPEND_REQUESTED"}
          /\ wake_lock(Main, queue_work(suspendQueue, "late_resume"))
       \/ /\ (new = "on") <=> ("SUSPEND_REQUESTED" \notin state)
          /\ UNCHANGED <<state, lockVars, suspendQueue>>
    /\ UNCHANGED <<worker, handlers, calledDown, position, syncPending, syncing>>

(***************************************************************************)
(* sync_system, on a thread of its own that the freezer leaves alone.      *)
(***************************************************************************)
SyncBegins ==
    /\ ProcessContext
    /\ syncPending /\ ~syncing
    /\ syncPending' = FALSE
    /\ syncing' = TRUE
    /\ wake_lock(Sync, suspendQueue)
    /\ UNCHANGED <<state, handlers, calledDown, position, suspendVars>>

SyncEnds ==
    /\ ProcessContext
    /\ syncing
    /\ syncing' = FALSE
    /\ wake_unlock(Sync, suspendQueue)
    /\ UNCHANGED <<state, handlers, calledDown, position, syncPending, suspendVars>>

EarlyWork ==
    \/ EarlySuspendBegins \/ EarlySuspendAborts \/ CallSuspend \/ SuspendCalled
    \/ ReleaseMain \/ LateResumeBegins \/ LateResumeAborts \/ CallResume
    \/ ResumeCalled

EarlySuspendInit ==
    /\ state = {}
    /\ handlers = << >>
    /\ calledDown = {}
    /\ position = 0
    /\ syncPending = FALSE
    /\ syncing = FALSE
=============================================================================
