----------------------------- MODULE WakeLock -----------------------------
(***************************************************************************)
(* The wake locks of kernel/power/wakelock.c, type WAKE_LOCK_SUSPEND.      *)
(*                                                                         *)
(* A wake lock is inactive, held until released, or held until a deadline. *)
(* One kernel timer (expire_timer) is kept armed for the latest deadline;  *)
(* whoever finds that no lock is left queues suspend_work.  Every operation*)
(* runs under the irq-safe spinlock list_lock, and the kernel of this      *)
(* device is built for one CPU, so an operation is one atomic action.      *)
(*                                                                         *)
(* Deadlines are relative: left[l] is lock->expires - jiffies, kept at 0   *)
(* once it has passed.  The active list is abstracted to a set here;       *)
(* WakeLockList models the list itself and is shown to implement this      *)
(* module.                                                                 *)
(***************************************************************************)
EXTENDS Integers, Sequences

CONSTANTS
    Locks,        \* every struct wake_lock of the system
    Main,         \* main_wake_lock: held while the user wants the screen on
    Unknown,      \* unknown_wakeup: held for a while after an eventless resume
    MaxTimeout    \* bound: the longest timeout a caller asks for, in jiffies

ASSUME LocksAssumption == Main \in Locks /\ Unknown \in Locks /\ Main # Unknown
ASSUME TimeoutAssumption == MaxTimeout \in Nat \ {0}

VARIABLES
    initialized,  \* WAKE_LOCK_INITIALIZED
    active,       \* WAKE_LOCK_ACTIVE: the members of active_wake_locks[SUSPEND]
    autoExpire,   \* WAKE_LOCK_AUTO_EXPIRE
    preventing,   \* WAKE_LOCK_PREVENTING_SUSPEND
    left,         \* jiffies until expires; 0 when due or without a deadline
    expire_timer, \* jiffies until the timer is due, or Off
    expiring,     \* the timer was dequeued, expire_wake_locks is about to run
    newEvent,     \* current_event_num # entry_event_num
    suspendQueue  \* the pending works of suspend_work_queue, oldest first

lockVars == <<initialized, active, autoExpire, preventing, left,
              expire_timer, expiring, newEvent>>

Off == -1
Timeouts == 0 .. MaxTimeout
Works == {"suspend", "early_suspend", "late_resume"}

(***************************************************************************)
(* queue_work: a work already pending is not queued twice.                 *)
(***************************************************************************)
Pending(q, w) == \E i \in 1 .. Len(q) : q[i] = w

queue_work(q, w) == IF Pending(q, w) THEN q ELSE Append(q, w)

(***************************************************************************)
(* has_wake_lock_locked walks the list, which has the locks without a      *)
(* deadline in front: it returns -1 at the first of them, and otherwise    *)
(* expires every lock whose deadline has passed.  Expired is what the walk *)
(* deactivates when the active locks are S, of which A have a deadline.    *)
(***************************************************************************)
Expired(S, A, L) == IF S \subseteq A THEN {l \in S : L[l] = 0} ELSE {}

(***************************************************************************)
(* What the callers do with the result of that walk: arm the timer for the *)
(* latest deadline (> 0), or stop it, and when nothing is held (== 0)      *)
(* queue the suspend work on q.                                            *)
(***************************************************************************)
\* Mutant: the timer is armed for the earliest deadline.
ArmTimerEarliest ==
    /\ active' # {} /\ active' \subseteq autoExpire'
    /\ \E l \in active' :
          /\ \A k \in active' : left'[k] >= left'[l]
          /\ expire_timer' = left'[l]

ArmTimer ==
    /\ active' # {} /\ active' \subseteq autoExpire'
    /\ \E l \in active' :
          /\ \A k \in active' : left'[k] <= left'[l]
          /\ expire_timer' = left'[l]

StopTimer ==
    /\ ~(active' # {} /\ active' \subseteq autoExpire')
    /\ expire_timer' = Off

QueueIfNoneHeld(q) ==
    suspendQueue' = IF active' = {} THEN queue_work(q, "suspend") ELSE q

Reevaluate(S, A, L, q) ==
    /\ active' = S \ Expired(S, A, L)
    /\ autoExpire' = A \ Expired(S, A, L)
    /\ left' = L
    /\ ArmTimer \/ StopTimer
    /\ QueueIfNoneHeld(q)

(***************************************************************************)
(* update_sleep_wait_stats_locked(0): every active lock that has not       *)
(* expired is now what keeps the device awake.                             *)
(***************************************************************************)
\* Mutant: only the locks with a deadline are charged.
update_sleep_wait_stats_timed(P, S, A, L) ==
    (P \ S) \cup {l \in S : l \in A /\ L[l] > 0}

update_sleep_wait_stats(P, S, A, L) ==
    (P \ S) \cup {l \in S : l \notin A \/ L[l] > 0}

wake_lock_init(l) ==
    /\ l \notin initialized
    /\ initialized' = initialized \cup {l}
    /\ UNCHANGED <<active, autoExpire, preventing, left, expire_timer,
                   expiring, newEvent, suspendQueue>>

(***************************************************************************)
(* wake_lock_destroy unlinks the lock and looks at nothing else: neither   *)
(* the timer nor the suspend work follow.  evdev_release destroys locks    *)
(* that have a deadline; a driver that destroys one it holds without a     *)
(* deadline (s5pc110_battery.c:1792) leaves the other locks without timer. *)
(***************************************************************************)
wake_lock_destroy(l) ==
    /\ l \in initialized
    /\ initialized' = initialized \ {l}
    /\ active' = active \ {l}
    /\ autoExpire' = autoExpire \ {l}
    /\ preventing' = preventing \ {l}
    /\ left' = [left EXCEPT ![l] = 0]
    /\ UNCHANGED <<expire_timer, expiring, newEvent, suspendQueue>>

(***************************************************************************)
(* wake_lock_internal.  q is suspend_work_queue as the caller's own        *)
(* queue_work calls leave it.                                              *)
(***************************************************************************)
wake_lock_internal(l, timeout, has_timeout, q) ==
    LET S == active \cup {l}
        A == IF has_timeout THEN autoExpire \cup {l} ELSE autoExpire \ {l}
        L == [left EXCEPT ![l] = IF has_timeout THEN timeout ELSE 0]
        P == IF l \in autoExpire /\ left[l] = 0 THEN preventing \ {l}
                                                ELSE preventing
        stats == IF l = Main THEN P \ S
                 ELSE IF Main \in S THEN P
                 ELSE update_sleep_wait_stats(P, S, A, L)
    IN  /\ newEvent' = TRUE
        /\ preventing' = stats \ Expired(S, A, L)
        /\ Reevaluate(S, A, L, q)
        /\ UNCHANGED expiring

(***************************************************************************)
(* BUG_ON(!(lock->flags & WAKE_LOCK_INITIALIZED)): taking a lock that was  *)
(* not initialised stops the kernel, no caller does.                       *)
(***************************************************************************)
wake_lock(l, q) ==
    /\ l \in initialized
    /\ wake_lock_internal(l, 0, FALSE, q)
    /\ UNCHANGED initialized

wake_lock_timeout(l, timeout, q) ==
    /\ l \in initialized
    /\ wake_lock_internal(l, timeout, TRUE, q)
    /\ UNCHANGED initialized

\* Mutant: the AUTO_EXPIRE flag survives the release.
wake_unlock_keeps_flag(l, q) ==
    LET S == active \ {l}
        L == [left EXCEPT ![l] = 0]
        P == (preventing \ {l}) \ Expired(S, autoExpire, L)
    IN  /\ l \in initialized
        /\ Reevaluate(S, autoExpire, L, q)
        /\ preventing' = P
        /\ UNCHANGED <<initialized, expiring, newEvent>>

(***************************************************************************)
(* wake_unlock.  Releasing an inactive lock is legal and re-evaluates too. *)
(***************************************************************************)
wake_unlock(l, q) ==
    LET S == active \ {l}
        A == autoExpire \ {l}
        L == [left EXCEPT ![l] = 0]
        P == (preventing \ {l}) \ Expired(S, A, L)
    IN  /\ l \in initialized
        /\ Reevaluate(S, A, L, q)
        /\ preventing' = IF l = Main
                         THEN update_sleep_wait_stats(P, active', autoExpire', left')
                         ELSE P
        /\ UNCHANGED <<initialized, expiring, newEvent>>

(***************************************************************************)
(* has_wake_lock: the answer, and the walk's effect on the locks.          *)
(***************************************************************************)
HasWakeLock == active \ Expired(active, autoExpire, left) # {}

has_wake_lock ==
    LET X == Expired(active, autoExpire, left)
    IN  /\ active' = active \ X
        /\ autoExpire' = autoExpire \ X
        /\ preventing' = preventing \ X
        /\ UNCHANGED <<initialized, left, expire_timer, expiring>>

(***************************************************************************)
(* The timer softirq takes the due timer off the wheel, and calls          *)
(* expire_wake_locks; an interrupt may take or release locks in between.   *)
(***************************************************************************)
TimerFires ==
    /\ expire_timer = 0
    /\ ~expiring
    /\ expire_timer' = Off
    /\ expiring' = TRUE
    /\ UNCHANGED <<initialized, active, autoExpire, preventing, left,
                   newEvent, suspendQueue>>

expire_wake_locks ==
    LET X == Expired(active, autoExpire, left)
    IN  /\ expiring
        /\ expiring' = FALSE
        /\ active' = active \ X
        /\ autoExpire' = autoExpire \ X
        /\ preventing' = preventing \ X
        /\ QueueIfNoneHeld(suspendQueue)
        /\ UNCHANGED <<initialized, left, expire_timer, newEvent>>

(***************************************************************************)
(* One jiffy passes.                                                       *)
(***************************************************************************)
Elapse(n) == IF n > 0 THEN n - 1 ELSE n

Tick ==
    /\ expire_timer > 0 \/ \E l \in Locks : left[l] > 0
    /\ left' = [l \in Locks |-> Elapse(left[l])]
    /\ expire_timer' = Elapse(expire_timer)
    /\ UNCHANGED <<initialized, active, autoExpire, preventing, expiring,
                   newEvent, suspendQueue>>

(***************************************************************************)
(* wakelocks_init: main, unknown_wakeup and sync_wake_lock are initialised *)
(* (Builtin), main is taken.                                               *)
(***************************************************************************)
WakeLockInit(Builtin) ==
    /\ initialized = Builtin
    /\ active = {Main}
    /\ autoExpire = {}
    /\ preventing = {}
    /\ left = [l \in Locks |-> 0]
    /\ expire_timer = Off
    /\ expiring = FALSE
    /\ newEvent = FALSE
    /\ suspendQueue = << >>

(***************************************************************************)
(* The wake locks on their own: any caller, at any time, and a thread that *)
(* takes suspend works off the queue.                                      *)
(***************************************************************************)
SuspendWorkRuns ==
    /\ suspendQueue # << >>
    /\ suspendQueue' = Tail(suspendQueue)
    /\ has_wake_lock
    /\ UNCHANGED newEvent

HasWakeLockCalled ==
    /\ has_wake_lock
    /\ UNCHANGED <<newEvent, suspendQueue>>

WakeLockNext ==
    \/ \E l \in Locks :
          \/ wake_lock_init(l)
          \/ wake_lock_destroy(l)
          \/ wake_lock(l, suspendQueue)
          \/ \E timeout \in Timeouts : wake_lock_timeout(l, timeout, suspendQueue)
          \/ wake_unlock(l, suspendQueue)
    \/ TimerFires
    \/ expire_wake_locks
    \/ HasWakeLockCalled
    \/ SuspendWorkRuns
    \/ Tick

WakeLockSpec ==
    WakeLockInit({Main, Unknown}) /\ [][WakeLockNext]_<<lockVars, suspendQueue>>

WakeLockTypeOK ==
    /\ initialized \subseteq Locks
    /\ active \subseteq initialized
    /\ autoExpire \subseteq active
    /\ preventing \subseteq active
    /\ left \in [Locks -> Timeouts]
    /\ expire_timer \in {Off} \cup Timeouts
    /\ expiring \in BOOLEAN
    /\ newEvent \in BOOLEAN
    /\ suspendQueue \in Seq(Works)

(***************************************************************************)
(* The locks without a deadline.                                           *)
(***************************************************************************)
Permanent == active \ autoExpire

(***************************************************************************)
(* The timer and the locks agree.  While a lock without a deadline is held *)
(* the timer is stopped (lines 452-464 and 497-509 of wakelock.c).         *)
(* Otherwise the timer never fires before the last deadline, and a lock    *)
(* with a deadline is never left without a timer, or the expiry handler    *)
(* already on its way, to end it.                                          *)
(***************************************************************************)
TimerCoversLocks ==
    /\ Permanent # {} => expire_timer = Off
    /\ (Permanent = {} /\ expire_timer # Off) =>
          \A l \in active : left[l] <= expire_timer
    /\ (Permanent = {} /\ expire_timer = Off) =>
          \/ active = {}
          \/ expiring /\ \A l \in active : left[l] = 0

(***************************************************************************)
(* The time a lock keeps the device awake is charged to the locks that do: *)
(* to none while main_wake_lock is held, and otherwise to every active     *)
(* lock whose deadline has not passed (update_sleep_wait_stats_locked and  *)
(* its three callers).  A lock that is due but not yet expired may still   *)
(* be charged; its expiry stops that.                                      *)
(***************************************************************************)
SleepTimeCharged ==
    /\ Main \in active => preventing = {}
    /\ Main \notin active =>
          {l \in active : l \notin autoExpire \/ left[l] > 0} \subseteq preventing
=============================================================================
