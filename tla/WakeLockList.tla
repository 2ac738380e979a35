---------------------------- MODULE WakeLockList ----------------------------
(***************************************************************************)
(* wakelock.c with the list active_wake_locks[WAKE_LOCK_SUSPEND] as it is: *)
(* a lock without a deadline is added at the head, one with a deadline at  *)
(* the tail, and has_wake_lock_locked walks from the head, expiring what   *)
(* is due, and returns at the first lock without a deadline.               *)
(*                                                                         *)
(* Module WakeLock has a set in place of the list; this module implements  *)
(* it.                                                                     *)
(***************************************************************************)
EXTENDS Integers, SequencesExt

CONSTANTS Locks, Main, Unknown, MaxTimeout

ASSUME LocksAssumption == Main \in Locks /\ Unknown \in Locks /\ Main # Unknown
ASSUME TimeoutAssumption == MaxTimeout \in Nat \ {0}

VARIABLES
    initialized, autoExpire, preventing, left, expire_timer, expiring, newEvent,
    suspendQueue,
    list            \* active_wake_locks[WAKE_LOCK_SUSPEND], head first

vars == <<initialized, autoExpire, preventing, left, expire_timer, expiring,
          newEvent, suspendQueue, list>>

Off == -1

queue_work(q, w) == IF Contains(q, w) THEN q ELSE Append(q, w)

\* list_del, if the lock is linked.
Unlink(q, l) ==
    IF Contains(q, l) THEN RemoveAt(q, CHOOSE i \in 1 .. Len(q) : q[i] = l) ELSE q

\* Mutant: the walk remembers the last deadline instead of the latest.
WalkStepLast(A, L, found, l) ==
    IF found.ret = -1 THEN found
    ELSE IF l \notin A THEN [found EXCEPT !.ret = -1]
    ELSE IF L[l] = 0 THEN [found EXCEPT !.kept = Unlink(@, l), !.expired = @ \cup {l}]
    ELSE [found EXCEPT !.ret = L[l]]

(***************************************************************************)
(* The walk over list q: the value it returns, the locks it expires, and   *)
(* what is left of the list.                                               *)
(***************************************************************************)
WalkStep(A, L, found, l) ==
    IF found.ret = -1 THEN found
    ELSE IF l \notin A THEN [found EXCEPT !.ret = -1]
    ELSE IF L[l] = 0 THEN [found EXCEPT !.kept = Unlink(@, l), !.expired = @ \cup {l}]
    ELSE [found EXCEPT !.ret = IF L[l] > @ THEN L[l] ELSE @]

WalkBegins(q) == [ret |-> 0, expired |-> {}, kept |-> q]

Walk(q, A, L) ==
    LET walk[i \in 0 .. Len(q)] ==
          IF i = 0 THEN WalkBegins(q) ELSE WalkStep(A, L, walk[i - 1], q[i])
    IN  walk

has_wake_lock_locked(q, A, L) == Walk(q, A, L)[Len(q)]

\* Mutant: the timer is left armed when a lock without a deadline is taken.
TimerAndQueueKeepsTimer(has) ==
    /\ expire_timer' = IF has > 0 THEN has ELSE expire_timer
    /\ suspendQueue' = IF has = 0 THEN queue_work(suspendQueue, "suspend")
                                  ELSE suspendQueue

(***************************************************************************)
(* The common tail of wake_lock_internal and wake_unlock, for the result   *)
(* has of the walk.                                                        *)
(***************************************************************************)
TimerAndQueue(has) ==
    /\ expire_timer' = IF has > 0 THEN has ELSE Off
    /\ suspendQueue' = IF has = 0 THEN queue_work(suspendQueue, "suspend")
                                  ELSE suspendQueue

update_sleep_wait_stats_locked(P, q, A, L, done) ==
    {l \in P : ~Contains(q, l)} \cup
    {l \in ToSet(q) : ~done /\ ~(l \in A /\ L[l] = 0)}

wake_lock_init(l) ==
    /\ l \notin initialized
    /\ initialized' = initialized \cup {l}
    /\ UNCHANGED <<autoExpire, preventing, left, expire_timer, expiring,
                   newEvent, suspendQueue, list>>

wake_lock_destroy(l) ==
    /\ l \in initialized
    /\ initialized' = initialized \ {l}
    /\ list' = Unlink(list, l)
    /\ autoExpire' = autoExpire \ {l}
    /\ preventing' = preventing \ {l}
    /\ left' = [left EXCEPT ![l] = 0]
    /\ UNCHANGED <<expire_timer, expiring, newEvent, suspendQueue>>

(***************************************************************************)
(* list_add and list_add_tail.                                             *)
(***************************************************************************)
Relink(l, has_timeout) ==
    IF has_timeout THEN Append(Unlink(list, l), l) ELSE <<l>> \o Unlink(list, l)

wake_lock_internal(l, timeout, has_timeout) ==
    LET q == Relink(l, has_timeout)
        A == IF has_timeout THEN autoExpire \cup {l} ELSE autoExpire \ {l}
        L == [left EXCEPT ![l] = IF has_timeout THEN timeout ELSE 0]
        P == IF l \in autoExpire /\ left[l] = 0 THEN preventing \ {l} ELSE preventing
        stats == IF l = Main
                 THEN update_sleep_wait_stats_locked(P, q, A, L, TRUE)
                 ELSE IF ~Contains(q, Main)
                 THEN update_sleep_wait_stats_locked(P, q, A, L, FALSE)
                 ELSE P
        walk == IF has_timeout THEN has_wake_lock_locked(q, A, L)
                               ELSE [ret |-> -1, expired |-> {}, kept |-> q]
    IN  /\ l \in initialized
        /\ newEvent' = TRUE
        /\ list' = walk.kept
        /\ autoExpire' = A \ walk.expired
        /\ preventing' = stats \ walk.expired
        /\ left' = L
        /\ TimerAndQueue(walk.ret)
        /\ UNCHANGED <<initialized, expiring>>

wake_unlock(l) ==
    LET q == Unlink(list, l)
        A == autoExpire \ {l}
        L == [left EXCEPT ![l] = 0]
        walk == has_wake_lock_locked(q, A, L)
        P == (preventing \ {l}) \ walk.expired
    IN  /\ l \in initialized
        /\ list' = walk.kept
        /\ autoExpire' = A \ walk.expired
        /\ left' = L
        /\ preventing' = IF l = Main
              THEN update_sleep_wait_stats_locked(P, list', autoExpire', L, FALSE)
              ELSE P
        /\ TimerAndQueue(walk.ret)
        /\ UNCHANGED <<initialized, expiring, newEvent>>

(***************************************************************************)
(* has_wake_lock, by suspend() or by the freezer.                          *)
(***************************************************************************)
HasWakeLockCalled(q) ==
    LET walk == has_wake_lock_locked(list, autoExpire, left)
    IN  /\ list' = walk.kept
        /\ autoExpire' = autoExpire \ walk.expired
        /\ preventing' = preventing \ walk.expired
        /\ suspendQueue' = q
        /\ UNCHANGED <<initialized, left, expire_timer, expiring, newEvent>>

SuspendWorkRuns ==
    /\ suspendQueue # << >>
    /\ HasWakeLockCalled(Tail(suspendQueue))

TimerFires ==
    /\ expire_timer = 0
    /\ ~expiring
    /\ expire_timer' = Off
    /\ expiring' = TRUE
    /\ UNCHANGED <<initialized, autoExpire, preventing, left, newEvent,
                   suspendQueue, list>>

expire_wake_locks ==
    LET walk == has_wake_lock_locked(list, autoExpire, left)
    IN  /\ expiring
        /\ expiring' = FALSE
        /\ list' = walk.kept
        /\ autoExpire' = autoExpire \ walk.expired
        /\ preventing' = preventing \ walk.expired
        /\ suspendQueue' = IF walk.ret = 0 THEN queue_work(suspendQueue, "suspend")
                                           ELSE suspendQueue
        /\ UNCHANGED <<initialized, left, expire_timer, newEvent>>

Elapse(n) == IF n > 0 THEN n - 1 ELSE n

Tick ==
    /\ expire_timer > 0 \/ \E l \in Locks : left[l] > 0
    /\ left' = [l \in Locks |-> Elapse(left[l])]
    /\ expire_timer' = Elapse(expire_timer)
    /\ UNCHANGED <<initialized, autoExpire, preventing, expiring, newEvent,
                   suspendQueue, list>>

Init ==
    /\ initialized = {Main, Unknown}
    /\ list = <<Main>>
    /\ autoExpire = {}
    /\ preventing = {}
    /\ left = [l \in Locks |-> 0]
    /\ expire_timer = Off
    /\ expiring = FALSE
    /\ newEvent = FALSE
    /\ suspendQueue = << >>

Next ==
    \/ \E l \in Locks :
          \/ wake_lock_init(l)
          \/ wake_lock_destroy(l)
          \/ wake_lock_internal(l, 0, FALSE)
          \/ \E timeout \in 0 .. MaxTimeout : wake_lock_internal(l, timeout, TRUE)
          \/ wake_unlock(l)
    \/ TimerFires
    \/ expire_wake_locks
    \/ HasWakeLockCalled(suspendQueue)
    \/ SuspendWorkRuns
    \/ Tick

Spec == Init /\ [][Next]_vars

-----------------------------------------------------------------------------
(***************************************************************************)
(* wakelock.h says of has_wake_lock: "it returns -1 if one or more wake    *)
(* locks with no timeout are active or the number of jiffies until all     *)
(* active wake locks time out", which the walk computes from the list.     *)
(***************************************************************************)
ReturnsTimeUntilAllExpired ==
    LET ret == has_wake_lock_locked(list, autoExpire, left).ret
        held == ToSet(list)
    IN  IF held \subseteq autoExpire
        THEN ret = Max({0} \cup {left[l] : l \in held})
        ELSE ret = -1

Sets == INSTANCE WakeLock WITH active <- ToSet(list)

(***************************************************************************)
(* The operations on the list are the operations on the set of module      *)
(* WakeLock.                                                               *)
(***************************************************************************)
ImplementsSets == Sets!WakeLockSpec
=============================================================================
