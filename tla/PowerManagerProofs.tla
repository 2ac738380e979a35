------------------------- MODULE PowerManagerProofs -------------------------
(***************************************************************************)
(* Theorems about the power manager, for any number of locks, handlers and *)
(* levels and any timeouts: first what every operation on the wake locks   *)
(* preserves, then what the suspend path does (CoreInv), then the early    *)
(* suspend handlers and the properties that rest on both.  At the end, two *)
(* of these handlers: the drawing handshake of FbEarlySuspend.             *)
(***************************************************************************)
EXTENDS PowerManager, FbEarlySuspend, SequenceTheorems, TLAPS

(***************************************************************************)
(* The inductive invariant of the wake locks: types, timer and charging,   *)
(* which rest on main_wake_lock being taken without a timeout only.        *)
(***************************************************************************)
MainHasNoDeadline == Main \notin autoExpire

LockInv ==
    WakeLockTypeOK /\ TimerCoversLocks /\ SleepTimeCharged /\ MainHasNoDeadline

(***************************************************************************)
(* Something outside a running suspend() leads to the next attempt.        *)
(***************************************************************************)
Awaited ==
    \/ Permanent # {}
    \/ expire_timer # Off
    \/ expiring
    \/ Pending(suspendQueue, "suspend")

(***************************************************************************)
(* queue_work keeps the queue well formed, keeps what was pending and      *)
(* makes the work pending.                                                 *)
(***************************************************************************)
LEMMA QueueWork ==
    ASSUME NEW q \in Seq(Works), NEW w \in Works
    PROVE  /\ queue_work(q, w) \in Seq(Works)
           /\ Pending(queue_work(q, w), w)
           /\ \A v \in Works : Pending(q, v) => Pending(queue_work(q, w), v)
<1>1. CASE Pending(q, w)
  BY <1>1 DEF queue_work
<1>2. CASE ~Pending(q, w)
  <2>1. queue_work(q, w) = Append(q, w)
    BY <1>2 DEF queue_work
  <2>2. /\ Append(q, w) \in Seq(Works)
        /\ Len(Append(q, w)) = Len(q) + 1
        /\ Append(q, w)[Len(q) + 1] = w
        /\ \A i \in 1 .. Len(q) : Append(q, w)[i] = q[i]
    OBVIOUS
  <2>3. Len(q) \in Nat
    OBVIOUS
  <2>4. Pending(Append(q, w), w)
    BY <2>2, <2>3 DEF Pending
  <2>5. \A v \in Works : Pending(q, v) => Pending(Append(q, w), v)
    BY <2>2, <2>3 DEF Pending
  <2> QED BY <2>1, <2>2, <2>4, <2>5
<1> QED BY <1>1, <1>2

(***************************************************************************)
(* The re-evaluation that ends wake_lock_internal and wake_unlock: for     *)
(* active locks S, those with a deadline A and deadlines L, the timer      *)
(* covers the locks that stay, the locks that leave had expired, and the   *)
(* next suspend attempt is provided for.                                   *)
(***************************************************************************)
LEMMA ReevaluateCorrect ==
    ASSUME NEW S, NEW A, A \subseteq S, S \subseteq Locks,
           NEW L \in [Locks -> Timeouts], NEW q \in Seq(Works),
           Reevaluate(S, A, L, q)
    PROVE  /\ active' \subseteq S /\ autoExpire' \subseteq active'
           /\ left' = L
           /\ \A l \in S \ active' : l \in A /\ L[l] = 0
           /\ active' = S \ Expired(S, A, L)
           /\ \A l \in active' : l \in autoExpire' <=> l \in A
           /\ expire_timer' \in {Off} \cup Timeouts
           /\ suspendQueue' \in Seq(Works)
           /\ TimerCoversLocks'
           /\ \/ Permanent' # {} \/ expire_timer' # Off
              \/ Pending(suspendQueue', "suspend")
           /\ \A v \in Works : Pending(q, v) => Pending(suspendQueue', v)
<1> DEFINE X == Expired(S, A, L)
<1>1. /\ active' = S \ X /\ autoExpire' = A \ X /\ left' = L
      /\ ArmTimer \/ StopTimer
      /\ QueueIfNoneHeld(q)
  BY DEF Reevaluate
<1>2. X \subseteq A /\ \A l \in X : L[l] = 0
  BY DEF Expired
<1>3. suspendQueue' \in Seq(Works)
      /\ (active' = {} => Pending(suspendQueue', "suspend"))
      /\ \A v \in Works : Pending(q, v) => Pending(suspendQueue', v)
  <2>1. CASE active' = {}
    BY <2>1, <1>1, QueueWork DEF QueueIfNoneHeld, Works
  <2>2. CASE active' # {}
    BY <2>2, <1>1 DEF QueueIfNoneHeld
  <2> QED BY <2>1, <2>2
<1>4. Permanent' = active' \ autoExpire'
  BY DEF Permanent
<1>5. CASE ArmTimer
  <2>1. PICK l \in active' :
          /\ \A k \in active' : left'[k] <= left'[l]
          /\ expire_timer' = left'[l]
    BY <1>5 DEF ArmTimer
  <2>2. active' # {} /\ active' \subseteq autoExpire'
    BY <1>5 DEF ArmTimer
  <2>3. expire_timer' \in Timeouts /\ expire_timer' # Off
    BY <2>1, <1>1, TimeoutAssumption DEF Timeouts, Off
  <2>4. TimerCoversLocks'
    BY <2>1, <2>2, <2>3, <1>4 DEF TimerCoversLocks
  <2> QED BY <1>1, <1>2, <1>3, <2>3, <2>4
<1>6. CASE StopTimer
  <2>1. expire_timer' = Off /\ ~(active' # {} /\ active' \subseteq autoExpire')
    BY <1>6 DEF StopTimer
  <2>2. active' = {} \/ Permanent' # {}
    BY <2>1, <1>4
  <2>3. TimerCoversLocks'
    BY <2>1, <2>2, <1>4 DEF TimerCoversLocks
  <2> QED BY <1>1, <1>2, <1>3, <2>1, <2>2, <2>3
<1> QED BY <1>1, <1>5, <1>6

(***************************************************************************)
(* Taking a lock, with or without a timeout.  The caller may initialise    *)
(* the lock in the same step, as wake_lock_store does.                     *)
(***************************************************************************)
LEMMA LockInternalKeepsInv ==
    ASSUME LockInv, NEW l \in Locks, NEW timeout \in Timeouts,
           NEW has_timeout \in BOOLEAN, NEW q \in Seq(Works),
           l = Main => ~has_timeout,
           wake_lock_internal(l, timeout, has_timeout, q),
           initialized' = initialized \cup {l}
    PROVE  /\ LockInv' /\ Awaited'
           /\ active' \subseteq active \cup {l}
           /\ Permanent \ {l} \subseteq Permanent'
           /\ ~has_timeout => l \in Permanent'
<1> DEFINE S == active \cup {l}
           A == IF has_timeout THEN autoExpire \cup {l} ELSE autoExpire \ {l}
           L == [left EXCEPT ![l] = IF has_timeout THEN timeout ELSE 0]
           P == IF l \in autoExpire /\ left[l] = 0 THEN preventing \ {l}
                                                   ELSE preventing
           stats == IF l = Main THEN P \ S
                    ELSE IF Main \in S THEN P
                    ELSE update_sleep_wait_stats(P, S, A, L)
<1>1. /\ newEvent' = TRUE
      /\ preventing' = stats \ Expired(S, A, L)
      /\ Reevaluate(S, A, L, q)
      /\ expiring' = expiring
  BY DEF wake_lock_internal
<1>2. /\ initialized \subseteq Locks /\ active \subseteq initialized
      /\ autoExpire \subseteq active /\ preventing \subseteq active
      /\ left \in [Locks -> Timeouts] /\ expiring \in BOOLEAN
  BY DEF LockInv, WakeLockTypeOK
<1>3. A \subseteq S /\ S \subseteq Locks /\ L \in [Locks -> Timeouts]
  BY <1>2, TimeoutAssumption DEF Timeouts
<1> HIDE DEF S, A, L
<1>4. /\ active' \subseteq S /\ autoExpire' \subseteq active'
      /\ left' = L
      /\ active' = S \ Expired(S, A, L)
      /\ \A k \in active' : k \in autoExpire' <=> k \in A
      /\ expire_timer' \in {Off} \cup Timeouts
      /\ suspendQueue' \in Seq(Works)
      /\ TimerCoversLocks'
      /\ \/ Permanent' # {} \/ expire_timer' # Off
         \/ Pending(suspendQueue', "suspend")
  BY <1>1, <1>3, ReevaluateCorrect
<1>5. stats \subseteq S
  BY <1>2 DEF S, update_sleep_wait_stats
<1>6. WakeLockTypeOK'
  BY <1>1, <1>2, <1>3, <1>4, <1>5 DEF WakeLockTypeOK, S
<1>7. MainHasNoDeadline'
  BY <1>4 DEF LockInv, MainHasNoDeadline, A
<1>8. Main \in S => active' = S
  BY <1>4 DEF LockInv, MainHasNoDeadline, A, S, Expired
<1>9. SleepTimeCharged'
  <2>1. CASE Main \in S
    <3>1. stats = {}
      BY <2>1, <1>2 DEF S, LockInv, SleepTimeCharged
    <3> QED BY <2>1, <3>1, <1>1, <1>8 DEF SleepTimeCharged
  <2>2. CASE Main \notin S
    <3>1. stats = (P \ S) \cup {k \in S : k \notin A \/ L[k] > 0}
      BY <2>2 DEF S, update_sleep_wait_stats
    <3>2. Main \notin active'
      BY <2>2, <1>4
    <3>3. ASSUME NEW k \in active', k \notin autoExpire' \/ left'[k] > 0
          PROVE  k \in preventing'
      BY <3>1, <3>3, <1>1, <1>4
    <3> QED BY <3>2, <3>3 DEF SleepTimeCharged
  <2> QED BY <2>1, <2>2
<1> QED
  <2>1. active' \subseteq active \cup {l}
    BY <1>4 DEF S
  <2>2. Permanent \ {l} \subseteq Permanent' /\ (~has_timeout => l \in Permanent')
    BY <1>4 DEF Permanent, S, A, Expired
  <2> QED BY <2>1, <2>2, <1>4, <1>6, <1>7, <1>9 DEF LockInv, Awaited

(***************************************************************************)
(* Releasing a lock.                                                       *)
(***************************************************************************)
LEMMA UnlockKeepsInv ==
    ASSUME LockInv, NEW l \in Locks, NEW q \in Seq(Works), wake_unlock(l, q)
    PROVE  /\ LockInv' /\ Awaited'
           /\ active' \subseteq active \ {l}
           /\ Permanent \ {l} \subseteq Permanent'
<1> DEFINE S == active \ {l}
           A == autoExpire \ {l}
           L == [left EXCEPT ![l] = 0]
           P == (preventing \ {l}) \ Expired(S, A, L)
<1>1. /\ Reevaluate(S, A, L, q)
      /\ preventing' = IF l = Main
                       THEN update_sleep_wait_stats(P, active', autoExpire', left')
                       ELSE P
      /\ initialized' = initialized /\ expiring' = expiring /\ newEvent' = newEvent
  BY DEF wake_unlock
<1>2. /\ initialized \subseteq Locks /\ active \subseteq initialized
      /\ autoExpire \subseteq active /\ preventing \subseteq active
      /\ left \in [Locks -> Timeouts] /\ expiring \in BOOLEAN /\ newEvent \in BOOLEAN
  BY DEF LockInv, WakeLockTypeOK
<1>3. A \subseteq S /\ S \subseteq Locks /\ L \in [Locks -> Timeouts]
  BY <1>2, TimeoutAssumption DEF Timeouts
<1> HIDE DEF S, A, L
<1>4. /\ active' \subseteq S /\ autoExpire' \subseteq active'
      /\ left' = L
      /\ active' = S \ Expired(S, A, L)
      /\ \A k \in active' : k \in autoExpire' <=> k \in A
      /\ expire_timer' \in {Off} \cup Timeouts
      /\ suspendQueue' \in Seq(Works)
      /\ TimerCoversLocks'
      /\ \/ Permanent' # {} \/ expire_timer' # Off
         \/ Pending(suspendQueue', "suspend")
  BY <1>1, <1>3, ReevaluateCorrect
<1>5. P \subseteq active'
  BY <1>2, <1>4 DEF S
<1>6. preventing' \subseteq active'
  BY <1>1, <1>5 DEF update_sleep_wait_stats
<1>7. WakeLockTypeOK'
  BY <1>1, <1>2, <1>3, <1>4, <1>6 DEF WakeLockTypeOK, S
<1>8. MainHasNoDeadline'
  BY <1>4 DEF LockInv, MainHasNoDeadline, A
<1>9. SleepTimeCharged'
  <2>1. CASE l = Main
    <3>1. preventing' = (P \ active') \cup
                           {k \in active' : k \notin autoExpire' \/ left'[k] > 0}
      BY <2>1, <1>1 DEF update_sleep_wait_stats
    <3>2. Main \notin active'
      BY <2>1, <1>4 DEF S
    <3> QED BY <3>1, <3>2 DEF SleepTimeCharged
  <2>2. CASE l # Main /\ Main \in active
    <3>1. preventing' = {}
      BY <2>2, <1>1 DEF LockInv, SleepTimeCharged
    <3>2. Main \in active'
      BY <2>2, <1>4 DEF LockInv, MainHasNoDeadline, A, S, Expired
    <3> QED BY <3>1, <3>2 DEF SleepTimeCharged
  <2>3. CASE l # Main /\ Main \notin active
    <3>1. Main \notin active'
      BY <2>3, <1>4 DEF S
    <3>2. ASSUME NEW k \in active', k \notin autoExpire' \/ left'[k] > 0
          PROVE  k \in preventing'
      <4>1. k \in active /\ k # l /\ k \in Locks
        BY <1>4, <1>2 DEF S
      <4>2. left'[k] = left[k]
        BY <1>4, <1>2, <4>1 DEF L
      <4>3. k \notin autoExpire \/ left[k] > 0
        BY <3>2, <1>4, <4>1, <4>2 DEF A
      <4>4. k \in preventing
        BY <4>1, <4>3, <2>3 DEF LockInv, SleepTimeCharged
      <4> QED BY <4>1, <4>4, <1>1, <1>4, <2>3
    <3> QED BY <3>1, <3>2 DEF SleepTimeCharged
  <2> QED BY <2>1, <2>2, <2>3
<1> QED
  <2>1. active' \subseteq active \ {l}
    BY <1>4 DEF S
  <2>2. Permanent \ {l} \subseteq Permanent'
    BY <1>4 DEF Permanent, S, A, Expired
  <2> QED BY <2>1, <2>2, <1>4, <1>7, <1>8, <1>9 DEF LockInv, Awaited

(***************************************************************************)
(* Initialising and destroying a lock.                                     *)
(***************************************************************************)
LEMMA InitKeepsInv ==
    ASSUME LockInv, NEW l \in Locks, wake_lock_init(l)
    PROVE  LockInv' /\ (Awaited => Awaited')
BY DEF wake_lock_init, LockInv, WakeLockTypeOK, TimerCoversLocks, SleepTimeCharged,
       MainHasNoDeadline, Permanent, Awaited

(***************************************************************************)
(* wake_lock_destroy of a lock that is inactive or has a deadline, which   *)
(* the code does not ask for: the timer may now be armed for longer than   *)
(* needed, never for less.                                                 *)
(***************************************************************************)
LEMMA DestroyKeepsInv ==
    ASSUME LockInv, NEW l \in Locks, wake_lock_destroy(l), l # Main,
           l \notin Permanent
    PROVE  /\ LockInv' /\ (Awaited => Awaited')
           /\ active' \subseteq active /\ Permanent' = Permanent
<1>1. WakeLockTypeOK' /\ MainHasNoDeadline'
  BY TimeoutAssumption
     DEF LockInv, WakeLockTypeOK, MainHasNoDeadline, wake_lock_destroy, Timeouts
<1>2. Permanent' = Permanent
  BY DEF wake_lock_destroy, Permanent
<1>3. \A k \in active' : k \in active /\ left'[k] = left[k]
                           /\ (k \in autoExpire' <=> k \in autoExpire)
  BY DEF LockInv, WakeLockTypeOK, wake_lock_destroy
<1>4. TimerCoversLocks'
  BY <1>2, <1>3 DEF LockInv, TimerCoversLocks, wake_lock_destroy
<1>5. SleepTimeCharged'
  BY <1>3 DEF LockInv, SleepTimeCharged, wake_lock_destroy
<1>6. Awaited => Awaited'
  BY <1>2 DEF Awaited, wake_lock_destroy
<1> QED BY <1>1, <1>2, <1>3, <1>4, <1>5, <1>6 DEF LockInv

(***************************************************************************)
(* The walk of has_wake_lock and of the expiry handler.                    *)
(***************************************************************************)
LEMMA WalkKeepsLocks ==
    ASSUME LockInv, NEW X, X = Expired(active, autoExpire, left),
           active' = active \ X, autoExpire' = autoExpire \ X,
           preventing' = preventing \ X, left' = left, initialized' = initialized
    PROVE  /\ Permanent' = Permanent
           /\ active' # {} /\ Permanent = {} => \E l \in active' : left[l] # 0
           /\ SleepTimeCharged' /\ MainHasNoDeadline'
           /\ active' \subseteq active /\ autoExpire' \subseteq active'
           /\ preventing' \subseteq active'
<1>1. X \subseteq autoExpire /\ \A l \in X : left[l] = 0
  BY DEF Expired
<1>2. Permanent' = Permanent
  BY <1>1 DEF Permanent
<1>3. active' # {} /\ Permanent = {} => \E l \in active' : left[l] # 0
  BY DEF Permanent, Expired
<1>4. Main \in active' <=> Main \in active
  BY <1>1 DEF LockInv, MainHasNoDeadline
<1>5. SleepTimeCharged'
  BY <1>1, <1>4 DEF LockInv, SleepTimeCharged
<1> QED
  BY <1>2, <1>3, <1>5 DEF LockInv, MainHasNoDeadline, WakeLockTypeOK

(***************************************************************************)
(* has_wake_lock: the walk ends only locks that were due, and leaves the   *)
(* timer alone.                                                            *)
(***************************************************************************)
LEMMA HasWakeLockKeepsInv ==
    ASSUME LockInv, has_wake_lock, newEvent' = newEvent, suspendQueue' \in Seq(Works)
    PROVE  /\ LockInv' /\ active' \subseteq active
           /\ Permanent' = Permanent
           /\ expire_timer' = expire_timer /\ expiring' = expiring
           /\ ~HasWakeLock => active' = {}
<1> DEFINE X == Expired(active, autoExpire, left)
<1>1. /\ active' = active \ X /\ autoExpire' = autoExpire \ X
      /\ preventing' = preventing \ X
      /\ left' = left /\ initialized' = initialized
      /\ expire_timer' = expire_timer /\ expiring' = expiring
  BY DEF has_wake_lock
<1> HIDE DEF X
<1>2. /\ Permanent' = Permanent
      /\ SleepTimeCharged' /\ MainHasNoDeadline'
      /\ active' \subseteq active /\ autoExpire' \subseteq active'
      /\ preventing' \subseteq active'
  BY <1>1, WalkKeepsLocks DEF X
<1>3. WakeLockTypeOK'
  BY <1>1, <1>2 DEF LockInv, WakeLockTypeOK
<1>4. TimerCoversLocks'
  BY <1>1, <1>2 DEF LockInv, TimerCoversLocks
<1>5. ~HasWakeLock => active' = {}
  BY <1>1 DEF HasWakeLock, X
<1> QED BY <1>1, <1>2, <1>3, <1>4, <1>5 DEF LockInv

(***************************************************************************)
(* The due timer is taken off the wheel: every lock left is due, and the   *)
(* handler is on its way.                                                  *)
(***************************************************************************)
LEMMA TimerFiresKeepsInv ==
    ASSUME LockInv, TimerFires
    PROVE  LockInv' /\ Awaited'
<1>1. /\ WakeLockTypeOK' /\ SleepTimeCharged' /\ MainHasNoDeadline'
  BY DEF TimerFires, LockInv, WakeLockTypeOK, SleepTimeCharged, MainHasNoDeadline
<1>2. Permanent = {} /\ Permanent' = Permanent
  BY DEF LockInv, TimerCoversLocks, TimerFires, Off, Permanent
<1>3. \A l \in active : left[l] = 0
  BY <1>2 DEF LockInv, TimerCoversLocks, TimerFires, WakeLockTypeOK, Timeouts, Off
<1>4. TimerCoversLocks'
  BY <1>2, <1>3 DEF TimerCoversLocks, TimerFires, Off
<1> QED BY <1>1, <1>4 DEF LockInv, Awaited, TimerFires

(***************************************************************************)
(* expire_wake_locks: whatever happened since the timer fired, either a lock*)
(* that will end is left with its timer, or the suspend work is queued.    *)
(***************************************************************************)
LEMMA ExpireKeepsInv ==
    ASSUME LockInv, expire_wake_locks
    PROVE  /\ LockInv' /\ Awaited' /\ active' \subseteq active
           /\ Permanent' = Permanent
           /\ \A v \in Works : Pending(suspendQueue, v) => Pending(suspendQueue', v)
<1> DEFINE X == Expired(active, autoExpire, left)
<1>1. /\ active' = active \ X /\ autoExpire' = autoExpire \ X
      /\ preventing' = preventing \ X
      /\ left' = left /\ initialized' = initialized /\ newEvent' = newEvent
      /\ expire_timer' = expire_timer /\ expiring' = FALSE
      /\ QueueIfNoneHeld(suspendQueue)
  BY DEF expire_wake_locks
<1> HIDE DEF X
<1>2. /\ Permanent' = Permanent
      /\ active' # {} /\ Permanent = {} => \E l \in active' : left[l] # 0
      /\ SleepTimeCharged' /\ MainHasNoDeadline'
      /\ active' \subseteq active /\ autoExpire' \subseteq active'
      /\ preventing' \subseteq active'
  BY <1>1, WalkKeepsLocks DEF X
<1>3. /\ suspendQueue' \in Seq(Works)
      /\ active' = {} => Pending(suspendQueue', "suspend")
      /\ \A v \in Works : Pending(suspendQueue, v) => Pending(suspendQueue', v)
  <2>1. suspendQueue \in Seq(Works) /\ "suspend" \in Works
    BY DEF LockInv, WakeLockTypeOK, Works
  <2>2. CASE active' = {}
    BY <2>1, <2>2, <1>1, QueueWork DEF QueueIfNoneHeld
  <2>3. CASE active' # {}
    BY <2>1, <2>3, <1>1 DEF QueueIfNoneHeld
  <2> QED BY <2>2, <2>3
<1>4. WakeLockTypeOK'
  BY <1>1, <1>2, <1>3 DEF LockInv, WakeLockTypeOK
<1>5. TimerCoversLocks'
  BY <1>1, <1>2 DEF LockInv, TimerCoversLocks
<1>6. Awaited'
  BY <1>3, <1>5, <1>1 DEF Awaited, TimerCoversLocks
<1> QED BY <1>2, <1>3, <1>4, <1>5, <1>6 DEF LockInv

(***************************************************************************)
(* The passing of time.                                                    *)
(***************************************************************************)
LEMMA TickKeepsInv ==
    ASSUME LockInv, Tick
    PROVE  LockInv' /\ (Awaited => Awaited')
<1>1. /\ left \in [Locks -> Timeouts] /\ expire_timer \in {Off} \cup Timeouts
      /\ active \subseteq Locks
  BY DEF LockInv, WakeLockTypeOK
<1>2. \A n \in {Off} \cup Timeouts : Elapse(n) \in {Off} \cup Timeouts
                                   /\ (n \in Timeouts => Elapse(n) \in Timeouts)
                                   /\ (Elapse(n) = Off <=> n = Off)
  BY TimeoutAssumption DEF Elapse, Timeouts, Off
<1>3. \A l \in Locks : left'[l] = Elapse(left[l]) /\ left'[l] \in Timeouts
                       /\ (left'[l] > 0 => left[l] > 0) /\ (left[l] = 0 => left'[l] = 0)
  <2> SUFFICES ASSUME NEW l \in Locks
               PROVE  left'[l] = Elapse(left[l]) /\ left'[l] \in Timeouts
                       /\ (left'[l] > 0 => left[l] > 0) /\ (left[l] = 0 => left'[l] = 0)
    OBVIOUS
  <2>1. left'[l] = Elapse(left[l]) /\ left[l] \in Timeouts
    BY <1>1 DEF Tick
  <2> QED BY <2>1, <1>2, TimeoutAssumption DEF Elapse, Timeouts
<1>4. /\ expire_timer' = Elapse(expire_timer)
      /\ UNCHANGED <<initialized, active, autoExpire, preventing, expiring,
                     newEvent, suspendQueue>>
  BY DEF Tick
<1>5. WakeLockTypeOK' /\ MainHasNoDeadline'
  <2>1. left' \in [Locks -> Timeouts]
    BY <1>3 DEF Tick
  <2>2. expire_timer' \in {Off} \cup Timeouts
    BY <1>1, <1>2, <1>4
  <2> QED BY <2>1, <2>2, <1>4 DEF LockInv, WakeLockTypeOK, MainHasNoDeadline
<1>6. SleepTimeCharged'
  BY <1>1, <1>3, <1>4 DEF LockInv, SleepTimeCharged
<1>7. TimerCoversLocks'
  <2>1. Permanent' = Permanent
    BY <1>4 DEF Permanent
  <2>2. expire_timer' = Off <=> expire_timer = Off
    BY <1>1, <1>2, <1>4
  <2>3. ASSUME Permanent = {}, expire_timer # Off, NEW l \in active
        PROVE  left'[l] <= expire_timer'
    <3>1. left[l] <= expire_timer /\ left[l] \in Timeouts /\ expire_timer \in Timeouts
      BY <2>3, <1>1 DEF LockInv, TimerCoversLocks
    <3> QED BY <3>1, <1>1, <1>3, <1>4, TimeoutAssumption DEF Elapse, Timeouts
  <2> QED
    BY <2>1, <2>2, <2>3, <1>1, <1>3, <1>4 DEF LockInv, TimerCoversLocks
<1>8. Awaited => Awaited'
  BY <1>1, <1>2, <1>4 DEF Awaited, Permanent
<1> QED BY <1>5, <1>6, <1>7, <1>8 DEF LockInv

-----------------------------------------------------------------------------

(***************************************************************************)
(* Control state, which only the worker and request_suspend_state write.   *)
(***************************************************************************)
ControlTypeOK ==
    /\ worker \in {"idle"} \cup SuspendSteps \cup EarlySteps
    /\ requested_suspend_state \in SuspendStates
    /\ state \subseteq StateBits

(***************************************************************************)
(* A pending request to sleep is the last one user space made.             *)
(***************************************************************************)
RequestRecorded == "SUSPEND_REQUESTED" \in state => requested_suspend_state = "mem"

(***************************************************************************)
(* Past power_suspend_late no lock of user space can become active again:  *)
(* its processes are frozen.                                               *)
(***************************************************************************)
PastLateCheck == {"noirq", "irqs_off", "asleep"}

NoUserLockPastLate ==
    worker \in PastLateCheck => active \cap (UserLocks \cup {Main}) = {}

CoreInv ==
    /\ LockInv
    /\ ControlTypeOK
    /\ SuspendNotLost
    /\ MainHeldUnlessSuspended
    /\ RequestRecorded
    /\ NoUserLockPastLate

(***************************************************************************)
(* SuspendNotLost in terms of the wake locks' own Awaited.                 *)
(***************************************************************************)
LEMMA NotLostAwaited == SuspendNotLost <=> (Awaited \/ (worker \in SuspendSteps /\ AttemptCommitted))
BY DEF SuspendNotLost, Awaited

(***************************************************************************)
(* LockInv does not mention the order of the queue.                        *)
(***************************************************************************)
LEMMA LocksUnchanged ==
    ASSUME LockInv, UNCHANGED lockVars, suspendQueue' \in Seq(Works)
    PROVE  /\ LockInv' /\ Permanent' = Permanent /\ active' = active
           /\ newEvent' = newEvent
           /\ expire_timer' = expire_timer /\ expiring' = expiring
<1>1. UNCHANGED <<initialized, active, autoExpire, preventing, left,
                  expire_timer, expiring, newEvent>>
  BY DEF lockVars
<1> QED
  BY <1>1 DEF LockInv, WakeLockTypeOK, TimerCoversLocks, SleepTimeCharged,
              MainHasNoDeadline, Permanent

(***************************************************************************)
(* A step on one lock other than main_wake_lock, by anyone but the worker. *)
(***************************************************************************)
LEMMA ClientStep ==
    ASSUME CoreInv, NEW l, l # Main, LockInv',
           Awaited' \/ (newEvent' = newEvent /\ (Awaited => Awaited')),
           Permanent \ {l} \subseteq Permanent', active' \subseteq active \cup {l},
           l \in UserLocks => worker \notin Frozen,
           UNCHANGED <<worker, requested_suspend_state, state>>
    PROVE  CoreInv'
<1>1. ControlTypeOK' /\ RequestRecorded'
  BY DEF CoreInv, ControlTypeOK, RequestRecorded
<1>2. SuspendNotLost'
  <2>1. SuspendNotLost
    BY DEF CoreInv
  <2>2. AttemptCommitted /\ newEvent' = newEvent => AttemptCommitted'
    BY DEF AttemptCommitted
  <2>3. Awaited' \/ (worker' \in SuspendSteps /\ AttemptCommitted')
    BY <2>1, <2>2, NotLostAwaited
  <2> QED BY <2>3 DEF SuspendNotLost, Awaited
<1>3. MainHeldUnlessSuspended'
  <2>1. Main \in active => Main \in active'
    BY DEF CoreInv, LockInv, MainHasNoDeadline, Permanent
  <2> QED BY <2>1 DEF CoreInv, MainHeldUnlessSuspended
<1>4. NoUserLockPastLate'
  BY DEF CoreInv, NoUserLockPastLate, PastLateCheck, Frozen
<1> QED BY <1>1, <1>2, <1>3, <1>4 DEF CoreInv

(***************************************************************************)
(* What lookup_wake_lock_name makes of any argument is a timeout.          *)
(***************************************************************************)
LEMMA UserWakeLockTimeouts ==
    ASSUME NEW arg \in TimeoutArgs \cup {NoTimeout}
    PROVE  Deadline(lookup_timeout(arg)) \in Timeouts
<1>1. CASE arg = NoTimeout
  BY <1>1, TimeoutAssumption DEF lookup_timeout, Deadline, Timeouts
<1>2. CASE arg # NoTimeout
  <2>1. arg \in TimeoutArgs /\ lookup_timeout(arg) = NsToJiffies(arg)
    BY <1>2 DEF lookup_timeout
  <2>2. NsToJiffies(arg) <= MaxTimeout
    BY <2>1, TimeoutArgsAssumption
  <2>3. NsToJiffies(arg) \in Int
    <3> DEFINE j == ((arg + NsPerJiffy - 1) % UllSize) \div NsPerJiffy
               n == IF j = 0 THEN 1 ELSE j
    <3>1. arg \in Int /\ NsPerJiffy \in Nat \ {0} /\ UllSize \in Nat \ {0}
          /\ LongSize \in Nat \ {0}
      BY <2>1, WidthAssumption
    <3>2. n \in Int
      BY <3>1
    <3>3. ToLong(n) \in Int
      <4> HIDE DEF n
      <4> QED BY <3>1, <3>2 DEF ToLong
    <3> QED BY <3>3 DEF NsToJiffies
  <2> QED BY <2>1, <2>2, <2>3, TimeoutAssumption DEF Deadline, Timeouts
<1> QED BY <1>1, <1>2

(***************************************************************************)
(* The clients of the wake locks, one lemma per disjunct of Next.          *)
(***************************************************************************)
LEMMA UserStoreCore ==
    ASSUME CoreInv, UserStore PROVE CoreInv'
<1>1. /\ LockInv /\ suspendQueue \in Seq(Works)
      /\ UNCHANGED state
  BY DEF CoreInv, LockInv, WakeLockTypeOK, UserStore, earlySuspendVars
<1>2. PICK l \in UserLocks :
         \/ \E arg \in TimeoutArgs \cup {NoTimeout} : wake_lock_store(l, arg)
         \/ wake_unlock_store(l)
  BY DEF UserStore
<1>3. l \in Locks /\ l # Main
  BY UserLocksAssumption, ClientLocksAssumption
<1>4. ASSUME NEW arg \in TimeoutArgs \cup {NoTimeout}, wake_lock_store(l, arg)
      PROVE  CoreInv'
  <2> DEFINE timeout == lookup_timeout(arg)
  <2>1. /\ UserContext
        /\ initialized' = initialized \cup {l}
        /\ wake_lock_internal(l, Deadline(timeout), timeout # 0, suspendQueue)
        /\ UNCHANGED <<worker, requested_suspend_state>>
    BY <1>4 DEF wake_lock_store, suspendVars
  <2>2. Deadline(timeout) \in Timeouts /\ (timeout # 0) \in BOOLEAN
    BY UserWakeLockTimeouts
  <2> QED
    BY <1>1, <1>3, <2>1, <2>2, LockInternalKeepsInv, ClientStep DEF UserContext
<1>5. ASSUME wake_unlock_store(l)
      PROVE  CoreInv'
  <2>1. UserContext /\ wake_unlock(l, suspendQueue)
        /\ UNCHANGED <<worker, requested_suspend_state>>
    BY <1>5 DEF wake_unlock_store, suspendVars
  <2> QED
    BY <1>1, <1>3, <2>1, UnlockKeepsInv, ClientStep DEF UserContext
<1> QED BY <1>2, <1>4, <1>5

(***************************************************************************)
(* The locks of input device files are only ever taken with a timeout, so  *)
(* that closing a file loses no re-evaluation.                             *)
(***************************************************************************)
EvdevTimed == Permanent \cap EvdevLocks = {}

(***************************************************************************)
(* An input device file is opened, fed, read and closed.                   *)
(***************************************************************************)
LEMMA EvdevCore ==
    ASSUME CoreInv, EvdevTimed, Evdev PROVE CoreInv'
<1>1. /\ LockInv /\ suspendQueue \in Seq(Works)
      /\ UNCHANGED <<worker, requested_suspend_state, state>>
  BY DEF CoreInv, LockInv, WakeLockTypeOK, Evdev, earlySuspendVars, suspendVars
<1>2. PICK l \in EvdevLocks :
         evdev_open(l) \/ evdev_pass_event(l) \/ evdev_fetch_next_event(l)
            \/ evdev_release(l)
  BY DEF Evdev
<1>3. l \in Locks /\ l # Main /\ l \notin UserLocks
  BY ClientLocksAssumption
<1>4. CASE evdev_open(l)
  <2>1. wake_lock_init(l)
    BY <1>4 DEF evdev_open
  <2>2. LockInv' /\ (Awaited => Awaited')
    BY <1>1, <1>3, <2>1, InitKeepsInv
  <2>3. Permanent' = Permanent /\ active' = active /\ newEvent' = newEvent
    BY <2>1 DEF wake_lock_init, Permanent
  <2> QED BY <1>1, <1>3, <2>2, <2>3, ClientStep
<1>5. CASE evdev_pass_event(l)
  <2>1. /\ wake_lock_internal(l, EvdevTimeout, TRUE, suspendQueue)
        /\ initialized' = initialized \cup {l}
    BY <1>5 DEF evdev_pass_event, wake_lock_timeout
  <2>2. EvdevTimeout \in Timeouts
    BY EvdevTimeoutAssumption
  <2> QED BY <1>1, <1>3, <2>1, <2>2, LockInternalKeepsInv, ClientStep
<1>6. CASE evdev_fetch_next_event(l)
  <2>1. wake_unlock(l, suspendQueue)
    BY <1>6 DEF evdev_fetch_next_event
  <2> QED BY <1>1, <1>3, <2>1, UnlockKeepsInv, ClientStep
<1>7. CASE evdev_release(l)
  <2>1. wake_lock_destroy(l)
    BY <1>7 DEF evdev_release
  <2>2. newEvent' = newEvent
    BY <2>1 DEF wake_lock_destroy
  <2>3. l \notin Permanent
    BY <1>2 DEF EvdevTimed
  <2> QED BY <1>1, <1>3, <2>1, <2>2, <2>3, DestroyKeepsInv, ClientStep
<1> QED BY <1>2, <1>4, <1>5, <1>6, <1>7

(***************************************************************************)
(* A driver takes or releases its lock.                                    *)
(***************************************************************************)
LEMMA DriverCore ==
    ASSUME CoreInv, DriverStep PROVE CoreInv'
<1>1. /\ LockInv /\ suspendQueue \in Seq(Works)
      /\ UNCHANGED <<worker, requested_suspend_state, state>>
  BY DEF CoreInv, LockInv, WakeLockTypeOK, DriverStep, earlySuspendVars, suspendVars
<1>2. PICK l \in DriverLocks : wake_lock(l, suspendQueue) \/ wake_unlock(l, suspendQueue)
  BY DEF DriverStep
<1>3. l \in Locks /\ l # Main /\ l \notin UserLocks
  BY ClientLocksAssumption
<1>4. CASE wake_lock(l, suspendQueue)
  <2>1. /\ wake_lock_internal(l, 0, FALSE, suspendQueue)
        /\ initialized' = initialized \cup {l}
    BY <1>4 DEF wake_lock
  <2>2. 0 \in Timeouts
    BY TimeoutAssumption DEF Timeouts
  <2> QED BY <2>2, <1>1, <1>3, <2>1, LockInternalKeepsInv, ClientStep
<1>5. CASE wake_unlock(l, suspendQueue)
  BY <1>1, <1>3, <1>5, UnlockKeepsInv, ClientStep
<1> QED BY <1>2, <1>4, <1>5

(***************************************************************************)
(* sync_system takes and releases sync_wake_lock.                          *)
(***************************************************************************)
LEMMA SyncCore ==
    ASSUME CoreInv, SyncStep PROVE CoreInv'
<1>1. /\ LockInv /\ suspendQueue \in Seq(Works)
      /\ UNCHANGED <<worker, requested_suspend_state, state>>
  BY DEF CoreInv, LockInv, WakeLockTypeOK, SyncStep, SyncBegins, SyncEnds, suspendVars
<1>2. Sync \in Locks /\ Sync # Main /\ Sync \notin UserLocks
  BY SyncAssumption, ClientLocksAssumption
<1>3. CASE SyncBegins
  <2>1. /\ wake_lock_internal(Sync, 0, FALSE, suspendQueue)
        /\ initialized' = initialized \cup {Sync}
    BY <1>3 DEF SyncBegins, wake_lock
  <2>2. 0 \in Timeouts
    BY TimeoutAssumption DEF Timeouts
  <2> QED BY <2>2, <1>1, <1>2, <2>1, LockInternalKeepsInv, ClientStep
<1>4. CASE SyncEnds
  <2>1. wake_unlock(Sync, suspendQueue)
    BY <1>4 DEF SyncEnds
  <2> QED BY <1>1, <1>2, <2>1, UnlockKeepsInv, ClientStep
<1> QED BY <1>3, <1>4 DEF SyncStep

(***************************************************************************)
(* The timer and the clock.                                                *)
(***************************************************************************)
LEMMA TimeCore ==
    ASSUME CoreInv, TimerStep \/ ClockStep PROVE CoreInv'
<1>1. /\ LockInv
      /\ UNCHANGED <<worker, requested_suspend_state, state>>
  BY DEF CoreInv, TimerStep, ClockStep, earlySuspendVars, suspendVars
<1>2. Unknown # Main /\ Unknown \notin UserLocks
  BY LocksAssumption, ClientLocksAssumption
<1>3. CASE TimerFires
  <2>1. LockInv' /\ Awaited'
    BY <1>1, <1>3, TimerFiresKeepsInv
  <2>2. Permanent' = Permanent /\ active' = active
    BY <1>3 DEF TimerFires, Permanent
  <2> QED BY <1>1, <1>2, <2>1, <2>2, ClientStep
<1>4. CASE expire_wake_locks
  BY <1>1, <1>2, <1>4, ExpireKeepsInv, ClientStep
<1>5. CASE Tick
  <2>1. LockInv' /\ (Awaited => Awaited')
    BY <1>1, <1>5, TickKeepsInv
  <2>2. Permanent' = Permanent /\ active' = active /\ newEvent' = newEvent
    BY <1>5 DEF Tick, Permanent
  <2> QED BY <1>1, <1>2, <2>1, <2>2, ClientStep
<1> QED BY <1>3, <1>4, <1>5 DEF TimerStep, ClockStep

(***************************************************************************)
(* request_suspend_state: the only place that takes main_wake_lock.        *)
(***************************************************************************)
LEMMA RequestCore ==
    ASSUME CoreInv, state_store PROVE CoreInv'
<1>1. /\ LockInv /\ suspendQueue \in Seq(Works) /\ ControlTypeOK
      /\ SuspendNotLost /\ MainHeldUnlessSuspended
  BY DEF CoreInv, LockInv, WakeLockTypeOK
<1>2. PICK new \in SuspendStates : request_suspend_state(new)
  BY DEF state_store
<1>3. worker' = worker /\ requested_suspend_state' = new /\ worker \notin PastLateCheck
  BY <1>2 DEF request_suspend_state, state_store, UserContext, PastLateCheck, Frozen
<1>4. "early_suspend" \in Works /\ "late_resume" \in Works /\ "suspend" \in Works
  BY DEF Works
<1>5. CASE /\ new # "on" /\ "SUSPEND_REQUESTED" \notin state
           /\ state' = state \cup {"SUSPEND_REQUESTED"}
           /\ suspendQueue' = queue_work(suspendQueue, "early_suspend")
           /\ UNCHANGED lockVars
  <2>1. /\ suspendQueue' \in Seq(Works)
        /\ Pending(suspendQueue, "suspend") => Pending(suspendQueue', "suspend")
    BY <1>1, <1>4, <1>5, QueueWork
  <2>2. /\ LockInv' /\ Permanent' = Permanent /\ active' = active
        /\ newEvent' = newEvent
        /\ expire_timer' = expire_timer /\ expiring' = expiring
    BY <1>1, <1>5, <2>1, LocksUnchanged
  <2>3. SuspendNotLost'
    BY <1>1, <1>3, <2>1, <2>2 DEF SuspendNotLost, AttemptCommitted
  <2>4. new = "mem"
    BY <1>5 DEF SuspendStates
  <2>5. Main \in active
    BY <1>1, <1>5 DEF MainHeldUnlessSuspended, StateBits
  <2>6. ControlTypeOK' /\ RequestRecorded' /\ MainHeldUnlessSuspended'
    BY <1>1, <1>3, <1>5, <2>2, <2>4, <2>5
       DEF ControlTypeOK, RequestRecorded, MainHeldUnlessSuspended, StateBits
  <2> QED BY <1>3, <2>2, <2>3, <2>6 DEF CoreInv, NoUserLockPastLate
<1>6. CASE /\ new = "on" /\ "SUSPEND_REQUESTED" \in state
           /\ state' = state \ {"SUSPEND_REQUESTED"}
           /\ wake_lock(Main, queue_work(suspendQueue, "late_resume"))
  <2>1. /\ wake_lock_internal(Main, 0, FALSE, queue_work(suspendQueue, "late_resume"))
        /\ initialized' = initialized \cup {Main}
    BY <1>6 DEF wake_lock
  <2>2. queue_work(suspendQueue, "late_resume") \in Seq(Works)
    BY <1>1, <1>4, QueueWork
  <2>3. 0 \in Timeouts
    BY TimeoutAssumption DEF Timeouts
  <2>4. LockInv' /\ Awaited' /\ Main \in Permanent'
    BY <1>1, <2>1, <2>2, <2>3, LocksAssumption, LockInternalKeepsInv
  <2>5. SuspendNotLost'
    BY <2>4 DEF SuspendNotLost, Awaited
  <2>6. ControlTypeOK' /\ RequestRecorded' /\ MainHeldUnlessSuspended'
    BY <1>1, <1>3, <1>6, <2>4
       DEF ControlTypeOK, RequestRecorded, MainHeldUnlessSuspended, Permanent
  <2> QED BY <1>3, <2>4, <2>5, <2>6 DEF CoreInv, NoUserLockPastLate
<1>7. CASE /\ (new = "on") <=> ("SUSPEND_REQUESTED" \notin state)
           /\ UNCHANGED <<state, lockVars, suspendQueue>>
  <2>1. /\ LockInv' /\ Permanent' = Permanent /\ active' = active
        /\ newEvent' = newEvent
        /\ expire_timer' = expire_timer /\ expiring' = expiring
    BY <1>1, <1>7, LocksUnchanged
  <2>2. SuspendNotLost'
    BY <1>1, <1>3, <1>7, <2>1 DEF SuspendNotLost, AttemptCommitted
  <2>3. ControlTypeOK' /\ RequestRecorded' /\ MainHeldUnlessSuspended'
    BY <1>1, <1>3, <1>7, <2>1
       DEF ControlTypeOK, RequestRecorded, MainHeldUnlessSuspended, SuspendStates
  <2> QED BY <1>3, <2>1, <2>2, <2>3 DEF CoreInv, NoUserLockPastLate
<1> QED BY <1>2, <1>5, <1>6, <1>7 DEF request_suspend_state

(***************************************************************************)
(* The thread of suspend_work_queue takes a work.                          *)
(***************************************************************************)
LEMMA RunWorkqueueCore ==
    ASSUME CoreInv, run_workqueue, UNCHANGED state PROVE CoreInv'
<1>1. /\ LockInv /\ suspendQueue \in Seq(Works) /\ ControlTypeOK
      /\ SuspendNotLost /\ MainHeldUnlessSuspended /\ RequestRecorded
  BY DEF CoreInv, LockInv, WakeLockTypeOK
<1>2. /\ worker = "idle" /\ suspendQueue # << >>
      /\ suspendQueue' = Tail(suspendQueue) /\ worker' = Head(suspendQueue)
      /\ UNCHANGED requested_suspend_state /\ UNCHANGED lockVars
  BY DEF run_workqueue, WorkerAt, Goto
<1>3. /\ Head(suspendQueue) \in Works /\ Tail(suspendQueue) \in Seq(Works)
      /\ Len(Tail(suspendQueue)) = Len(suspendQueue) - 1
      /\ \A i \in 1 .. Len(Tail(suspendQueue)) :
            Tail(suspendQueue)[i] = suspendQueue[i + 1]
  BY <1>1, <1>2, HeadTailProperties
<1>4. /\ LockInv' /\ Permanent' = Permanent /\ active' = active
      /\ newEvent' = newEvent
      /\ expire_timer' = expire_timer /\ expiring' = expiring
  BY <1>1, <1>2, <1>3, LocksUnchanged
<1>5. Pending(suspendQueue, "suspend") /\ Head(suspendQueue) # "suspend"
         => Pending(suspendQueue', "suspend")
  <2> SUFFICES ASSUME NEW i \in 1 .. Len(suspendQueue), suspendQueue[i] = "suspend",
                      Head(suspendQueue) # "suspend"
               PROVE  \E j \in 1 .. Len(Tail(suspendQueue)) :
                         Tail(suspendQueue)[j] = "suspend"
    BY <1>2 DEF Pending
  <2>1. i # 1
    BY <1>1
  <2>2. i - 1 \in 1 .. Len(Tail(suspendQueue))
    BY <1>1, <1>3, <2>1
  <2>3. Tail(suspendQueue)[i - 1] = suspendQueue[i - 1 + 1] /\ i - 1 + 1 = i
    BY <1>3, <2>2
  <2> QED BY <2>2, <2>3
<1>6. worker \notin SuspendSteps
  BY <1>2 DEF SuspendSteps, Frozen
<1>7. SuspendNotLost'
  <2>1. CASE Head(suspendQueue) = "suspend"
    BY <2>1, <1>2 DEF SuspendNotLost, AttemptCommitted, SuspendSteps
  <2>2. CASE Head(suspendQueue) # "suspend"
    BY <2>2, <1>1, <1>4, <1>5, <1>6 DEF SuspendNotLost
  <2> QED BY <2>1, <2>2
<1>8. ControlTypeOK'
  BY <1>1, <1>2, <1>3 DEF ControlTypeOK, Works, SuspendSteps, EarlySteps
<1>9. MainHeldUnlessSuspended' /\ RequestRecorded'
  BY <1>1, <1>2, <1>4 DEF MainHeldUnlessSuspended, RequestRecorded
<1>10. NoUserLockPastLate'
  BY <1>2, <1>3 DEF NoUserLockPastLate, PastLateCheck, Works
<1> QED BY <1>4, <1>7, <1>8, <1>9, <1>10 DEF CoreInv

(***************************************************************************)
(* A step of the worker inside suspend() that takes and releases no lock,  *)
(* from a place past the recording of entry_event_num.                     *)
(***************************************************************************)
Committed == SuspendSteps \ {"suspend", "entry"}

(***************************************************************************)
(* Such a step may end locks that are due, and reaches a place past the late*)
(* check from one, or with no lock left.                                   *)
(***************************************************************************)
LEMMA WorkerLooks ==
    ASSUME CoreInv, NEW step \in Committed, worker \in Committed,
           Goto(step), UNCHANGED state, UNCHANGED suspendQueue, LockInv',
           Permanent' = Permanent, active' \subseteq active, newEvent' = newEvent,
           expire_timer' = expire_timer, expiring' = expiring,
           step \in PastLateCheck => worker \in PastLateCheck \/ active' = {}
    PROVE  CoreInv'
<1>1. /\ LockInv /\ ControlTypeOK
      /\ SuspendNotLost /\ MainHeldUnlessSuspended /\ RequestRecorded
  BY DEF CoreInv
<1>2. worker' = step /\ UNCHANGED requested_suspend_state
  BY DEF Goto
<1>3. SuspendNotLost'
  BY <1>1, <1>2 DEF SuspendNotLost, AttemptCommitted, Committed
<1>4. ControlTypeOK' /\ RequestRecorded'
  BY <1>1, <1>2 DEF ControlTypeOK, RequestRecorded, Committed
<1>5. MainHeldUnlessSuspended'
  BY <1>1 DEF MainHeldUnlessSuspended, LockInv, MainHasNoDeadline, Permanent
<1>6. NoUserLockPastLate'
  BY <1>2 DEF CoreInv, NoUserLockPastLate
<1> QED BY <1>3, <1>4, <1>5, <1>6 DEF CoreInv

(***************************************************************************)
(* The case where it does not look at the locks.                           *)
(***************************************************************************)
LEMMA WorkerMoves ==
    ASSUME CoreInv, NEW step \in Committed, worker \in Committed,
           Goto(step), UNCHANGED state, UNCHANGED <<lockVars, suspendQueue>>,
           step \in PastLateCheck => worker \in PastLateCheck
    PROVE  CoreInv'
<1>1. LockInv /\ suspendQueue' \in Seq(Works)
  BY DEF CoreInv, LockInv, WakeLockTypeOK
<1>2. /\ LockInv' /\ Permanent' = Permanent /\ active' = active
      /\ newEvent' = newEvent
      /\ expire_timer' = expire_timer /\ expiring' = expiring
  BY <1>1, LocksUnchanged
<1> QED BY <1>2, WorkerLooks

(***************************************************************************)
(* The case where it calls has_wake_lock.                                  *)
(***************************************************************************)
LEMMA WorkerChecks ==
    ASSUME CoreInv, NEW step \in Committed, worker \in Committed,
           Goto(step), UNCHANGED state, has_wake_lock,
           UNCHANGED newEvent, UNCHANGED suspendQueue,
           step \in PastLateCheck => ~HasWakeLock
    PROVE  CoreInv'
<1>1. LockInv /\ suspendQueue' \in Seq(Works)
  BY DEF CoreInv, LockInv, WakeLockTypeOK
<1>2. /\ LockInv' /\ active' \subseteq active /\ Permanent' = Permanent
      /\ expire_timer' = expire_timer /\ expiring' = expiring
      /\ ~HasWakeLock => active' = {}
  BY <1>1, HasWakeLockKeepsInv
<1> QED BY <1>2, WorkerLooks

(***************************************************************************)
(* The two passes of the freezer.                                          *)
(***************************************************************************)
LEMMA FreezeCore ==
    ASSUME CoreInv, UNCHANGED state, FreezeUserSpace \/ FreezeTasks
    PROVE  CoreInv'
<1>1. ASSUME NEW pass \in {"freeze_user", "freeze_tasks"},
             NEW next \in {"freeze_tasks", "devices"}, FreezeRound(pass, next)
      PROVE  CoreInv'
  <2>1. worker = pass /\ worker \in Committed /\ UNCHANGED suspendQueue
    BY <1>1 DEF FreezeRound, WorkerAt, Committed, SuspendSteps, Frozen
  <2>2. /\ {next, pass, "thaw"} \subseteq Committed
        /\ {next, pass, "thaw"} \cap PastLateCheck = {}
    BY DEF Committed, SuspendSteps, Frozen, PastLateCheck
  <2>3. CASE Goto(next) /\ UNCHANGED lockVars
    BY <2>1, <2>2, <2>3, WorkerMoves
  <2>4. CASE /\ has_wake_lock
             /\ \E step \in (IF HasWakeLock THEN {"thaw"} ELSE {pass, "thaw"}) : Goto(step)
             /\ UNCHANGED newEvent
    <3>1. PICK step \in {pass, "thaw"} : Goto(step)
      BY <2>4
    <3> QED BY <2>1, <2>2, <2>4, <3>1, WorkerChecks
  <2> QED BY <1>1, <2>3, <2>4 DEF FreezeRound
<1> QED BY <1>1 DEF FreezeUserSpace, FreezeTasks

(***************************************************************************)
(* power_suspend_late: past it no lock is active.                          *)
(***************************************************************************)
LEMMA LateCore ==
    ASSUME CoreInv, UNCHANGED state, power_suspend_late
    PROVE  CoreInv'
<1>1. worker = "late" /\ worker \in Committed /\ UNCHANGED suspendQueue
  BY DEF power_suspend_late, WorkerAt, Committed, SuspendSteps, Frozen
<1>2. "resume" \in Committed /\ "noirq" \in Committed /\ "resume" \notin PastLateCheck
  BY DEF Committed, SuspendSteps, Frozen, PastLateCheck
<1>3. CASE Goto("resume") /\ UNCHANGED lockVars
  BY <1>1, <1>2, <1>3, WorkerMoves
<1>4. CASE /\ has_wake_lock
           /\ \E step \in (IF HasWakeLock THEN {"resume"} ELSE {"noirq", "resume"}) : Goto(step)
           /\ UNCHANGED newEvent
  <2>1. PICK step \in {"noirq", "resume"} : Goto(step) /\ (HasWakeLock => step = "resume")
    BY <1>4
  <2> QED BY <1>1, <1>2, <1>4, <2>1, WorkerChecks
<1> QED BY <1>3, <1>4 DEF power_suspend_late

(***************************************************************************)
(* The remaining steps of the suspend path, which look at no lock.         *)
(***************************************************************************)
LEMMA QuietCore ==
    ASSUME CoreInv, UNCHANGED state,
           \/ pm_suspend \/ SuspendPrepare \/ SuspendDevices \/ DisableIrqs
           \/ SuspendEnter \/ WakeUp \/ ResumeDevices \/ SuspendFinish
    PROVE  CoreInv'
<1> USE DEF WorkerAt, Committed, SuspendSteps, Frozen, PastLateCheck
<1>1. CASE pm_suspend
  <2>1. PICK step \in {"exit", "prepare"} : Goto(step)
    BY <1>1 DEF pm_suspend
  <2> QED BY <1>1, <2>1, WorkerMoves DEF pm_suspend
<1>2. CASE SuspendPrepare
  <2>1. PICK step \in {"freeze_user", "exit"} : Goto(step)
    BY <1>2 DEF SuspendPrepare
  <2> QED BY <1>2, <2>1, WorkerMoves DEF SuspendPrepare
<1>3. CASE SuspendDevices
  <2>1. PICK step \in {"late", "resume"} : Goto(step)
    BY <1>3 DEF SuspendDevices
  <2> QED BY <1>3, <2>1, WorkerMoves DEF SuspendDevices
<1>4. CASE DisableIrqs
  BY <1>4, WorkerMoves DEF DisableIrqs
<1>5. CASE SuspendEnter
  <2>1. PICK step \in {"asleep", "resume"} : Goto(step)
    BY <1>5 DEF SuspendEnter
  <2> QED BY <1>5, <2>1, WorkerMoves DEF SuspendEnter
<1>6. CASE WakeUp
  BY <1>6, WorkerMoves DEF WakeUp
<1>7. CASE ResumeDevices
  BY <1>7, WorkerMoves DEF ResumeDevices
<1>8. CASE SuspendFinish
  BY <1>8, WorkerMoves DEF SuspendFinish
<1> QED BY <1>1, <1>2, <1>3, <1>4, <1>5, <1>6, <1>7, <1>8

(***************************************************************************)
(* The first steps of suspend(): the check for active locks, and the       *)
(* recording of entry_event_num.  An attempt that aborts has seen a lock   *)
(* that will lead to the next attempt.                                     *)
(***************************************************************************)
LEMMA EntryCore ==
    ASSUME CoreInv, UNCHANGED state,
           SuspendAborts \/ SuspendStarts \/ RecordEntryEvent
    PROVE  CoreInv'
<1>1. /\ LockInv /\ suspendQueue \in Seq(Works) /\ ControlTypeOK
      /\ SuspendNotLost /\ MainHeldUnlessSuspended /\ RequestRecorded
  BY DEF CoreInv, LockInv, WakeLockTypeOK
<1>2. /\ worker' \in {"idle", "entry", "sync"} /\ UNCHANGED requested_suspend_state
      /\ UNCHANGED suspendQueue
  BY DEF SuspendAborts, SuspendStarts, RecordEntryEvent, Goto
<1>3. LockInv' /\ active' \subseteq active /\ Permanent' = Permanent
  <2>1. CASE SuspendAborts \/ SuspendStarts
    BY <1>1, <1>2, <2>1, HasWakeLockKeepsInv DEF SuspendAborts, SuspendStarts
  <2>2. CASE RecordEntryEvent
    BY <1>1, <2>2 DEF RecordEntryEvent, LockInv, WakeLockTypeOK, TimerCoversLocks,
                      SleepTimeCharged, MainHasNoDeadline, Permanent
  <2> QED BY <2>1, <2>2
<1>4. SuspendNotLost'
  <2>1. CASE SuspendAborts
    <3>1. active' # {}
      BY <2>1 DEF SuspendAborts, HasWakeLock, has_wake_lock
    <3> QED BY <1>3, <3>1 DEF LockInv, TimerCoversLocks, SuspendNotLost
  <2>2. CASE SuspendStarts
    BY <2>2 DEF SuspendStarts, Goto, SuspendNotLost, AttemptCommitted, SuspendSteps
  <2>3. CASE RecordEntryEvent
    BY <2>3 DEF RecordEntryEvent, Goto, SuspendNotLost, AttemptCommitted, SuspendSteps
  <2> QED BY <2>1, <2>2, <2>3
<1>5. ControlTypeOK' /\ RequestRecorded'
  BY <1>1, <1>2 DEF ControlTypeOK, RequestRecorded, SuspendSteps
<1>6. MainHeldUnlessSuspended'
  BY <1>1, <1>3 DEF MainHeldUnlessSuspended, LockInv, MainHasNoDeadline, Permanent
<1>7. NoUserLockPastLate'
  BY <1>2 DEF NoUserLockPastLate, PastLateCheck
<1> QED BY <1>3, <1>4, <1>5, <1>6, <1>7 DEF CoreInv

(***************************************************************************)
(* The end of suspend(): an event since the entry has left something that  *)
(* leads to the next attempt, otherwise unknown_wakeup does.               *)
(***************************************************************************)
LEMMA ExitCore ==
    ASSUME CoreInv, UNCHANGED state, SuspendExit
    PROVE  CoreInv'
<1>1. /\ LockInv /\ suspendQueue \in Seq(Works) /\ ControlTypeOK
      /\ SuspendNotLost /\ MainHeldUnlessSuspended /\ RequestRecorded
  BY DEF CoreInv, LockInv, WakeLockTypeOK
<1>2. worker = "exit" /\ worker' = "idle" /\ UNCHANGED requested_suspend_state
  BY DEF SuspendExit, Goto, WorkerAt
<1>3. LockInv' /\ Awaited' /\ (Main \in active => Main \in active')
  <2>1. CASE newEvent /\ UNCHANGED <<lockVars, suspendQueue>>
    <3>1. Awaited
      BY <1>1, <1>2, <2>1, NotLostAwaited DEF AttemptCommitted, SuspendSteps
    <3> QED BY <1>1, <2>1, <3>1, LocksUnchanged DEF Awaited
  <2>2. CASE wake_lock_timeout(Unknown, UnknownTimeout, suspendQueue)
    <3>1. /\ wake_lock_internal(Unknown, UnknownTimeout, TRUE, suspendQueue)
          /\ initialized' = initialized \cup {Unknown}
      BY <2>2 DEF wake_lock_timeout
    <3>2. UnknownTimeout \in Timeouts
      BY UnknownTimeoutAssumption, TimeoutAssumption DEF Timeouts
    <3>3. LockInv' /\ Awaited' /\ Permanent \ {Unknown} \subseteq Permanent'
      BY <1>1, <3>1, <3>2, LocksAssumption, LockInternalKeepsInv
    <3> QED BY <1>1, <3>3, LocksAssumption DEF LockInv, MainHasNoDeadline, Permanent
  <2> QED BY <2>1, <2>2 DEF SuspendExit
<1>4. SuspendNotLost'
  BY <1>3 DEF SuspendNotLost, Awaited
<1>5. ControlTypeOK' /\ RequestRecorded' /\ NoUserLockPastLate'
  BY <1>1, <1>2 DEF ControlTypeOK, RequestRecorded, NoUserLockPastLate, PastLateCheck
<1>6. MainHeldUnlessSuspended'
  BY <1>1, <1>3 DEF MainHeldUnlessSuspended
<1> QED BY <1>3, <1>4, <1>5, <1>6 DEF CoreInv

(***************************************************************************)
(* The works of earlysuspend.c.  Only the end of early_suspend touches a   *)
(* lock, after a second look at state.                                     *)
(***************************************************************************)
LEMMA EarlyWorkCore ==
    ASSUME CoreInv, EarlyWork
    PROVE  CoreInv'
<1>1. /\ LockInv /\ suspendQueue \in Seq(Works) /\ ControlTypeOK
      /\ SuspendNotLost /\ MainHeldUnlessSuspended /\ RequestRecorded
  BY DEF CoreInv, LockInv, WakeLockTypeOK
<1>2. /\ worker \in EarlySteps /\ worker \notin SuspendSteps
      /\ worker' \in EarlySteps \cup {"idle"}
      /\ UNCHANGED requested_suspend_state
  BY DEF EarlyWork, EarlySuspendBegins, EarlySuspendAborts, CallSuspend, SuspendCalled,
         ReleaseMain, LateResumeBegins, LateResumeAborts, CallResume, ResumeCalled,
         WorkerAt, Goto, suspendVars, EarlySteps, SuspendSteps, Frozen
<1>3. NoUserLockPastLate'
  BY <1>2 DEF NoUserLockPastLate, PastLateCheck, EarlySteps
<1>4. Awaited
  BY <1>1, <1>2, NotLostAwaited
<1>5. CASE UNCHANGED <<lockVars, suspendQueue>> /\ \/ UNCHANGED state
                                                   \/ LateResumeBegins
                                                   \/ EarlySuspendBegins
  <2>1. /\ LockInv' /\ Permanent' = Permanent /\ active' = active
        /\ expire_timer' = expire_timer /\ expiring' = expiring
    BY <1>1, <1>5, LocksUnchanged
  <2>2. SuspendNotLost'
    BY <1>4, <1>5, <2>1 DEF SuspendNotLost, Awaited
  <2>3. /\ state' \subseteq StateBits
        /\ "SUSPEND_REQUESTED" \in state' => "SUSPEND_REQUESTED" \in state
        /\ state = StateBits => state' = StateBits
    <3>1. CASE UNCHANGED state
      BY <1>1, <3>1 DEF ControlTypeOK
    <3>2. CASE LateResumeBegins
      BY <3>2 DEF LateResumeBegins, StateBits
    <3>3. CASE EarlySuspendBegins
      BY <3>3 DEF EarlySuspendBegins, StateBits
    <3> QED BY <1>5, <3>1, <3>2, <3>3
  <2>4. ControlTypeOK' /\ RequestRecorded' /\ MainHeldUnlessSuspended'
    BY <1>1, <1>2, <2>1, <2>3
       DEF ControlTypeOK, RequestRecorded, MainHeldUnlessSuspended
  <2> QED BY <1>3, <2>1, <2>2, <2>4 DEF CoreInv
<1>6. CASE ReleaseMain /\ state = StateBits /\ wake_unlock(Main, suspendQueue)
  <2>1. LockInv' /\ Awaited'
    BY <1>1, <1>6, LocksAssumption, UnlockKeepsInv
  <2>2. state' = state
    BY <1>6 DEF ReleaseMain, earlySuspendVars
  <2>3. SuspendNotLost'
    BY <2>1 DEF SuspendNotLost, Awaited
  <2>4. ControlTypeOK' /\ RequestRecorded' /\ MainHeldUnlessSuspended'
    BY <1>1, <1>2, <1>6, <2>2
       DEF ControlTypeOK, RequestRecorded, MainHeldUnlessSuspended
  <2> QED BY <1>3, <2>1, <2>3, <2>4 DEF CoreInv
<1>7. \/ UNCHANGED <<lockVars, suspendQueue>> /\ \/ UNCHANGED state
                                                 \/ LateResumeBegins
                                                 \/ EarlySuspendBegins
      \/ ReleaseMain /\ state = StateBits /\ wake_unlock(Main, suspendQueue)
  BY DEF EarlyWork, EarlySuspendBegins, EarlySuspendAborts, CallSuspend, SuspendCalled,
         ReleaseMain, LateResumeBegins, LateResumeAborts, CallResume, ResumeCalled,
         earlySuspendVars
<1> QED BY <1>5, <1>6, <1>7

(***************************************************************************)
(* A step that changes neither locks nor control state.                    *)
(***************************************************************************)
LEMMA StutterCore ==
    ASSUME CoreInv, UNCHANGED <<lockVars, suspendQueue, suspendVars, state>>
    PROVE  CoreInv'
<1>1. /\ LockInv /\ suspendQueue' \in Seq(Works)
      /\ UNCHANGED <<worker, requested_suspend_state, state, suspendQueue>>
  BY DEF CoreInv, LockInv, WakeLockTypeOK, suspendVars
<1>2. /\ LockInv' /\ Permanent' = Permanent /\ active' = active
      /\ newEvent' = newEvent
      /\ expire_timer' = expire_timer /\ expiring' = expiring
  BY <1>1, LocksUnchanged
<1> QED
  BY <1>1, <1>2 DEF CoreInv, ControlTypeOK, SuspendNotLost, AttemptCommitted,
                    MainHeldUnlessSuspended, RequestRecorded, NoUserLockPastLate

(***************************************************************************)
(* CoreInv holds at boot and every step preserves it.                      *)
(***************************************************************************)
LEMMA CoreInit == Init => CoreInv
<1> SUFFICES ASSUME Init PROVE CoreInv
  OBVIOUS
<1> USE DEF Init, WakeLockInit, SuspendInit, EarlySuspendInit
<1>1. /\ {Main, Unknown, Sync} \cup DriverLocks \subseteq Locks
      /\ Main \notin UserLocks
  BY LocksAssumption, SyncAssumption, ClientLocksAssumption
<1>2. Permanent = {Main}
  BY DEF Permanent
<1>3. WakeLockTypeOK
  <2>1. left \in [Locks -> Timeouts]
    BY TimeoutAssumption DEF Timeouts
  <2>2. suspendQueue \in Seq(Works)
    OBVIOUS
  <2> QED BY <1>1, <2>1, <2>2 DEF WakeLockTypeOK
<1>4. TimerCoversLocks /\ SleepTimeCharged /\ MainHasNoDeadline /\ SuspendNotLost
  BY <1>2 DEF TimerCoversLocks, SleepTimeCharged, MainHasNoDeadline, SuspendNotLost
<1>5. ControlTypeOK /\ MainHeldUnlessSuspended /\ RequestRecorded /\ NoUserLockPastLate
  BY DEF ControlTypeOK, MainHeldUnlessSuspended, RequestRecorded, NoUserLockPastLate,
         PastLateCheck, SuspendStates
<1> QED BY <1>3, <1>4, <1>5 DEF CoreInv, LockInv

(***************************************************************************)
(* Which locks can come to be held without a deadline: the one that is     *)
(* taken without a timeout, and no other.                                  *)
(***************************************************************************)
LEMMA PermanentGrows ==
    /\ \A l, q : wake_lock(l, q) => Permanent' \subseteq Permanent \cup {l}
    /\ \A l, t, q : wake_lock_timeout(l, t, q) => Permanent' \subseteq Permanent
    /\ \A l, q : wake_unlock(l, q) => Permanent' \subseteq Permanent
    /\ \A l : wake_lock_init(l) \/ wake_lock_destroy(l) => Permanent' \subseteq Permanent
    /\ has_wake_lock \/ TimerFires \/ expire_wake_locks \/ Tick
          => Permanent' \subseteq Permanent
<1>1. ASSUME NEW l, NEW timeout, NEW has_timeout, NEW q,
             wake_lock_internal(l, timeout, has_timeout, q)
      PROVE  Permanent' \subseteq Permanent \cup (IF has_timeout THEN {} ELSE {l})
  BY <1>1 DEF wake_lock_internal, Reevaluate, Permanent, Expired
<1>2. ASSUME NEW l, NEW q, wake_unlock(l, q) PROVE Permanent' \subseteq Permanent
  BY <1>2 DEF wake_unlock, Reevaluate, Permanent, Expired
<1>3. has_wake_lock \/ TimerFires \/ expire_wake_locks \/ Tick
         => Permanent' \subseteq Permanent
  BY DEF has_wake_lock, TimerFires, expire_wake_locks, Tick, Permanent
<1>4. \A l : wake_lock_init(l) \/ wake_lock_destroy(l) => Permanent' \subseteq Permanent
  BY DEF wake_lock_init, wake_lock_destroy, Permanent
<1>5. \A l, q : wake_lock(l, q) => Permanent' \subseteq Permanent \cup {l}
  BY <1>1 DEF wake_lock
<1>6. \A l, t, q : wake_lock_timeout(l, t, q) => Permanent' \subseteq Permanent
  BY <1>1 DEF wake_lock_timeout
<1> QED BY <1>2, <1>3, <1>4, <1>5, <1>6

(***************************************************************************)
(* No step takes the lock of an input device file without a deadline.      *)
(***************************************************************************)
LEMMA EvdevTimedStep == EvdevTimed /\ [Next]_vars => EvdevTimed'
<1> SUFFICES ASSUME EvdevTimed, [Next]_vars
             PROVE  Permanent' \subseteq Permanent \cup (Locks \ EvdevLocks)
  BY ClientLocksAssumption DEF EvdevTimed
<1>1. UNCHANGED lockVars => Permanent' = Permanent
  BY DEF lockVars, Permanent
<1>2. Main \in Locks \ EvdevLocks /\ Sync \in Locks \ EvdevLocks
  BY LocksAssumption, SyncAssumption, ClientLocksAssumption
<1>3. CASE state_store
  BY <1>1, <1>2, <1>3, PermanentGrows DEF state_store, request_suspend_state
<1>4. CASE UserStore
  <2>1. PICK l \in UserLocks :
           \/ \E arg \in TimeoutArgs \cup {NoTimeout} : wake_lock_store(l, arg)
           \/ wake_unlock_store(l)
    BY <1>4 DEF UserStore
  <2>2. l \in Locks \ EvdevLocks
    BY UserLocksAssumption, ClientLocksAssumption
  <2>3. ASSUME NEW arg, wake_lock_store(l, arg)
        PROVE  Permanent' \subseteq Permanent \cup {l}
    BY <2>3 DEF wake_lock_store, wake_lock_internal, Reevaluate, Permanent, Expired
  <2> QED BY <2>1, <2>2, <2>3, PermanentGrows DEF wake_unlock_store
<1>5. CASE Evdev
  BY <1>5, PermanentGrows
     DEF Evdev, evdev_open, evdev_pass_event, evdev_fetch_next_event, evdev_release
<1>6. CASE DriverStep
  <2>1. DriverLocks \subseteq Locks \ EvdevLocks
    BY ClientLocksAssumption
  <2> QED BY <1>6, <2>1, PermanentGrows DEF DriverStep
<1>7. CASE HandlerRegistration
  BY <1>1, <1>7 DEF HandlerRegistration, register_early_suspend, unregister_early_suspend
<1>8. CASE TimerStep \/ ClockStep
  BY <1>8, PermanentGrows DEF TimerStep, ClockStep
<1>9. CASE run_workqueue \/ SuspendWork \/ WakeUp
  <2>1. CASE RecordEntryEvent
    BY <2>1 DEF RecordEntryEvent, Permanent
  <2>2. CASE SuspendExit
    BY <1>1, <2>2, PermanentGrows DEF SuspendExit
  <2>3. CASE ~RecordEntryEvent /\ ~SuspendExit
    <3>1. UNCHANGED lockVars \/ has_wake_lock
      BY <1>9, <2>3
         DEF run_workqueue, SuspendWork, SuspendAborts, SuspendStarts, pm_suspend,
             SuspendPrepare, FreezeUserSpace, FreezeTasks, FreezeRound, SuspendDevices,
             power_suspend_late, DisableIrqs, SuspendEnter, WakeUp, ResumeDevices,
             SuspendFinish
    <3> QED BY <1>1, <3>1, PermanentGrows
  <2> QED BY <2>1, <2>2, <2>3
<1>10. CASE EarlyWork
  <2>1. UNCHANGED lockVars \/ wake_unlock(Main, suspendQueue)
    BY <1>10 DEF EarlyWork, EarlySuspendBegins, EarlySuspendAborts, CallSuspend, SuspendCalled,
                 ReleaseMain, LateResumeBegins, LateResumeAborts, CallResume, ResumeCalled
  <2> QED BY <1>1, <2>1, PermanentGrows
<1>11. CASE SyncStep
  BY <1>2, <1>11, PermanentGrows DEF SyncStep, SyncBegins, SyncEnds
<1>12. CASE UNCHANGED vars
  BY <1>1, <1>12 DEF vars
<1> QED
  BY <1>3, <1>4, <1>5, <1>6, <1>7, <1>8, <1>9, <1>10, <1>11, <1>12
     DEF Next, WorkerStep, WakeUpStep

(***************************************************************************)
(* One case per disjunct of Next.                                          *)
(***************************************************************************)
LEMMA CoreStep == CoreInv /\ EvdevTimed /\ [Next]_vars => CoreInv'
<1> SUFFICES ASSUME CoreInv, EvdevTimed, [Next]_vars PROVE CoreInv'
  OBVIOUS
<1>1. CASE state_store
  BY <1>1, RequestCore
<1>2. CASE UserStore
  BY <1>2, UserStoreCore
<1>3. CASE Evdev
  BY <1>3, EvdevCore
<1>4. CASE DriverStep
  BY <1>4, DriverCore
<1>5. CASE HandlerRegistration
  BY <1>5, StutterCore
     DEF HandlerRegistration, register_early_suspend, unregister_early_suspend
<1>6. CASE TimerStep \/ ClockStep
  BY <1>6, TimeCore
<1>7. CASE (run_workqueue \/ SuspendWork) /\ UNCHANGED earlySuspendVars
  <2>1. UNCHANGED state
    BY <1>7 DEF earlySuspendVars
  <2> QED
    BY <1>7, <2>1, RunWorkqueueCore, EntryCore, FreezeCore, LateCore, QuietCore, ExitCore
       DEF SuspendWork
<1>8. CASE EarlyWork
  BY <1>8, EarlyWorkCore
<1>9. CASE SyncStep
  BY <1>9, SyncCore
<1>10. CASE WakeUpStep
  <2>1. WakeUp /\ UNCHANGED state
    BY <1>10 DEF WakeUpStep, earlySuspendVars
  <2> QED BY <2>1, QuietCore
<1>11. CASE UNCHANGED vars
  BY <1>11, StutterCore DEF vars, earlySuspendVars
<1> QED
  BY <1>1, <1>2, <1>3, <1>4, <1>5, <1>6, <1>7, <1>8, <1>9, <1>10, <1>11
     DEF Next, WorkerStep

-----------------------------------------------------------------------------
\* The early suspend handlers.
(***************************************************************************)
(* early_suspend_handlers holds no handler twice and is sorted by level.   *)
(***************************************************************************)
ListTypeOK ==
    /\ handlers \in Seq(Handlers)
    /\ position \in 0 .. Len(handlers)
    /\ syncPending \in BOOLEAN
    /\ syncing \in BOOLEAN

ListDistinct ==
    \A i, j \in 1 .. Len(handlers) : handlers[i] = handlers[j] => i = j

ListSorted ==
    \A i, j \in 1 .. Len(handlers) : i < j => Level[handlers[i]] <= Level[handlers[j]]

(***************************************************************************)
(* Which handlers are down, by where the worker is.                        *)
(***************************************************************************)
FirstHandlers(n) == {handlers[i] : i \in 1 .. n}

DownWhenFree ==
    ~early_suspend_lock =>
        /\ position = 0
        /\ calledDown = IF "SUSPENDED" \in state THEN Registered ELSE {}

DownWhileSuspending ==
    worker = "call_suspend" =>
        "SUSPENDED" \in state /\ calledDown = FirstHandlers(position)

DownWhileResuming ==
    worker = "call_resume" =>
        "SUSPENDED" \notin state /\ calledDown = FirstHandlers(Len(handlers) - position)

HandlersInv ==
    /\ ListTypeOK
    /\ ListDistinct
    /\ ListSorted
    /\ DownWhenFree
    /\ DownWhileSuspending
    /\ DownWhileResuming

(***************************************************************************)
(* The list after list_add_tail in front of position i.                    *)
(***************************************************************************)
Insertion(s, i, h) == SubSeq(s, 1, i - 1) \o <<h>> \o SubSeq(s, i, Len(s))

IsInsertion(t, s, i, h) ==
    /\ Len(t) = Len(s) + 1
    /\ \A j \in 1 .. Len(s) + 1 :
          t[j] = IF j < i THEN s[j] ELSE IF j = i THEN h ELSE s[j - 1]

(***************************************************************************)
(* Its length and its elements.                                            *)
(***************************************************************************)
LEMMA Inserted ==
    ASSUME NEW S, NEW s \in Seq(S), NEW h \in S, NEW i \in 1 .. Len(s) + 1
    PROVE  /\ Insertion(s, i, h) \in Seq(S)
           /\ IsInsertion(Insertion(s, i, h), s, i, h)
<1> DEFINE t == Insertion(s, i, h)
            a == SubSeq(s, 1, i - 1)
           b == <<h>>
           c == SubSeq(s, i, Len(s))
           d == a \o b
<1>0. Len(s) \in Nat /\ i \in Nat
  OBVIOUS
<1>1. /\ a \in Seq(S) /\ Len(a) = i - 1
      /\ \A j \in 1 .. i - 1 : a[j] = s[j]
  OBVIOUS
<1>2. /\ c \in Seq(S) /\ Len(c) = Len(s) - i + 1
      /\ \A j \in 1 .. Len(s) - i + 1 : c[j] = s[i + j - 1]
  OBVIOUS
<1>3. b \in Seq(S) /\ Len(b) = 1 /\ b[1] = h
  OBVIOUS
<1> HIDE DEF a, b, c
<1>4. /\ d \in Seq(S) /\ Len(d) = i
      /\ \A j \in 1 .. i : d[j] = IF j <= Len(a) THEN a[j] ELSE b[j - Len(a)]
  <2>1. /\ d \in Seq(S) /\ Len(d) = Len(a) + Len(b)
        /\ \A j \in 1 .. Len(a) + Len(b) :
              d[j] = IF j <= Len(a) THEN a[j] ELSE b[j - Len(a)]
    BY <1>1, <1>3, ConcatProperties, Zenon
  <2>2. Len(a) + Len(b) = i
    BY <1>0, <1>1, <1>3
  <2> QED BY <2>1, <2>2, Zenon
<1> HIDE DEF d
<1>5. t = d \o c
  BY DEF a, b, c, d, Insertion
<1> HIDE DEF t
<1>6. /\ t \in Seq(S) /\ Len(t) = Len(d) + Len(c)
      /\ \A j \in 1 .. Len(d) + Len(c) :
            t[j] = IF j <= Len(d) THEN d[j] ELSE c[j - Len(d)]
  BY <1>2, <1>4, <1>5, ConcatProperties, Zenon
<1>7. Len(t) = Len(s) + 1
  BY <1>0, <1>2, <1>4, <1>6
<1>8. ASSUME NEW j \in 1 .. Len(t)
      PROVE  t[j] = IF j < i THEN s[j] ELSE IF j = i THEN h ELSE s[j - 1]
  <2>1. CASE j < i
    <3>1. /\ j \in 1 .. Len(d) + Len(c) /\ j <= Len(d)
          /\ j \in 1 .. i /\ j <= Len(a) /\ j \in 1 .. i - 1
      BY <2>1, <1>0, <1>1, <1>4, <1>6, <1>7
    <3>2. t[j] = d[j] /\ d[j] = a[j] /\ a[j] = s[j]
      BY <3>1, <1>1, <1>4, <1>6
    <3> QED BY <2>1, <3>2
  <2>2. CASE j = i
    BY <2>2, <1>0, <1>1, <1>3, <1>4, <1>6, <1>7
  <2>3. CASE j > i
    <3>1. t[j] = c[j - i] /\ j - i \in 1 .. Len(s) - i + 1
      BY <2>3, <1>0, <1>4, <1>6, <1>7
    <3>2. c[j - i] = s[i + (j - i) - 1] /\ i + (j - i) - 1 = j - 1
      BY <1>0, <1>2, <3>1
    <3> QED BY <2>3, <1>0, <3>1, <3>2
  <2> QED BY <1>0, <2>1, <2>2, <2>3
<1> QED BY <1>6, <1>7, <1>8 DEF t, IsInsertion

(***************************************************************************)
(* The list after list_del of the handler at position i.                   *)
(***************************************************************************)
Removal(s, i) == SubSeq(s, 1, i - 1) \o SubSeq(s, i + 1, Len(s))

IsRemoval(t, s, i) ==
    /\ Len(t) = Len(s) - 1
    /\ \A j \in 1 .. Len(s) - 1 : t[j] = IF j < i THEN s[j] ELSE s[j + 1]

(***************************************************************************)
(* Its length and its elements.                                            *)
(***************************************************************************)
LEMMA Removed ==
    ASSUME NEW S, NEW s \in Seq(S), NEW i \in 1 .. Len(s)
    PROVE  Removal(s, i) \in Seq(S) /\ IsRemoval(Removal(s, i), s, i)
<1> DEFINE t == Removal(s, i)
            a == SubSeq(s, 1, i - 1)
           c == SubSeq(s, i + 1, Len(s))
<1>0. Len(s) \in Nat /\ i \in Nat
  OBVIOUS
<1>1. /\ a \in Seq(S) /\ Len(a) = i - 1
      /\ \A j \in 1 .. i - 1 : a[j] = s[j]
  OBVIOUS
<1>2. /\ c \in Seq(S) /\ Len(c) = Len(s) - i
      /\ \A j \in 1 .. Len(s) - i : c[j] = s[i + 1 + j - 1]
  OBVIOUS
<1> HIDE DEF a, c
<1>5. t = a \o c
  BY DEF a, c, Removal
<1> HIDE DEF t
<1>6. /\ t \in Seq(S) /\ Len(t) = Len(a) + Len(c)
      /\ \A j \in 1 .. Len(a) + Len(c) :
            t[j] = IF j <= Len(a) THEN a[j] ELSE c[j - Len(a)]
  BY <1>1, <1>2, <1>5, ConcatProperties, Zenon
<1>7. Len(t) = Len(s) - 1
  BY <1>0, <1>1, <1>2, <1>6
<1>8. ASSUME NEW j \in 1 .. Len(t)
      PROVE  t[j] = IF j < i THEN s[j] ELSE s[j + 1]
  <2>1. CASE j < i
    BY <2>1, <1>0, <1>1, <1>6, <1>7
  <2>2. CASE j >= i
    <3>1. t[j] = c[j - (i - 1)] /\ j - (i - 1) \in 1 .. Len(s) - i
      BY <2>2, <1>0, <1>1, <1>6, <1>7
    <3>2. c[j - (i - 1)] = s[i + 1 + (j - (i - 1)) - 1] /\ i + 1 + (j - (i - 1)) - 1 = j + 1
      BY <1>0, <1>2, <3>1
    <3> QED BY <2>2, <1>0, <3>1, <3>2
  <2> QED BY <1>0, <2>1, <2>2
<1> QED BY <1>6, <1>7, <1>8 DEF t, IsRemoval

(***************************************************************************)
(* register_early_suspend keeps the list sorted and without duplicates.    *)
(***************************************************************************)
LEMMA RegisterHandlers ==
    ASSUME HandlersInv, NEW h \in Handlers, register_early_suspend(h)
    PROVE  HandlersInv'
<1>1. /\ ~early_suspend_lock /\ h \notin Registered
      /\ UNCHANGED <<state, position, syncPending, syncing, worker>>
      /\ calledDown' = IF "SUSPENDED" \in state THEN calledDown \cup {h} ELSE calledDown
  BY DEF register_early_suspend, suspendVars
<1>2. PICK i \in 1 .. Len(handlers) + 1 :
         InsertPoint(h, i) /\ handlers' = Insertion(handlers, i, h)
  BY DEF register_early_suspend, Insertion
<1>3. handlers \in Seq(Handlers) /\ Len(handlers) \in Nat /\ i \in Nat
  BY DEF HandlersInv, ListTypeOK
<1>4. /\ handlers' \in Seq(Handlers) /\ Len(handlers') = Len(handlers) + 1
      /\ \A j \in 1 .. Len(handlers) + 1 :
            handlers'[j] = IF j < i THEN handlers[j]
                           ELSE IF j = i THEN h ELSE handlers[j - 1]
  <2>1. handlers' \in Seq(Handlers) /\ IsInsertion(handlers', handlers, i, h)
    BY <1>2, <1>3, Inserted, Zenon
  <2> QED BY <2>1 DEF IsInsertion
<1>5. /\ \A j \in 1 .. Len(handlers) : handlers[j] \in Handlers /\ handlers[j] # h
      /\ \A g \in Handlers : Level[g] \in Nat
  BY <1>1, <1>3, LevelAssumption DEF Registered
<1>6. ListTypeOK' /\ position = 0
  BY <1>1, <1>3, <1>4 DEF HandlersInv, ListTypeOK, DownWhenFree
<1>7. \A j \in 1 .. Len(handlers) + 1 :
         \/ j = i /\ handlers'[j] = h
         \/ /\ j < i /\ j \in 1 .. Len(handlers) /\ handlers'[j] = handlers[j]
         \/ /\ j > i /\ j - 1 \in 1 .. Len(handlers) /\ handlers'[j] = handlers[j - 1]
  <2> SUFFICES ASSUME NEW j \in 1 .. Len(handlers) + 1
               PROVE  \/ j = i /\ handlers'[j] = h
                      \/ /\ j < i /\ j \in 1 .. Len(handlers)
                         /\ handlers'[j] = handlers[j]
                      \/ /\ j > i /\ j - 1 \in 1 .. Len(handlers)
                         /\ handlers'[j] = handlers[j - 1]
    OBVIOUS
  <2>1. handlers'[j] = IF j < i THEN handlers[j] ELSE IF j = i THEN h ELSE handlers[j - 1]
    BY <1>4, Zenon
  <2>2. CASE j < i
    BY <1>3, <2>1, <2>2
  <2>3. CASE j = i
    BY <1>3, <2>1, <2>3
  <2>4. CASE j > i
    BY <1>3, <2>1, <2>4
  <2> QED BY <1>3, <2>2, <2>3, <2>4
<1>8. ListDistinct' /\ ListSorted'
  <2> SUFFICES ASSUME NEW j \in 1 .. Len(handlers) + 1, NEW k \in 1 .. Len(handlers) + 1,
                      j < k
               PROVE  /\ handlers'[j] # handlers'[k]
                      /\ Level[handlers'[j]] <= Level[handlers'[k]]
    BY <1>3, <1>4 DEF ListDistinct, ListSorted
  <2>1. \A m \in 1 .. Len(handlers) : m < i => Level[handlers[m]] <= Level[h]
    BY <1>2, <1>3 DEF InsertPoint
  <2>2. \A m \in 1 .. Len(handlers) : m >= i => Level[h] <= Level[handlers[m]]
    <3> SUFFICES ASSUME NEW m \in 1 .. Len(handlers), m >= i
                 PROVE  Level[h] <= Level[handlers[m]]
      OBVIOUS
    <3>1. Level[h] < Level[handlers[i]] /\ i \in 1 .. Len(handlers)
      BY <1>2, <1>3, <1>5 DEF InsertPoint
    <3>2. Level[handlers[i]] <= Level[handlers[m]]
      BY <1>3, <1>5, <3>1 DEF HandlersInv, ListSorted
    <3> QED BY <1>3, <1>5, <3>1, <3>2
  <2>3. \A m, n \in 1 .. Len(handlers) : m < n =>
           handlers[m] # handlers[n] /\ Level[handlers[m]] <= Level[handlers[n]]
    BY <1>3 DEF HandlersInv, ListDistinct, ListSorted
  <2>4. CASE k < i
    <3>1. /\ j \in 1 .. Len(handlers) /\ k \in 1 .. Len(handlers)
          /\ handlers'[j] = handlers[j] /\ handlers'[k] = handlers[k]
      BY <1>3, <1>7, <2>4
    <3> QED BY <2>3, <3>1
  <2>5. CASE k = i
    <3>1. /\ j \in 1 .. Len(handlers) /\ j < i
          /\ handlers'[j] = handlers[j] /\ handlers'[k] = h
      BY <1>3, <1>7, <2>5
    <3> QED BY <1>5, <2>1, <3>1
  <2>6. CASE k > i /\ j < i
    <3> DEFINE n == k - 1
    <3>1. /\ j \in 1 .. Len(handlers) /\ n \in 1 .. Len(handlers) /\ j < n
          /\ handlers'[j] = handlers[j] /\ handlers'[k] = handlers[n]
      BY <1>3, <1>7, <2>6
    <3> HIDE DEF n
    <3> QED BY <2>3, <3>1
  <2>7. CASE k > i /\ j = i
    <3> DEFINE n == k - 1
    <3>1. /\ n \in 1 .. Len(handlers) /\ n >= i
          /\ handlers'[j] = h /\ handlers'[k] = handlers[n]
      BY <1>3, <1>7, <2>7
    <3> HIDE DEF n
    <3> QED BY <1>5, <2>2, <3>1
  <2>8. CASE k > i /\ j > i
    <3> DEFINE m == j - 1
               n == k - 1
    <3>1. /\ m \in 1 .. Len(handlers) /\ n \in 1 .. Len(handlers) /\ m < n
          /\ handlers'[j] = handlers[m] /\ handlers'[k] = handlers[n]
      BY <1>3, <1>7, <2>8
    <3> HIDE DEF m, n
    <3> QED BY <2>3, <3>1
  <2> QED BY <1>3, <2>4, <2>5, <2>6, <2>7, <2>8
<1>9. Registered' = Registered \cup {h}
  <2>1. ASSUME NEW g \in Registered' PROVE g \in Registered \cup {h}
    <3>1. PICK j \in 1 .. Len(handlers) + 1 : handlers'[j] = g
      BY <1>4, <2>1 DEF Registered
    <3>2. \/ g = h \/ \E m \in 1 .. Len(handlers) : g = handlers[m]
      BY <1>7, <3>1
    <3> QED BY <3>2 DEF Registered
  <2>2. ASSUME NEW g \in Registered \cup {h} PROVE g \in Registered'
    <3>1. \E m \in 1 .. Len(handlers) + 1 : handlers'[m] = g
      <4>1. CASE g = h
        BY <1>3, <1>4, <4>1
      <4>2. CASE g \in Registered
        <5>1. PICK m \in 1 .. Len(handlers) : handlers[m] = g
          BY <4>2 DEF Registered
        <5>2. CASE m < i
          BY <1>3, <1>4, <5>1, <5>2
        <5>3. CASE m >= i
          <6>1. /\ m + 1 \in 1 .. Len(handlers) + 1 /\ m + 1 > i
                /\ (m + 1) - 1 = m
            BY <1>3, <5>3
          <6>2. handlers'[m + 1] = handlers[m]
            BY <1>3, <1>4, <6>1
          <6> QED BY <5>1, <6>1, <6>2
        <5> QED BY <1>3, <5>2, <5>3
      <4> QED BY <4>1, <4>2, <2>2
    <3> QED BY <1>4, <3>1 DEF Registered
  <2> QED BY <2>1, <2>2
<1>10. DownWhenFree' /\ DownWhileSuspending' /\ DownWhileResuming'
  BY <1>1, <1>6, <1>9 DEF HandlersInv, DownWhenFree, DownWhileSuspending,
                          DownWhileResuming, early_suspend_lock
<1> QED BY <1>6, <1>8, <1>10 DEF HandlersInv

(***************************************************************************)
(* unregister_early_suspend does too.                                      *)
(***************************************************************************)
LEMMA UnregisterHandlers ==
    ASSUME HandlersInv, NEW h \in Handlers, unregister_early_suspend(h)
    PROVE  HandlersInv'
<1>1. /\ ~early_suspend_lock
      /\ UNCHANGED <<state, position, syncPending, syncing, worker>>
      /\ calledDown' = calledDown \ {h}
  BY DEF unregister_early_suspend, suspendVars
<1>2. PICK i \in 1 .. Len(handlers) :
         handlers[i] = h /\ handlers' = Removal(handlers, i)
  BY DEF unregister_early_suspend, Removal
<1>3. handlers \in Seq(Handlers) /\ Len(handlers) \in Nat /\ i \in Nat
  BY DEF HandlersInv, ListTypeOK
<1>4. /\ handlers' \in Seq(Handlers) /\ Len(handlers') = Len(handlers) - 1
      /\ \A j \in 1 .. Len(handlers) - 1 :
            handlers'[j] = IF j < i THEN handlers[j] ELSE handlers[j + 1]
  <2>1. handlers' \in Seq(Handlers) /\ IsRemoval(handlers', handlers, i)
    BY <1>2, <1>3, Removed, Zenon
  <2> QED BY <2>1 DEF IsRemoval
<1>5. \A j \in 1 .. Len(handlers) : handlers[j] = h => j = i
  BY <1>2 DEF HandlersInv, ListDistinct
<1>6. ListTypeOK' /\ position = 0
  BY <1>1, <1>3, <1>4 DEF HandlersInv, ListTypeOK, DownWhenFree
<1>7. ListDistinct' /\ ListSorted'
  <2>1. \A j \in 1 .. Len(handlers) - 1 : \E m \in 1 .. Len(handlers) :
           /\ handlers'[j] = handlers[m]
           /\ m = IF j < i THEN j ELSE j + 1
    BY <1>3, <1>4
  <2> SUFFICES ASSUME NEW j \in 1 .. Len(handlers) - 1, NEW k \in 1 .. Len(handlers) - 1,
                      j < k
               PROVE  /\ handlers'[j] # handlers'[k]
                      /\ Level[handlers'[j]] <= Level[handlers'[k]]
    BY <1>3, <1>4 DEF ListDistinct, ListSorted
  <2>2. PICK m \in 1 .. Len(handlers) :
           handlers'[j] = handlers[m] /\ m = IF j < i THEN j ELSE j + 1
    BY <2>1
  <2>3. PICK n \in 1 .. Len(handlers) :
           handlers'[k] = handlers[n] /\ n = IF k < i THEN k ELSE k + 1
    BY <2>1
  <2>4. m < n
    BY <1>3, <2>2, <2>3
  <2>5. handlers[m] # handlers[n] /\ Level[handlers[m]] <= Level[handlers[n]]
    BY <1>3, <2>4 DEF HandlersInv, ListDistinct, ListSorted
  <2> QED BY <2>2, <2>3, <2>5
<1>8. Registered' = Registered \ {h}
  <2>1. ASSUME NEW g \in Registered' PROVE g \in Registered \ {h}
    <3>1. PICK j \in 1 .. Len(handlers) - 1 : handlers'[j] = g
      BY <1>4, <2>1 DEF Registered
    <3>2. \E m \in 1 .. Len(handlers) : g = handlers[m] /\ m # i
      BY <1>3, <1>4, <3>1
    <3> QED BY <1>5, <3>2 DEF Registered
  <2>2. ASSUME NEW g \in Registered \ {h} PROVE g \in Registered'
    <3>1. PICK m \in 1 .. Len(handlers) : handlers[m] = g
      BY <2>2 DEF Registered
    <3>2. m # i
      BY <1>2, <2>2, <3>1
    <3>3. \E j \in 1 .. Len(handlers) - 1 : handlers'[j] = g
      <4>1. CASE m < i
        BY <1>3, <1>4, <3>1, <4>1
      <4>2. CASE m > i
        <5>1. /\ m - 1 \in 1 .. Len(handlers) - 1 /\ ~(m - 1 < i)
              /\ (m - 1) + 1 = m
          BY <1>3, <4>2
        <5>2. handlers'[m - 1] = handlers[m]
          BY <1>3, <1>4, <5>1
        <5> QED BY <3>1, <5>1, <5>2
      <4> QED BY <1>3, <3>2, <4>1, <4>2
    <3> QED BY <1>4, <3>3 DEF Registered
  <2> QED BY <2>1, <2>2
<1>9. DownWhenFree' /\ DownWhileSuspending' /\ DownWhileResuming'
  BY <1>1, <1>6, <1>8 DEF HandlersInv, DownWhenFree, DownWhileSuspending,
                          DownWhileResuming, early_suspend_lock
<1> QED BY <1>6, <1>7, <1>9 DEF HandlersInv

(***************************************************************************)
(* A step that calls no hook, changes neither the list nor SUSPENDED and   *)
(* neither takes nor releases early_suspend_lock.                          *)
(***************************************************************************)
LEMMA QuietHandlers ==
    ASSUME HandlersInv, UNCHANGED <<handlers, calledDown, position>>,
           syncPending' \in BOOLEAN, syncing' \in BOOLEAN,
           "SUSPENDED" \in state' <=> "SUSPENDED" \in state,
           worker' = worker \/ (~early_suspend_lock /\ ~early_suspend_lock')
    PROVE  HandlersInv'
<1>1. ListTypeOK' /\ ListDistinct' /\ ListSorted'
  BY DEF HandlersInv, ListTypeOK, ListDistinct, ListSorted
<1>2. Registered' = Registered /\ \A n : FirstHandlers(n)' = FirstHandlers(n)
  BY DEF Registered, FirstHandlers
<1>3. early_suspend_lock' = early_suspend_lock
  BY DEF early_suspend_lock
<1>4. DownWhenFree'
  BY <1>2, <1>3 DEF HandlersInv, DownWhenFree
<1>5. DownWhileSuspending' /\ DownWhileResuming'
  <2>1. CASE worker' = worker
    BY <2>1 DEF HandlersInv, DownWhileSuspending, DownWhileResuming, FirstHandlers
  <2>2. CASE ~early_suspend_lock'
    BY <2>2 DEF DownWhileSuspending, DownWhileResuming, early_suspend_lock
  <2> QED BY <2>1, <2>2
<1> QED BY <1>1, <1>4, <1>5 DEF HandlersInv

(***************************************************************************)
(* The steps of early_suspend and late_resume that begin and end the       *)
(* calling of the hooks, and the calls themselves.                         *)
(***************************************************************************)
LEMMA HooksHandlers ==
    ASSUME HandlersInv, ControlTypeOK,
           \/ EarlySuspendBegins \/ CallSuspend \/ SuspendCalled
           \/ LateResumeBegins \/ CallResume \/ ResumeCalled
    PROVE  HandlersInv'
<1>1. /\ handlers \in Seq(Handlers) /\ Len(handlers) \in Nat
      /\ position \in 0 .. Len(handlers)
      /\ handlers' = handlers
      /\ syncPending' \in BOOLEAN /\ syncing' \in BOOLEAN
  <2>1. /\ handlers \in Seq(Handlers) /\ Len(handlers) \in Nat
        /\ position \in 0 .. Len(handlers)
        /\ syncPending \in BOOLEAN /\ syncing \in BOOLEAN
    BY DEF HandlersInv, ListTypeOK
  <2>2. /\ handlers' = handlers /\ syncing' = syncing
        /\ syncPending' = syncPending \/ syncPending' = TRUE
    BY DEF EarlySuspendBegins, CallSuspend, SuspendCalled, LateResumeBegins, CallResume,
           ResumeCalled
  <2> QED BY <2>1, <2>2, Zenon
<1>2. ListDistinct' /\ ListSorted'
  BY <1>1 DEF HandlersInv, ListDistinct, ListSorted
<1>3. Registered = FirstHandlers(Len(handlers)) /\ Registered' = Registered
  BY <1>1 DEF Registered, FirstHandlers
<1>4. FirstHandlers(0) = {} /\ \A n : FirstHandlers(n)' = FirstHandlers(n)
  BY <1>1 DEF FirstHandlers
<1>5. ASSUME NEW n \in 0 .. Len(handlers) - 1
      PROVE  FirstHandlers(n + 1) = FirstHandlers(n) \cup {handlers[n + 1]}
  <2>1. 1 .. n + 1 = (1 .. n) \cup {n + 1}
    BY <1>1
  <2> QED BY <2>1 DEF FirstHandlers
<1>6. CASE EarlySuspendBegins
  <2>1. /\ calledDown = {} /\ calledDown' = {} /\ position' = 0
        /\ worker' = "call_suspend" /\ "SUSPENDED" \in state'
    BY <1>6 DEF EarlySuspendBegins, WorkerAt, Goto, HandlersInv, DownWhenFree,
                early_suspend_lock, StateBits
  <2>2. ListTypeOK'
    BY <1>1, <2>1 DEF ListTypeOK
  <2>3. DownWhenFree' /\ DownWhileSuspending' /\ DownWhileResuming'
    BY <1>4, <2>1 DEF DownWhenFree, DownWhileSuspending, DownWhileResuming,
                      early_suspend_lock
  <2> QED BY <1>2, <2>2, <2>3 DEF HandlersInv
<1>7. CASE CallSuspend
  <2>1. /\ worker = "call_suspend" /\ worker' = worker /\ state' = state
        /\ position < Len(handlers) /\ position' = position + 1
        /\ calledDown' = calledDown \cup {handlers[position + 1]}
    BY <1>7 DEF CallSuspend, WorkerAt, suspendVars
  <2>2. "SUSPENDED" \in state /\ calledDown = FirstHandlers(position)
    BY <2>1 DEF HandlersInv, DownWhileSuspending
  <2>3. calledDown' = FirstHandlers(position + 1)
    BY <1>1, <1>5, <2>1, <2>2
  <2>4. ListTypeOK'
    BY <1>1, <2>1 DEF ListTypeOK
  <2>5. calledDown' = FirstHandlers(position)'
    BY <1>1, <2>1, <2>3 DEF FirstHandlers
  <2>6. DownWhenFree' /\ DownWhileSuspending' /\ DownWhileResuming'
    BY <2>1, <2>2, <2>5 DEF DownWhenFree, DownWhileSuspending, DownWhileResuming,
                            early_suspend_lock
  <2> QED BY <1>2, <2>4, <2>6 DEF HandlersInv
<1>8. CASE SuspendCalled
  <2>1. /\ worker = "call_suspend" /\ worker' = "release" /\ state' = state
        /\ position = Len(handlers) /\ position' = 0 /\ calledDown' = calledDown
    BY <1>8 DEF SuspendCalled, WorkerAt, Goto
  <2>2. "SUSPENDED" \in state /\ calledDown = FirstHandlers(position)
    BY <2>1 DEF HandlersInv, DownWhileSuspending
  <2>3. ListTypeOK'
    BY <1>1, <2>1 DEF ListTypeOK
  <2>4. DownWhenFree' /\ DownWhileSuspending' /\ DownWhileResuming'
    BY <1>3, <2>1, <2>2 DEF DownWhenFree, DownWhileSuspending, DownWhileResuming,
                            early_suspend_lock
  <2> QED BY <1>2, <2>3, <2>4 DEF HandlersInv
<1>9. CASE LateResumeBegins
  <2>1. /\ calledDown = Registered /\ calledDown' = Registered /\ position' = 0
        /\ worker' = "call_resume" /\ "SUSPENDED" \notin state'
    BY <1>9 DEF LateResumeBegins, WorkerAt, Goto, HandlersInv, DownWhenFree,
                early_suspend_lock
  <2>2. ListTypeOK'
    BY <1>1, <2>1 DEF ListTypeOK
  <2>3. Len(handlers) - 0 = Len(handlers)
    BY <1>1
  <2>4. calledDown' = FirstHandlers(Len(handlers) - position)'
    BY <1>1, <1>3, <2>1, <2>3 DEF FirstHandlers
  <2>5. DownWhenFree' /\ DownWhileSuspending' /\ DownWhileResuming'
    BY <2>1, <2>4 DEF DownWhenFree, DownWhileSuspending, DownWhileResuming,
                      early_suspend_lock
  <2> QED BY <1>2, <2>2, <2>5 DEF HandlersInv
<1>10. CASE CallResume
  <2> DEFINE n == Len(handlers) - position
  <2>1. /\ worker = "call_resume" /\ worker' = worker /\ state' = state
        /\ position < Len(handlers) /\ position' = position + 1
        /\ calledDown' = calledDown \ {handlers[n]}
    BY <1>10 DEF CallResume, WorkerAt, suspendVars
  <2>2. "SUSPENDED" \notin state /\ calledDown = FirstHandlers(n)
    BY <2>1 DEF HandlersInv, DownWhileResuming
  <2>3. n - 1 \in 0 .. Len(handlers) - 1 /\ (n - 1) + 1 = n
    BY <1>1, <2>1
  <2>4. FirstHandlers(n) = FirstHandlers(n - 1) \cup {handlers[n]}
    BY <1>5, <2>3
  <2>5. handlers[n] \notin FirstHandlers(n - 1)
    <3>1. n \in 1 .. Len(handlers) /\ Len(handlers) \in Nat
      BY <1>1, <2>1
    <3>2. ListDistinct
      BY DEF HandlersInv
    <3> HIDE DEF n
    <3>3. \A i \in 1 .. n - 1 : i \in 1 .. Len(handlers) /\ i # n
      BY <3>1
    <3>4. \A i \in 1 .. n - 1 : handlers[i] # handlers[n]
      BY <3>1, <3>2, <3>3 DEF ListDistinct
    <3> QED BY <3>4 DEF FirstHandlers
  <2>6. calledDown' = FirstHandlers(n - 1)
    BY <2>1, <2>2, <2>4, <2>5
  <2>7. ListTypeOK'
    BY <1>1, <2>1 DEF ListTypeOK
  <2>8. n - 1 = Len(handlers') - position'
    BY <1>1, <2>1
  <2>9. calledDown' = FirstHandlers(Len(handlers) - position)'
    BY <1>1, <2>6, <2>8 DEF FirstHandlers
  <2>10. DownWhenFree' /\ DownWhileSuspending' /\ DownWhileResuming'
    BY <2>1, <2>2, <2>9 DEF DownWhenFree, DownWhileSuspending, DownWhileResuming,
                            early_suspend_lock
  <2> QED BY <1>2, <2>7, <2>10 DEF HandlersInv
<1>11. CASE ResumeCalled
  <2>1. /\ worker = "call_resume" /\ worker' = "idle" /\ state' = state
        /\ position = Len(handlers) /\ position' = 0 /\ calledDown' = calledDown
    BY <1>11 DEF ResumeCalled, WorkerAt, Goto
  <2>2. Len(handlers) - position = 0
    BY <1>1, <2>1
  <2>3. "SUSPENDED" \notin state /\ calledDown = {}
    BY <1>4, <2>1, <2>2 DEF HandlersInv, DownWhileResuming
  <2>4. ListTypeOK'
    BY <1>1, <2>1 DEF ListTypeOK
  <2>5. DownWhenFree' /\ DownWhileSuspending' /\ DownWhileResuming'
    BY <2>1, <2>3 DEF DownWhenFree, DownWhileSuspending, DownWhileResuming,
                      early_suspend_lock
  <2> QED BY <1>2, <2>4, <2>5 DEF HandlersInv
<1> QED BY <1>6, <1>7, <1>8, <1>9, <1>10, <1>11

(***************************************************************************)
(* HandlersInv holds at boot and every step preserves it.                  *)
(***************************************************************************)
LEMMA HandlersInit == Init => HandlersInv
<1> SUFFICES ASSUME Init PROVE HandlersInv
  OBVIOUS
<1>1. /\ handlers = << >> /\ position = 0 /\ calledDown = {} /\ state = {}
      /\ syncPending = FALSE /\ syncing = FALSE /\ worker = "idle"
  BY DEF Init, SuspendInit, EarlySuspendInit
<1>2. Len(handlers) = 0 /\ handlers \in Seq(Handlers)
  BY <1>1
<1>3. ListTypeOK
  <2>1. position \in 0 .. Len(handlers)
    BY <1>1, <1>2
  <2> QED BY <1>1, <1>2, <2>1 DEF ListTypeOK
<1>4. ListDistinct /\ ListSorted
  BY <1>2 DEF ListDistinct, ListSorted
<1>5. DownWhenFree /\ DownWhileSuspending /\ DownWhileResuming
  BY <1>1 DEF DownWhenFree, DownWhileSuspending, DownWhileResuming
<1> QED BY <1>3, <1>4, <1>5 DEF HandlersInv

(***************************************************************************)
(* One case per group of steps that treats the handlers alike.             *)
(***************************************************************************)
LEMMA HandlersStep == CoreInv /\ HandlersInv /\ [Next]_vars => HandlersInv'
<1> SUFFICES ASSUME CoreInv, HandlersInv, [Next]_vars PROVE HandlersInv'
  OBVIOUS
<1>1. syncPending \in BOOLEAN /\ syncing \in BOOLEAN
  BY DEF HandlersInv, ListTypeOK
<1>2. ControlTypeOK /\ suspendQueue \in Seq(Works)
  BY DEF CoreInv, LockInv, WakeLockTypeOK
<1>3. CASE UserStore \/ Evdev \/ DriverStep \/ TimerStep \/ ClockStep \/ UNCHANGED vars
  <2>1. UNCHANGED <<worker, earlySuspendVars>>
    BY <1>3 DEF UserStore, wake_lock_store, wake_unlock_store, Evdev, DriverStep,
                TimerStep, ClockStep, suspendVars, vars
  <2> QED BY <1>1, <2>1, QuietHandlers DEF earlySuspendVars
<1>4. CASE state_store
  <2>1. UNCHANGED <<worker, handlers, calledDown, position, syncPending, syncing>>
    BY <1>4 DEF state_store, request_suspend_state
  <2>2. "SUSPENDED" \in state' <=> "SUSPENDED" \in state
    BY <1>4 DEF state_store, request_suspend_state
  <2> QED BY <1>1, <2>1, <2>2, QuietHandlers
<1>5. CASE HandlerRegistration
  BY <1>5, RegisterHandlers, UnregisterHandlers DEF HandlerRegistration
<1>6. CASE (run_workqueue \/ SuspendWork \/ WakeUp) /\ UNCHANGED earlySuspendVars
  <2>1. ~early_suspend_lock /\ ~early_suspend_lock'
    <3>1. CASE run_workqueue
      <4>1. worker = "idle" /\ worker' = Head(suspendQueue) /\ suspendQueue # << >>
        BY <3>1 DEF run_workqueue, WorkerAt, Goto
      <4>2. Head(suspendQueue) \in Works
        BY <1>2, <4>1, HeadTailProperties
      <4> QED BY <4>1, <4>2 DEF early_suspend_lock, Works
    <3>2. CASE SuspendWork \/ WakeUp
      BY <3>2 DEF SuspendWork, SuspendAborts, SuspendStarts, RecordEntryEvent, pm_suspend,
                  SuspendPrepare, FreezeUserSpace, FreezeTasks, FreezeRound, SuspendDevices,
                  power_suspend_late, DisableIrqs, SuspendEnter, WakeUp, ResumeDevices,
                  SuspendFinish, SuspendExit, WorkerAt, Goto, early_suspend_lock
    <3> QED BY <1>6, <3>1, <3>2
  <2> QED BY <1>1, <1>6, <2>1, QuietHandlers DEF earlySuspendVars
<1>7. CASE EarlySuspendAborts \/ ReleaseMain \/ LateResumeAborts
  <2>1. /\ ~early_suspend_lock /\ ~early_suspend_lock' /\ UNCHANGED earlySuspendVars
    BY <1>7 DEF EarlySuspendAborts, ReleaseMain, LateResumeAborts, WorkerAt, Goto,
                early_suspend_lock
  <2> QED BY <1>1, <2>1, QuietHandlers DEF earlySuspendVars
<1>8. CASE \/ EarlySuspendBegins \/ CallSuspend \/ SuspendCalled
           \/ LateResumeBegins \/ CallResume \/ ResumeCalled
  BY <1>2, <1>8, HooksHandlers
<1>9. CASE SyncStep
  <2>1. /\ UNCHANGED <<worker, state, handlers, calledDown, position>>
        /\ syncPending' \in BOOLEAN /\ syncing' \in BOOLEAN
    BY <1>1, <1>9 DEF SyncStep, SyncBegins, SyncEnds, suspendVars
  <2> QED BY <2>1, QuietHandlers
<1> QED
  BY <1>3, <1>4, <1>5, <1>6, <1>7, <1>8, <1>9 DEF Next, WorkerStep, EarlyWork, WakeUpStep

(***************************************************************************)
(* The inductive invariant of the power manager.                           *)
(***************************************************************************)
LEMMA InvariantHolds == Spec => [](CoreInv /\ HandlersInv)
<1>1. Init => EvdevTimed
  BY ClientLocksAssumption DEF Init, WakeLockInit, EvdevTimed, Permanent
<1>2. Init => CoreInv /\ HandlersInv /\ EvdevTimed
  BY <1>1, CoreInit, HandlersInit
<1>3. /\ CoreInv /\ HandlersInv /\ EvdevTimed /\ [Next]_vars
         => (CoreInv /\ HandlersInv /\ EvdevTimed)'
  BY CoreStep, HandlersStep, EvdevTimedStep
<1> QED BY <1>2, <1>3, PTL DEF Spec

(***************************************************************************)
(* What the invariant implies in a state.                                  *)
(***************************************************************************)
LEMMA TypesFollow == CoreInv /\ HandlersInv => TypeOK
<1> SUFFICES ASSUME CoreInv, HandlersInv PROVE TypeOK
  OBVIOUS
<1>1. /\ handlers \in Seq(Handlers) /\ Len(handlers) \in Nat
      /\ position \in 0 .. Len(handlers)
  BY DEF HandlersInv, ListTypeOK
<1>2. \A i \in 1 .. Len(handlers) : handlers[i] \in Handlers
  BY <1>1
<1>3. calledDown \subseteq Handlers
  <2>1. CASE ~early_suspend_lock
    BY <1>2, <2>1 DEF HandlersInv, DownWhenFree, Registered
  <2>2. CASE worker = "call_suspend"
    <3>1. \A i \in 1 .. position : i \in 1 .. Len(handlers)
      BY <1>1
    <3> QED BY <1>2, <2>2, <3>1 DEF HandlersInv, DownWhileSuspending, FirstHandlers
  <2>3. CASE worker = "call_resume"
    <3>1. \A i \in 1 .. Len(handlers) - position : i \in 1 .. Len(handlers)
      BY <1>1
    <3> QED BY <1>2, <2>3, <3>1 DEF HandlersInv, DownWhileResuming, FirstHandlers
  <2> QED BY <2>1, <2>2, <2>3 DEF early_suspend_lock
<1> QED
  BY <1>3 DEF TypeOK, CoreInv, LockInv, ControlTypeOK, HandlersInv, ListTypeOK

(***************************************************************************)
(* The first n handlers of a sorted list are closed under lower levels.    *)
(***************************************************************************)
LEMMA OrderFollows == HandlersInv => HandlersFollowState
<1> SUFFICES ASSUME HandlersInv PROVE HandlersFollowState
  OBVIOUS
<1>1. /\ handlers \in Seq(Handlers) /\ Len(handlers) \in Nat
      /\ position \in 0 .. Len(handlers)
      /\ \A g \in Handlers : Level[g] \in Nat
  BY LevelAssumption DEF HandlersInv, ListTypeOK
<1>2. ASSUME NEW n \in 0 .. Len(handlers), calledDown = FirstHandlers(n),
             NEW i \in 1 .. Len(handlers), NEW j \in 1 .. Len(handlers),
             Level[handlers[i]] < Level[handlers[j]], handlers[j] \in calledDown
      PROVE  handlers[i] \in calledDown
  <2>1. PICK k \in 1 .. n : handlers[k] = handlers[j]
    BY <1>2 DEF FirstHandlers
  <2>2. k \in 1 .. Len(handlers) /\ j = k
    BY <1>1, <2>1 DEF HandlersInv, ListDistinct
  <2>3. handlers[i] \in Handlers /\ handlers[j] \in Handlers
    BY <1>1
  <2>4. i < j
    BY <1>1, <1>2, <2>3 DEF HandlersInv, ListSorted
  <2>5. i \in 1 .. n
    BY <1>1, <2>2, <2>4
  <2> QED BY <1>2, <2>5 DEF FirstHandlers
<1>3. early_suspend_lock => \E n \in 0 .. Len(handlers) : calledDown = FirstHandlers(n)
  <2>1. Len(handlers) - position \in 0 .. Len(handlers)
    BY <1>1
  <2> QED
    BY <1>1, <2>1 DEF early_suspend_lock, HandlersInv, DownWhileSuspending, DownWhileResuming
<1> QED
  BY <1>2, <1>3 DEF HandlersFollowState, HandlersInv, DownWhenFree

(***************************************************************************)
(* Asleep, main_wake_lock is released, so the state is fully suspended.    *)
(***************************************************************************)
LEMMA SleepFollows == CoreInv /\ HandlersInv => SleepOnlyWhenAsked
<1> SUFFICES ASSUME CoreInv, HandlersInv, worker = "asleep"
             PROVE  /\ requested_suspend_state = "mem"
                    /\ calledDown = Registered
                    /\ active \cap (UserLocks \cup {Main}) = {}
  BY DEF SleepOnlyWhenAsked
<1>1. active \cap (UserLocks \cup {Main}) = {}
  BY DEF CoreInv, NoUserLockPastLate, PastLateCheck
<1>2. state = StateBits
  BY <1>1 DEF CoreInv, MainHeldUnlessSuspended
<1> QED
  BY <1>1, <1>2 DEF CoreInv, RequestRecorded, HandlersInv, DownWhenFree,
                    early_suspend_lock, StateBits

(***************************************************************************)
(* The properties of the power manager, for all its executions.            *)
(***************************************************************************)
\* Every variable keeps its type: no lock flag outlives the lock it is about.
THEOREM TypeCorrect == Spec => []TypeOK
BY InvariantHolds, TypesFollow, PTL

\* expire_timer always covers the locks with a deadline.
THEOREM TimerCorrect == Spec => []TimerCoversLocks
<1>1. CoreInv => TimerCoversLocks
  BY DEF CoreInv, LockInv
<1> QED BY <1>1, InvariantHolds, PTL

\* The time the device is kept awake is charged to the locks that keep it awake.
THEOREM ChargingCorrect == Spec => []SleepTimeCharged
<1>1. CoreInv => SleepTimeCharged
  BY DEF CoreInv, LockInv
<1> QED BY <1>1, InvariantHolds, PTL

\* Something always leads to the next suspend attempt.
THEOREM SuspendNeverLost == Spec => []SuspendNotLost
<1>1. CoreInv => SuspendNotLost
  BY DEF CoreInv
<1> QED BY <1>1, InvariantHolds, PTL

\* main_wake_lock is released only in the fully suspended state.
THEOREM MainHeld == Spec => []MainHeldUnlessSuspended
<1>1. CoreInv => MainHeldUnlessSuspended
  BY DEF CoreInv
<1> QED BY <1>1, InvariantHolds, PTL

\* The hooks are called in level order and follow the SUSPENDED bit.
THEOREM HandlersCorrect == Spec => []HandlersFollowState
BY InvariantHolds, OrderFollows, PTL

\* The device sleeps only when user space asked, with every handler down and
\* no lock of user space held.
THEOREM SleepCorrect == Spec => []SleepOnlyWhenAsked
BY InvariantHolds, SleepFollows, PTL

\* A timeout that fits becomes a number of jiffies that is positive and not shorter.
LEMMA TimeoutRoundedUp ==
    ASSUME NEW ns \in TimeoutArgs, TimeoutFits(ns)
    PROVE  /\ NsToJiffies(ns) \in Nat \ {0}
           /\ NsToJiffies(ns) * NsPerJiffy >= ns
<1> DEFINE sum == ns + NsPerJiffy - 1
           jiffies == sum \div NsPerJiffy
           stored == IF jiffies = 0 THEN 1 ELSE jiffies
           half == LongSize \div 2
<1>1. ns \in Nat /\ NsPerJiffy \in Nat \ {0} /\ UllSize \in Nat \ {0} /\ LongSize \in Nat \ {0}
  BY WidthAssumption
<1>2. sum \in Nat /\ sum < UllSize /\ jiffies < half /\ half > 1 /\ ns = sum - NsPerJiffy + 1
  BY <1>1, WidthAssumption DEF TimeoutFits
<1>3. half \in Int /\ half <= LongSize
  BY <1>1
<1>4. sum % UllSize = sum
  BY <1>1, <1>2
<1>5. NsToJiffies(ns) = ToLong(stored)
  BY <1>4 DEF NsToJiffies
<1> HIDE DEF sum
<1>6. jiffies \in Nat /\ sum < jiffies * NsPerJiffy + NsPerJiffy
  BY <1>1, <1>2
<1> HIDE DEF jiffies
<1>7. stored \in Nat \ {0} /\ stored < half /\ stored >= jiffies
  BY <1>2, <1>3, <1>6
<1> HIDE DEF stored, half
<1>8. stored % LongSize = stored
  BY <1>1, <1>3, <1>7
<1>9. ToLong(stored) = stored
  BY <1>7, <1>8 DEF ToLong, half
<1>10. jiffies * NsPerJiffy >= ns
  <2>1. jiffies * NsPerJiffy \in Int
    BY <1>1, <1>6
  <2> QED BY <1>1, <1>2, <1>6, <2>1
<1>11. stored * NsPerJiffy >= jiffies * NsPerJiffy
  BY <1>1, <1>6, <1>7
<1>12. stored * NsPerJiffy \in Int /\ jiffies * NsPerJiffy \in Int
  BY <1>1, <1>6, <1>7
<1> QED BY <1>1, <1>5, <1>7, <1>9, <1>10, <1>11, <1>12

(***************************************************************************)
(* A write of a name and a timeout to /sys/power/wake_lock holds the lock  *)
(* for at least that time, in whatever state the locks and the suspend     *)
(* thread are, for every timeout that the widths of the code can hold.     *)
(***************************************************************************)
THEOREM RequestedTimeCorrect == Spec => RequestedTimeHonoured
<1> DEFINE Honoured ==
      \A l \in UserLocks, ns \in TimeoutArgs :
         TimeoutFits(ns) /\ wake_lock_store(l, ns)
            => l \in active' /\ left'[l] * NsPerJiffy >= ns
<1>1. CoreInv => [Honoured]_vars
  <2> SUFFICES ASSUME CoreInv, NEW l \in UserLocks, NEW ns \in TimeoutArgs,
                      TimeoutFits(ns), wake_lock_store(l, ns)
               PROVE  l \in active' /\ left'[l] * NsPerJiffy >= ns
    OBVIOUS
  <2> DEFINE timeout == NsToJiffies(ns)
             S == active \cup {l}
             A == autoExpire \cup {l}
             L == [left EXCEPT ![l] = timeout]
  <2>1. timeout \in Nat \ {0} /\ timeout * NsPerJiffy >= ns
    BY TimeoutRoundedUp
  <2>2. lookup_timeout(ns) = timeout
    BY NoTimeoutAssumption DEF lookup_timeout
  <2> HIDE DEF timeout
  <2>3. Deadline(timeout) = timeout /\ (timeout # 0) = TRUE
    BY <2>1 DEF Deadline
  <2>4. wake_lock_internal(l, timeout, TRUE, suspendQueue)
    <3>1. wake_lock_internal(l, Deadline(timeout), timeout # 0, suspendQueue)
      BY <2>2 DEF wake_lock_store
    <3> QED BY <2>3, <3>1
  <2>5. Reevaluate(S, A, L, suspendQueue)
    BY <2>4 DEF wake_lock_internal
  <2>6. active' = S \ Expired(S, A, L) /\ left' = L
    BY <2>5 DEF Reevaluate
  <2>7. L[l] = timeout
    BY UserLocksAssumption DEF CoreInv, LockInv, WakeLockTypeOK
  <2>8. l \notin Expired(S, A, L)
    BY <2>1, <2>7 DEF Expired
  <2> QED BY <2>1, <2>6, <2>7, <2>8
<1>2. Spec => [][Honoured]_vars
  BY <1>1, InvariantHolds, PTL
<1> QED BY <1>2 DEF RequestedTimeHonoured

-----------------------------------------------------------------------------
(***************************************************************************)
(* The drawing handshake, for every length of the wait.  Its two hooks are *)
(* called in turn, which HandlersCorrect says of all handlers.             *)
(***************************************************************************)
FbInv == FbTypeOK /\ StoppedMeansStopped

(***************************************************************************)
(* Every step of the work, the clock and the display thread preserves the  *)
(* invariant.                                                              *)
(***************************************************************************)
LEMMA FbStep == FbInv /\ [FbNext]_fbVars => FbInv'
<1> SUFFICES ASSUME FbInv, [FbNext]_fbVars PROVE FbInv'
    OBVIOUS
<1> USE HZAssumption DEF FbInv, FbTypeOK, StoppedMeansStopped, Drawing, FbStates,
        DrawerSteps
<1>1. CASE stop_drawing_early_suspend
    BY <1>1 DEF stop_drawing_early_suspend, wake_up
<1>2. CASE HookStep
  <2>1. CASE StopWaits
    BY <2>1 DEF StopWaits, GoesToSleep
  <2>2. CASE StopReturns
    <3>1. 0 \in 0 .. HZ
        OBVIOUS
    <3>2. asleep' \subseteq {"hook", "drawer"}
        BY <2>2 DEF StopReturns
    <3> QED
        BY <2>2, <3>1, <3>2 DEF StopReturns
  <2> QED
    BY <1>2, <2>1, <2>2 DEF HookStep
<1>3. CASE TimeoutTicks
    BY <1>3 DEF TimeoutTicks
<1>4. CASE start_drawing_late_resume
    BY <1>4 DEF start_drawing_late_resume, wake_up
<1>5. CASE sleep_show_begins
    BY <1>5 DEF sleep_show_begins
<1>6. CASE wake_show_begins
    BY <1>6 DEF wake_show_begins, wake_up
<1>7. CASE ReadStep
    BY <1>7 DEF ReadStep, sleep_show_waits, sleep_show_returns, wake_show_waits,
                wake_show_returns, GoesToSleep
<1>8. CASE sleep_show_interrupted
    BY <1>8 DEF sleep_show_interrupted
<1>9. CASE wake_show_interrupted
    BY <1>9 DEF wake_show_interrupted
<1>10. CASE UNCHANGED fbVars
    BY <1>10 DEF fbVars
<1> QED
    BY <1>1, <1>2, <1>3, <1>4, <1>5, <1>6, <1>7, <1>8, <1>9, <1>10 DEF FbNext

(***************************************************************************)
(* FB_STATE_STOPPED_DRAWING is set only while user space does not draw,    *)
(* for any HZ.                                                             *)
(***************************************************************************)
THEOREM StoppedCorrect == FbSpec => []StoppedMeansStopped
<1>1. FbInit => FbInv
    BY HZAssumption
    DEF FbInit, FbInv, FbTypeOK, StoppedMeansStopped, Drawing, FbStates, DrawerSteps
<1>2. FbInv => StoppedMeansStopped
    BY DEF FbInv
<1> QED
    BY <1>1, <1>2, FbStep, PTL DEF FbSpec
=============================================================================
