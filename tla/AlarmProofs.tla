---------------------------- MODULE AlarmProofs -----------------------------
(***************************************************************************)
(* The alarm queues of drivers/rtc/alarm.c for any alarms, times and       *)
(* settings of the clock: a queue's timer is set for its first alarm, the  *)
(* elapsed realtime survives alarm_set_rtc, and the system does not sleep  *)
(* through an alarm.  At the end, the device of alarm-dev.c for any files, *)
(* threads and alarm types.                                                *)
(***************************************************************************)
EXTENDS Alarm, AlarmDev, FiniteSetTheorems, WellFoundedInduction, TLAPS

Alarms == [id : Ids, expires : Times]
Timers == [on : BOOLEAN, at : Int]
Powers == {"on", "frozen", "marked", "cancelled", "armed", "down", "asleep", "resuming"}
Settings == {"idle", "stopped", "set", "failed", "rtc", "end"}

ClockTypeInv ==
    /\ now \in Nat /\ wallOff \in Int /\ rtcOff \in Int /\ slept \in Int
    /\ delta \in Int /\ stopped_time \in Int /\ time \in Int /\ error \in Int /\ sets \in Nat
    /\ rtc_lock \in Int /\ rtc_alarm \in Int

QueueTypeInv ==
    /\ queue \in [Types -> SUBSET Alarms]
    /\ timer \in [Types -> Timers]

ModeInv ==
    /\ stopped \in BOOLEAN /\ suspended \in BOOLEAN
    /\ power \in Powers /\ setting \in Settings
    /\ stopped <=> setting \in {"stopped", "set", "failed"}
    /\ suspended <=> power \notin {"on", "frozen"}
    /\ setting # "idle" => power = "on"

UniqueInv == \A q \in Types : \A a, b \in queue[q] : a.id = b.id => a = b

ArmedInv == \A q \in Types \ {SYSTEMTIME} : Armed(q)

(***************************************************************************)
(* alarm_set_rtc changes delta before the wall clock: in between the two   *)
(* differ by the change asked for.                                         *)
(***************************************************************************)
ElapsedInv ==
    wallOff - delta + error = IF setting = "stopped" THEN stopped_time - time ELSE 0

\* A timer stays as it is while its queue waits for alarm_resume.
NoLaterInv ==
    suspended => \A q \in Types \cap WakeupTypes : \A a \in queue[q] :
                    timer[q].at <= Delta(q) + a.expires

(***************************************************************************)
(* The second that the RTC is set to does not begin after any of these     *)
(* timers, and has not passed.                                             *)
(***************************************************************************)
RtcInv ==
    /\ now + rtcOff >= 0 /\ (setting # "idle" => time >= 0)
    /\ power \in {"on", "frozen", "marked", "cancelled"} => rtc_alarm = -1
    /\ power \in {"armed", "down", "asleep"} /\ rtc_alarm # -1 =>
          /\ now + rtcOff <= rtc_alarm * TPS
          /\ \A q \in Wakeups : rtc_alarm * TPS <= timer[q].at - wallOff + rtcOff
    /\ power = "armed" => rtc_alarm = time \/ (rtc_alarm = -1 /\ time <= RtcSecond)
    /\ power = "down" /\ Wakeups # {} => rtc_alarm # -1 \/ Locked
    /\ power = "asleep" /\ Wakeups # {} => rtc_alarm # -1

-----------------------------------------------------------------------------
\* Every set of times has a first one.
LEMMA LeastElement ==
    ASSUME NEW S \in SUBSET Nat, S # {}
    PROVE  \E m \in S : \A x \in S : m <= x
<1> DEFINE R == OpToRel(<, Nat)
<1>1. IsWellFoundedOn(R, Nat)
    BY NatLessThanWellFounded
<1>2. \A x, y \in Nat : <<y, x>> \in R <=> y < x
    BY DEF OpToRel
<1> HIDE DEF R
<1>3. \E m \in S : \A x \in S : ~(<<x, m>> \in R)
    BY <1>1, WFMin
<1>4. PICK m \in S : \A x \in S : ~(<<x, m>> \in R)
    BY <1>3
<1>5. ASSUME NEW x \in S PROVE m <= x
    <2>1. x \in Nat /\ m \in Nat /\ ~(x < m)
        BY <1>2, <1>4, Zenon
    <2>2. QED
        BY <2>1
<1>6. QED
    BY <1>5, Zenon

\* First is the earliest expiry in a queue that has alarms.
LEMMA FirstFacts ==
    ASSUME NEW alarms \in SUBSET Alarms, alarms # {}
    PROVE  /\ First(alarms) \in Nat
           /\ \E a \in alarms : a.expires = First(alarms)
           /\ \A a \in alarms : First(alarms) <= a.expires
<1> DEFINE S == {a.expires : a \in alarms}
<1>1. S \in SUBSET Nat /\ S # {}
    BY TimeAssumption DEF Alarms
<1>2. \E t \in S : \A x \in S : t <= x
    BY <1>1, LeastElement
<1>3. \E t \in S : \A a \in alarms : t <= a.expires
    BY <1>2
<1>4. First(alarms) \in S /\ \A a \in alarms : First(alarms) <= a.expires
    BY <1>3 DEF First
<1>5. QED
    BY <1>1, <1>4

\* An alarm that none comes before is the first.
LEMMA FirstIs ==
    ASSUME NEW alarms \in SUBSET Alarms, NEW a \in alarms, \A b \in alarms : a.expires <= b.expires
    PROVE  First(alarms) = a.expires
<1>1. PICK b \in alarms : b.expires = First(alarms) /\ \A c \in alarms : First(alarms) <= c.expires
    BY FirstFacts
<1>2. a.expires \in Nat /\ b.expires \in Nat
    BY TimeAssumption DEF Alarms
<1>3. QED
    BY <1>1, <1>2

\* What \div rounds to; the RTC's whole seconds.
LEMMA DivFacts ==
    ASSUME NEW x \in Int, NEW n \in Nat \ {0}
    PROVE  x \div n \in Int /\ (x \div n) * n <= x /\ x < (x \div n) * n + n
OBVIOUS

\* A later second begins after the earlier one has ended.
LEMMA MulMono ==
    ASSUME NEW k \in Int, NEW l \in Int, k < l, NEW n \in Nat \ {0}
    PROVE  k * n + n <= l * n
OBVIOUS

\* Seconds do not go back when time passes.
LEMMA DivMono ==
    ASSUME NEW x \in Int, NEW n \in Nat \ {0}
    PROVE  x \div n <= (x + 1) \div n
<1> DEFINE k == x \div n
           l == (x + 1) \div n
<1>1. k \in Int /\ k * n <= x
    BY DivFacts
<1>2. x + 1 \in Int
    OBVIOUS
<1>3. l \in Int /\ x + 1 < l * n + n
    BY <1>2, DivFacts
<1> HIDE DEF k, l
<1>4. SUFFICES ASSUME l < k PROVE FALSE
    BY <1>1, <1>3 DEF k, l
<1>5. l * n + n <= k * n
    BY <1>1, <1>3, <1>4, MulMono
<1>6. k * n \in Int /\ l * n \in Int
    BY <1>1, <1>3
<1>7. QED
    BY <1>1, <1>3, <1>5, <1>6

\* The clocks are integers, and the RTC's second is the one we are in.
LEMMA ClockFacts ==
    ASSUME ClockTypeInv
    PROVE  /\ Wall \in Int /\ RtcSecond \in Int /\ Forever \in Int
           /\ \A q \in Types : Delta(q) \in Int
           /\ RtcSecond * TPS <= now + rtcOff /\ now + rtcOff < RtcSecond * TPS + TPS
<1>1. now + rtcOff \in Int
    BY DEF ClockTypeInv
<1>2. RtcSecond \in Int /\ RtcSecond * TPS <= now + rtcOff /\ now + rtcOff < RtcSecond * TPS + TPS
    BY <1>1, DivFacts, TimeAssumption DEF RtcSecond
<1>3. Wall \in Int /\ Forever \in Int /\ \A q \in Types : Delta(q) \in Int
    BY TimeAssumption DEF ClockTypeInv, Wall, Forever, Delta
<1>4. QED
    BY <1>2, <1>3

\* The earlier of the wakeup queues' timers, and the second of the RTC before it.
LEMMA RtcAlarmFacts ==
    ASSUME ClockTypeInv, QueueTypeInv, Wakeups # {}
    PROVE  /\ RtcAlarmTime \in Int
           /\ \A q \in Wakeups : RtcAlarmTime * TPS <= timer[q].at - wallOff + rtcOff
<1> DEFINE at == CHOOSE t \in {timer[q].at : q \in Wakeups} : \A q \in Wakeups : t <= timer[q].at
           rtc_delta == Wall - RtcSecond * TPS
<1>1. \A q \in Wakeups : q \in {"RTC_WAKEUP", "ELAPSED_REALTIME_WAKEUP"} /\ timer[q].at \in Int
    BY DEF Wakeups, WakeupTypes, QueueTypeInv, Timers
<1>2. \E q \in Wakeups : \A r \in Wakeups : timer[q].at <= timer[r].at
    BY <1>1
<1>3. \E t \in {timer[q].at : q \in Wakeups} : \A q \in Wakeups : t <= timer[q].at
    BY <1>2
<1>4. at \in {timer[q].at : q \in Wakeups} /\ \A q \in Wakeups : at <= timer[q].at
    BY <1>3
<1>5. at \in Int
    BY <1>1, <1>4
<1>6. RtcAlarmTime = (at - rtc_delta) \div TPS
    BY DEF RtcAlarmTime
<1> HIDE DEF at
<1>7. TPS \in Nat \ {0}
    BY TimeAssumption
<1>8. /\ RtcSecond * TPS \in Int /\ RtcSecond * TPS <= now + rtcOff
      /\ Wall = now + wallOff /\ now \in Int /\ wallOff \in Int /\ rtcOff \in Int
    BY <1>7, ClockFacts DEF Wall, ClockTypeInv
<1>9. rtc_delta \in Int /\ wallOff - rtcOff <= rtc_delta
    BY <1>8
<1> HIDE DEF rtc_delta
<1>10. at - rtc_delta \in Int
    BY <1>5, <1>9
<1>11. RtcAlarmTime \in Int /\ RtcAlarmTime * TPS <= at - rtc_delta
    BY <1>6, <1>7, <1>10, DivFacts
<1>12. RtcAlarmTime * TPS \in Int
    BY <1>7, <1>11
<1>13. RtcAlarmTime * TPS <= at - wallOff + rtcOff
    BY <1>5, <1>8, <1>9, <1>11, <1>12
<1>14. QED
    BY <1>1, <1>4, <1>5, <1>8, <1>11, <1>12, <1>13

\* update_timer_locked leaves a timer.
LEMMA UpdatedType ==
    ASSUME ClockTypeInv, NEW q \in Types, NEW old \in Timers, NEW alarms \in SUBSET Alarms,
           NEW is_stopped, NEW is_suspended
    PROVE  Updated(q, old, alarms, is_stopped, is_suspended) \in Timers
<1>1. alarms # {} => [on |-> TRUE, at |-> Delta(q) + First(alarms)] \in Timers
    BY ClockFacts, FirstFacts DEF Timers
<1>2. QED
    BY <1>1 DEF Updated

\* What starting or cancelling an alarm does to its queue, and to no other.
LEMMA RequeueFacts ==
    ASSUME ClockTypeInv, QueueTypeInv, NEW q \in Types, NEW alarms \in SUBSET Alarms,
           NEW head_changed, NEW head_removed, Requeue(q, alarms, head_changed, head_removed)
    PROVE  /\ queue' \in [Types -> SUBSET Alarms] /\ timer' \in [Types -> Timers] /\ rtc_lock' \in Int
           /\ queue'[q] = alarms
           /\ \A u \in Types \ {q} : queue'[u] = queue[u] /\ timer'[u] = timer[u]
           /\ head_changed => timer'[q] = Updated(q, timer[q], alarms, Stopped(q), suspended)
           /\ ~head_changed => timer'[q] = timer[q]
           /\ UNCHANGED <<delta, stopped, stopped_time, suspended>>
<1>1. queue' = [queue EXCEPT ![q] = alarms] /\ UNCHANGED <<delta, stopped, stopped_time, suspended>>
    BY DEF Requeue
<1>2. CASE head_changed
    <2> DEFINE new == Updated(q, timer[q], alarms, Stopped(q), suspended)
    <2>1. timer' = [timer EXCEPT ![q] = new] /\ rtc_lock' = LockUpdated(q, alarms, head_removed)
        BY <1>2 DEF Requeue
    <2>2. new \in Timers
        BY UpdatedType DEF QueueTypeInv
    <2>3. rtc_lock' \in Int
        BY <2>1, TimeAssumption DEF LockUpdated, ClockTypeInv
    <2> HIDE DEF new
    <2>4. timer' \in [Types -> Timers] /\ timer'[q] = new /\ \A u \in Types \ {q} : timer'[u] = timer[u]
        BY <2>1, <2>2 DEF QueueTypeInv
    <2>5. QED
        BY <1>1, <1>2, <2>3, <2>4 DEF QueueTypeInv, new
<1>3. CASE ~head_changed
    BY <1>1, <1>3 DEF Requeue, QueueTypeInv, ClockTypeInv
<1>4. QED
    BY <1>2, <1>3

\* The alarms of a queue without those of one id, and with a new one.
Others(q, i) == {a \in queue[q] : a.id # i}
WithAlarm(q, i, t) == Others(q, i) \cup {[id |-> i, expires |-> t]}

\* alarm_start_range replaces the alarm, and updates the timer when it has to.
LEMMA StartRequeues ==
    ASSUME ClockTypeInv, QueueTypeInv, NEW q \in Types, NEW i \in Ids, NEW t \in Times,
           alarm_start(q, i, t)
    PROVE  /\ WithAlarm(q, i, t) \in SUBSET Alarms
           /\ \E was_first \in BOOLEAN :
                 /\ ~was_first => ~(Heads(q) # {} /\ Heads(q) \subseteq queue[q] \ Others(q, i))
                 /\ Requeue(q, WithAlarm(q, i, t), (\A a \in Others(q, i) : t < a.expires) \/ was_first, was_first)
<1> DEFINE only == Heads(q) # {} /\ Heads(q) \subseteq queue[q] \ Others(q, i)
           one == \E a \in Heads(q) : a.id = i
<1>1. WithAlarm(q, i, t) \in SUBSET Alarms
    BY DEF WithAlarm, Others, QueueTypeInv, Alarms
<1>2. PICK was_first \in {only, one} :
         Requeue(q, WithAlarm(q, i, t), (\A a \in Others(q, i) : t < a.expires) \/ was_first, was_first)
    BY Zenon DEF alarm_start, WithAlarm, Others
<1>3. only \in BOOLEAN /\ one \in BOOLEAN
    OBVIOUS
<1>4. only => one
    BY DEF Others, Heads
<1> HIDE DEF only, one
<1>5. was_first \in BOOLEAN /\ (~was_first => ~only)
    BY <1>3, <1>4, Zenon
<1>6. QED
    BY <1>1, <1>2, <1>5, Zenon DEF only

\* alarm_try_to_cancel removes an alarm, and updates the timer if it was first.
LEMMA CancelRequeues ==
    ASSUME NEW q \in Types, NEW i \in Ids, alarm_try_to_cancel(q, i)
    PROVE  \E a \in queue[q], first \in BOOLEAN :
              (~first => Heads(q) # {a}) /\ Requeue(q, queue[q] \ {a}, first, TRUE)
<1>1. PICK a \in queue[q] : \E first \in {Heads(q) = {a}, a \in Heads(q)} :
                               Requeue(q, queue[q] \ {a}, first, TRUE)
    BY Zenon DEF alarm_try_to_cancel
<1> DEFINE only == Heads(q) = {a}
           one == a \in Heads(q)
<1>2. PICK first \in {only, one} : Requeue(q, queue[q] \ {a}, first, TRUE)
    BY <1>1
<1>3. only \in BOOLEAN /\ one \in BOOLEAN /\ (only => one)
    OBVIOUS
<1> HIDE DEF only, one
<1>4. first \in BOOLEAN /\ (~first => ~only)
    BY <1>3, Zenon
<1>5. QED
    BY <1>2, <1>4, Zenon DEF only

\* hrtimer_try_to_cancel stops a timer and leaves its expiry.
LEMMA StoppedTimer ==
    ASSUME NEW r \in Timers
    PROVE  [r EXCEPT !.on = FALSE] \in Timers /\ [r EXCEPT !.on = FALSE].at = r.at
BY DEF Timers

\* The clocks, the RTC's alarm and the lock stay integers.
LEMMA ClockTypeStep ==
    ASSUME ClockTypeInv, QueueTypeInv, Next
    PROVE  ClockTypeInv'
<1> USE TimeAssumption, SetAssumption
<1>1. ASSUME NEW q \in Types, NEW i \in Ids, NEW t \in Times, alarm_start(q, i, t) PROVE ClockTypeInv'
    <2>1. rtc_lock' \in Int
        <3>1. PICK head_changed, was_first : Requeue(q, WithAlarm(q, i, t), head_changed, was_first)
            BY <1>1, StartRequeues
        <3>2. WithAlarm(q, i, t) \in SUBSET Alarms
            BY <1>1, StartRequeues
        <3>3. QED
            BY <3>1, <3>2, RequeueFacts
    <2>2. QED
        BY <1>1, <2>1 DEF alarm_start, Requeue, ClockTypeInv, clocks, setter
<1>2. ASSUME NEW q \in Types, NEW i \in Ids, alarm_try_to_cancel(q, i) PROVE ClockTypeInv'
    <2>1. rtc_lock' \in Int
        BY <1>2 DEF alarm_try_to_cancel, Requeue, LockUpdated, ClockTypeInv
    <2>2. QED
        BY <1>2, <2>1 DEF alarm_try_to_cancel, Requeue, ClockTypeInv, clocks, setter
<1>3. ASSUME NEW q \in Types, alarm_timer_triggered(q) PROVE ClockTypeInv'
    BY <1>3 DEF alarm_timer_triggered, LockUpdated, ClockTypeInv, clocks, setter
<1>4. ASSUME NEW new \in NewTimes, set_rtc_stops(new) PROVE ClockTypeInv'
    BY <1>4, ClockFacts DEF set_rtc_stops, ClockTypeInv, clocks
<1>5. CASE set_rtc_settimeofday
    BY <1>5, ClockFacts DEF set_rtc_settimeofday, ClockTypeInv, base
<1>6. CASE set_rtc_settimeofday_fails
    BY <1>6 DEF set_rtc_settimeofday_fails, ClockTypeInv, clocks, base
<1>7. CASE set_rtc_restarts
    BY <1>7 DEF set_rtc_restarts, ClockTypeInv, clocks
<1>8. CASE set_rtc_sets_clock
    <2>1. rtcOff' \in Int
        BY <1>8, DivFacts DEF set_rtc_sets_clock, ClockTypeInv
    <2>2. QED
        BY <1>8, <2>1 DEF set_rtc_sets_clock, ClockTypeInv, base
<1>9. CASE set_rtc_ends
    BY <1>9 DEF set_rtc_ends, ClockTypeInv, clocks
<1>10. CASE Freeze
    BY <1>10 DEF Freeze, ClockTypeInv, clocks, base, setter
<1>11. CASE suspend_marks
    BY <1>11 DEF suspend_marks, ClockTypeInv, clocks, setter
<1>12. CASE suspend_cancels
    BY <1>12 DEF suspend_cancels, ClockTypeInv, clocks, setter
<1>13. CASE suspend_sets_alarm
    <2>1. rtc_alarm' \in Int /\ time' \in Int
        BY <1>13, RtcAlarmFacts DEF suspend_sets_alarm, ClockTypeInv
    <2>2. QED
        BY <1>13, <2>1 DEF suspend_sets_alarm, ClockTypeInv, clocks, base
<1>14. CASE suspend_looks
    <2>1. rtc_alarm' \in Int /\ rtc_lock' \in Int /\ time' \in Int
        <3>1. rtc_alarm' \in {rtc_alarm, -1} /\ rtc_lock' \in {rtc_lock, now + 2 * TPS} /\ time' = 0
            BY <1>14 DEF suspend_looks
        <3>2. QED
            BY <3>1 DEF ClockTypeInv
    <2>2. QED
        BY <1>14, <2>1 DEF suspend_looks, ClockTypeInv, clocks
<1>15. CASE Sleep
    BY <1>15 DEF Sleep, ClockTypeInv, clocks, base, setter
<1>16. CASE Wakes
    BY <1>16 DEF Wakes, ClockTypeInv, clocks, base, setter
<1>17. CASE alarm_triggered_func
    BY <1>17 DEF alarm_triggered_func, ClockTypeInv, clocks, base, setter
<1>18. CASE alarm_resume
    BY <1>18 DEF alarm_resume, ClockTypeInv, clocks, setter
<1>19. CASE Tick
    BY <1>19 DEF Tick, ClockTypeInv, base, setter
<1>20. QED
    BY <1>1, <1>2, <1>3, <1>4, <1>5, <1>6, <1>7, <1>8, <1>9, <1>10, <1>11, <1>12, <1>13,
       <1>14, <1>15, <1>16, <1>17, <1>18, <1>19
       DEF Next, Starts, Cancels, Triggers, SetsRtc, Suspends

\* Queues hold alarms and have timers.
LEMMA QueueTypeStep ==
    ASSUME ClockTypeInv, QueueTypeInv, Next
    PROVE  QueueTypeInv'
<1>1. ASSUME NEW q \in Types, NEW i \in Ids, NEW t \in Times, alarm_start(q, i, t) PROVE QueueTypeInv'
    <2>1. PICK head_changed, was_first : Requeue(q, WithAlarm(q, i, t), head_changed, was_first)
        BY <1>1, StartRequeues
    <2>2. WithAlarm(q, i, t) \in SUBSET Alarms
        BY <1>1, StartRequeues
    <2>3. QED
        BY <2>1, <2>2, RequeueFacts DEF QueueTypeInv
<1>2. ASSUME NEW q \in Types, NEW i \in Ids, alarm_try_to_cancel(q, i) PROVE QueueTypeInv'
    <2>1. PICK a \in queue[q], first \in BOOLEAN : Requeue(q, queue[q] \ {a}, first, TRUE)
        BY <1>2, CancelRequeues
    <2>2. queue[q] \ {a} \in SUBSET Alarms
        BY DEF QueueTypeInv
    <2>3. QED
        BY <2>1, <2>2, RequeueFacts DEF QueueTypeInv
<1>3. ASSUME NEW q \in Types, alarm_timer_triggered(q) PROVE QueueTypeInv'
    <2> DEFINE left == queue[q] \ Expired(q)
                off == [timer[q] EXCEPT !.on = FALSE]
                new == Updated(q, off, left, Stopped(q), suspended)
    <2>1. left \in SUBSET Alarms /\ off \in Timers
        BY DEF QueueTypeInv, Timers
    <2>2. new \in Timers
        BY <2>1, UpdatedType
    <2>3. queue' = [queue EXCEPT ![q] = left] /\ timer' = [timer EXCEPT ![q] = new]
        BY <1>3 DEF alarm_timer_triggered
    <2> HIDE DEF left, new
    <2>4. QED
        BY <2>1, <2>2, <2>3 DEF QueueTypeInv
<1>4. ASSUME NEW new \in NewTimes, set_rtc_stops(new) PROVE QueueTypeInv'
    <2>1. \A q \in Types : timer'[q] \in Timers
        BY <1>4, UpdatedType, StoppedTimer DEF QueueTypeInv, set_rtc_stops
    <2>2. QED
        BY <1>4, <2>1 DEF QueueTypeInv, set_rtc_stops
<1>5. CASE set_rtc_settimeofday
    BY <1>5 DEF set_rtc_settimeofday, QueueTypeInv, base
<1>6. CASE set_rtc_settimeofday_fails
    BY <1>6 DEF set_rtc_settimeofday_fails, QueueTypeInv, base
<1>7. CASE set_rtc_restarts
    <2>1. \A q \in Types : timer'[q] \in Timers
        BY <1>7, UpdatedType, StoppedTimer DEF QueueTypeInv, set_rtc_restarts
    <2>2. QED
        BY <1>7, <2>1 DEF QueueTypeInv, set_rtc_restarts
<1>8. CASE set_rtc_sets_clock
    BY <1>8 DEF set_rtc_sets_clock, QueueTypeInv, base
<1>9. CASE set_rtc_ends
    BY <1>9 DEF set_rtc_ends, QueueTypeInv
<1>10. CASE Freeze
    BY <1>10 DEF Freeze, QueueTypeInv, base
<1>11. CASE suspend_marks
    BY <1>11 DEF suspend_marks, QueueTypeInv
<1>12. CASE suspend_cancels
    <2>1. \A q \in Types : timer'[q] \in Timers
        BY <1>12, UpdatedType, StoppedTimer DEF QueueTypeInv, suspend_cancels
    <2>2. QED
        BY <1>12, <2>1 DEF QueueTypeInv, suspend_cancels
<1>13. CASE suspend_sets_alarm
    BY <1>13 DEF suspend_sets_alarm, QueueTypeInv, base
<1>14. CASE suspend_looks
    <2>1. \A q \in Types : Updated(q, timer[q], queue[q], stopped, FALSE) \in Timers
        BY UpdatedType DEF QueueTypeInv
    <2>2. CASE UNCHANGED timer
        BY <1>14, <2>2 DEF QueueTypeInv, suspend_looks
    <2>3. CASE timer' = [q \in Types |-> IF q \in WakeupTypes
                         THEN Updated(q, timer[q], queue[q], stopped, FALSE) ELSE timer[q]]
        BY <1>14, <2>1, <2>3 DEF QueueTypeInv, suspend_looks
    <2>4. QED
        BY <1>14, <2>2, <2>3 DEF suspend_looks
<1>15. CASE Sleep
    BY <1>15 DEF Sleep, QueueTypeInv, base
<1>16. CASE Wakes
    BY <1>16 DEF Wakes, QueueTypeInv, base
<1>17. CASE alarm_triggered_func
    BY <1>17 DEF alarm_triggered_func, QueueTypeInv, base
<1>18. CASE alarm_resume
    <2>1. \A q \in Types : timer'[q] \in Timers
        BY <1>18, UpdatedType, StoppedTimer DEF QueueTypeInv, alarm_resume
    <2>2. QED
        BY <1>18, <2>1 DEF QueueTypeInv, alarm_resume
<1>19. CASE Tick
    BY <1>19 DEF Tick, QueueTypeInv, base
<1>20. QED
    BY <1>1, <1>2, <1>3, <1>4, <1>5, <1>6, <1>7, <1>8, <1>9, <1>10, <1>11, <1>12, <1>13,
       <1>14, <1>15, <1>16, <1>17, <1>18, <1>19
       DEF Next, Starts, Cancels, Triggers, SetsRtc, Suspends

\* Suspend and alarm_set_rtc exclude each other.
LEMMA ModeStep ==
    ASSUME ModeInv, Next
    PROVE  ModeInv'
<1>1. ASSUME NEW q \in Types, NEW i \in Ids, NEW t \in Times, alarm_start(q, i, t) PROVE ModeInv'
    BY <1>1 DEF alarm_start, Requeue, ModeInv, setter
<1>2. ASSUME NEW q \in Types, NEW i \in Ids, alarm_try_to_cancel(q, i) PROVE ModeInv'
    BY <1>2 DEF alarm_try_to_cancel, Requeue, ModeInv, setter
<1>3. ASSUME NEW q \in Types, alarm_timer_triggered(q) PROVE ModeInv'
    BY <1>3 DEF alarm_timer_triggered, ModeInv, setter
<1>4. ASSUME NEW new \in NewTimes, set_rtc_stops(new) PROVE ModeInv'
    BY <1>4 DEF set_rtc_stops, ModeInv, Powers, Settings
<1>5. CASE set_rtc_settimeofday
    BY <1>5 DEF set_rtc_settimeofday, ModeInv, Powers, Settings, base
<1>6. CASE set_rtc_settimeofday_fails
    BY <1>6 DEF set_rtc_settimeofday_fails, ModeInv, Powers, Settings, base
<1>7. CASE set_rtc_restarts
    BY <1>7 DEF set_rtc_restarts, ModeInv, Powers, Settings
<1>8. CASE set_rtc_sets_clock
    BY <1>8 DEF set_rtc_sets_clock, ModeInv, Powers, Settings, base
<1>9. CASE set_rtc_ends
    BY <1>9 DEF set_rtc_ends, ModeInv, Powers, Settings
<1>10. CASE Freeze
    BY <1>10 DEF Freeze, ModeInv, Powers, Settings, base, setter
<1>11. CASE suspend_marks
    BY <1>11 DEF suspend_marks, ModeInv, Powers, Settings, setter
<1>12. CASE suspend_cancels
    BY <1>12 DEF suspend_cancels, ModeInv, Powers, Settings, setter
<1>13. CASE suspend_sets_alarm
    BY <1>13 DEF suspend_sets_alarm, ModeInv, Powers, Settings, base
<1>14. CASE suspend_looks
    BY <1>14 DEF suspend_looks, ModeInv, Powers, Settings
<1>15. CASE Sleep
    BY <1>15 DEF Sleep, ModeInv, Powers, Settings, base, setter
<1>16. CASE Wakes
    BY <1>16 DEF Wakes, ModeInv, Powers, Settings, base, setter
<1>17. CASE alarm_triggered_func
    BY <1>17 DEF alarm_triggered_func, ModeInv, Powers, Settings, base, setter
<1>18. CASE alarm_resume
    BY <1>18 DEF alarm_resume, ModeInv, Powers, Settings, setter
<1>19. CASE Tick
    BY <1>19 DEF Tick, ModeInv, Powers, Settings, base, setter
<1>20. QED
    BY <1>1, <1>2, <1>3, <1>4, <1>5, <1>6, <1>7, <1>8, <1>9, <1>10, <1>11, <1>12, <1>13,
       <1>14, <1>15, <1>16, <1>17, <1>18, <1>19
       DEF Next, Starts, Cancels, Triggers, SetsRtc, Suspends

\* What alarm_timer_triggered leaves.
LEMMA TriggeredFacts ==
    ASSUME ClockTypeInv, QueueTypeInv, NEW q \in Types, alarm_timer_triggered(q)
    PROVE  /\ queue'[q] = queue[q] \ Expired(q)
           /\ \A u \in Types \ {q} : queue'[u] = queue[u] /\ timer'[u] = timer[u]
           /\ suspended /\ q \in WakeupTypes => timer'[q].at = timer[q].at
           /\ queue'[q] # {} /\ ~Stopped(q) /\ ~(suspended /\ q \in WakeupTypes) =>
                 timer'[q] = [on |-> TRUE, at |-> Delta(q) + First(queue'[q])]
<1> DEFINE left == queue[q] \ Expired(q)
           off == [timer[q] EXCEPT !.on = FALSE]
           new == Updated(q, off, left, Stopped(q), suspended)
<1>1. queue' = [queue EXCEPT ![q] = left] /\ timer' = [timer EXCEPT ![q] = new]
    BY DEF alarm_timer_triggered
<1>2. left \in SUBSET Alarms /\ off \in Timers /\ off.at = timer[q].at
    BY StoppedTimer DEF QueueTypeInv
<1>3. /\ suspended /\ q \in WakeupTypes => new = off
      /\ left # {} /\ ~Stopped(q) /\ ~(suspended /\ q \in WakeupTypes) =>
            new = [on |-> TRUE, at |-> Delta(q) + First(left)]
    BY DEF Updated
<1> HIDE DEF left, off, new
<1>4. /\ queue'[q] = left /\ timer'[q] = new
      /\ \A u \in Types \ {q} : queue'[u] = queue[u] /\ timer'[u] = timer[u]
    BY <1>1 DEF QueueTypeInv
<1>5. QED
    BY <1>2, <1>3, <1>4 DEF left

\* An alarm stays in its queue once.
LEMMA UniqueStep ==
    ASSUME ClockTypeInv, QueueTypeInv, UniqueInv, Next
    PROVE  UniqueInv'
<1>1. ASSUME NEW q \in Types, NEW i \in Ids, NEW t \in Times, alarm_start(q, i, t) PROVE UniqueInv'
    <2>1. PICK head_changed, was_first : Requeue(q, WithAlarm(q, i, t), head_changed, was_first)
        BY <1>1, StartRequeues
    <2>2. WithAlarm(q, i, t) \in SUBSET Alarms
        BY <1>1, StartRequeues
    <2>3. queue'[q] = WithAlarm(q, i, t) /\ \A u \in Types \ {q} : queue'[u] = queue[u]
        BY <2>1, <2>2, RequeueFacts
    <2>4. \A a, b \in WithAlarm(q, i, t) : a.id = b.id => a = b
        BY DEF WithAlarm, Others, UniqueInv
    <2>5. QED
        BY <2>3, <2>4 DEF UniqueInv
<1>2. ASSUME NEW q \in Types, NEW i \in Ids, alarm_try_to_cancel(q, i) PROVE UniqueInv'
    <2>1. PICK a \in queue[q], first \in BOOLEAN : Requeue(q, queue[q] \ {a}, first, TRUE)
        BY <1>2, CancelRequeues
    <2>2. queue[q] \ {a} \in SUBSET Alarms
        BY DEF QueueTypeInv
    <2>3. queue'[q] = queue[q] \ {a} /\ \A u \in Types \ {q} : queue'[u] = queue[u]
        BY <2>1, <2>2, RequeueFacts
    <2>4. QED
        BY <2>3 DEF UniqueInv
<1>3. ASSUME NEW q \in Types, alarm_timer_triggered(q) PROVE UniqueInv'
    BY <1>3, TriggeredFacts DEF UniqueInv
<1>4. ASSUME NEW new \in NewTimes, set_rtc_stops(new) PROVE UniqueInv'
    BY <1>4 DEF set_rtc_stops, UniqueInv
<1>5. CASE set_rtc_settimeofday
    BY <1>5 DEF set_rtc_settimeofday, UniqueInv, base
<1>6. CASE set_rtc_settimeofday_fails
    BY <1>6 DEF set_rtc_settimeofday_fails, UniqueInv, base
<1>7. CASE set_rtc_restarts
    BY <1>7 DEF set_rtc_restarts, UniqueInv
<1>8. CASE set_rtc_sets_clock
    BY <1>8 DEF set_rtc_sets_clock, UniqueInv, base
<1>9. CASE set_rtc_ends
    BY <1>9 DEF set_rtc_ends, UniqueInv
<1>10. CASE Freeze
    BY <1>10 DEF Freeze, UniqueInv, base
<1>11. CASE suspend_marks
    BY <1>11 DEF suspend_marks, UniqueInv
<1>12. CASE suspend_cancels
    BY <1>12 DEF suspend_cancels, UniqueInv
<1>13. CASE suspend_sets_alarm
    BY <1>13 DEF suspend_sets_alarm, UniqueInv, base
<1>14. CASE suspend_looks
    BY <1>14 DEF suspend_looks, UniqueInv
<1>15. CASE Sleep
    BY <1>15 DEF Sleep, UniqueInv, base
<1>16. CASE Wakes
    BY <1>16 DEF Wakes, UniqueInv, base
<1>17. CASE alarm_triggered_func
    BY <1>17 DEF alarm_triggered_func, UniqueInv, base
<1>18. CASE alarm_resume
    BY <1>18 DEF alarm_resume, UniqueInv
<1>19. CASE Tick
    BY <1>19 DEF Tick, UniqueInv, base
<1>20. QED
    BY <1>1, <1>2, <1>3, <1>4, <1>5, <1>6, <1>7, <1>8, <1>9, <1>10, <1>11, <1>12, <1>13,
       <1>14, <1>15, <1>16, <1>17, <1>18, <1>19
       DEF Next, Starts, Cancels, Triggers, SetsRtc, Suspends

\* delta follows the wall clock.
LEMMA ElapsedStep ==
    ASSUME ClockTypeInv, ModeInv, ElapsedInv, Next
    PROVE  ElapsedInv'
<1> USE SetAssumption
<1>1. ASSUME NEW q \in Types, NEW i \in Ids, NEW t \in Times, alarm_start(q, i, t) PROVE ElapsedInv'
    BY <1>1 DEF alarm_start, Requeue, ElapsedInv, clocks, setter
<1>2. ASSUME NEW q \in Types, NEW i \in Ids, alarm_try_to_cancel(q, i) PROVE ElapsedInv'
    BY <1>2 DEF alarm_try_to_cancel, Requeue, ElapsedInv, clocks, setter
<1>3. ASSUME NEW q \in Types, alarm_timer_triggered(q) PROVE ElapsedInv'
    BY <1>3 DEF alarm_timer_triggered, ElapsedInv, clocks, setter
<1>4. ASSUME NEW new \in NewTimes, set_rtc_stops(new) PROVE ElapsedInv'
    BY <1>4 DEF set_rtc_stops, ElapsedInv, ClockTypeInv, Wall, clocks
<1>5. CASE set_rtc_settimeofday
    BY <1>5 DEF set_rtc_settimeofday, ElapsedInv, ClockTypeInv, Wall, base
<1>6. CASE set_rtc_settimeofday_fails
    BY <1>6 DEF set_rtc_settimeofday_fails, ElapsedInv, ClockTypeInv, clocks, base
<1>7. CASE set_rtc_restarts
    BY <1>7 DEF set_rtc_restarts, ElapsedInv, ModeInv, clocks
<1>8. CASE set_rtc_sets_clock
    BY <1>8 DEF set_rtc_sets_clock, ElapsedInv, ModeInv, base
<1>9. CASE set_rtc_ends
    BY <1>9 DEF set_rtc_ends, ElapsedInv, ModeInv, clocks
<1>10. CASE Freeze
    BY <1>10 DEF Freeze, ElapsedInv, ModeInv, clocks, base, setter
<1>11. CASE suspend_marks
    BY <1>11 DEF suspend_marks, ElapsedInv, ModeInv, clocks, setter
<1>12. CASE suspend_cancels
    BY <1>12 DEF suspend_cancels, ElapsedInv, ModeInv, clocks, setter
<1>13. CASE suspend_sets_alarm
    BY <1>13 DEF suspend_sets_alarm, ElapsedInv, ModeInv, clocks, base
<1>14. CASE suspend_looks
    BY <1>14 DEF suspend_looks, ElapsedInv, ModeInv, clocks
<1>15. CASE Sleep
    BY <1>15 DEF Sleep, ElapsedInv, ModeInv, clocks, base, setter
<1>16. CASE Wakes
    BY <1>16 DEF Wakes, ElapsedInv, ModeInv, clocks, base, setter
<1>17. CASE alarm_triggered_func
    BY <1>17 DEF alarm_triggered_func, ElapsedInv, ModeInv, clocks, base, setter
<1>18. CASE alarm_resume
    BY <1>18 DEF alarm_resume, ElapsedInv, ModeInv, clocks, setter
<1>19. CASE Tick
    BY <1>19 DEF Tick, ElapsedInv, ModeInv, base, setter
<1>20. QED
    BY <1>1, <1>2, <1>3, <1>4, <1>5, <1>6, <1>7, <1>8, <1>9, <1>10, <1>11, <1>12, <1>13,
       <1>14, <1>15, <1>16, <1>17, <1>18, <1>19
       DEF Next, Starts, Cancels, Triggers, SetsRtc, Suspends

\* Each operation leaves a queue's timer set for its first alarm.
LEMMA ArmedStep ==
    ASSUME ClockTypeInv, QueueTypeInv, ModeInv, ArmedInv, Next
    PROVE  ArmedInv'
<1>1. ASSUME NEW q \in Types, NEW i \in Ids, NEW t \in Times, alarm_start(q, i, t) PROVE ArmedInv'
    <2> DEFINE alarms == WithAlarm(q, i, t)
                leftmost == \A a \in Others(q, i) : t < a.expires
    <2>1. PICK was_first \in BOOLEAN :
             /\ ~was_first => ~(Heads(q) # {} /\ Heads(q) \subseteq queue[q] \ Others(q, i))
             /\ Requeue(q, alarms, leftmost \/ was_first, was_first)
        BY <1>1, StartRequeues
    <2>2. alarms \in SUBSET Alarms /\ alarms # {} /\ queue[q] \in SUBSET Alarms
        BY <1>1, StartRequeues DEF QueueTypeInv, WithAlarm
    <2>3. /\ queue'[q] = alarms
          /\ \A u \in Types \ {q} : queue'[u] = queue[u] /\ timer'[u] = timer[u]
          /\ leftmost \/ was_first => timer'[q] = Updated(q, timer[q], alarms, Stopped(q), suspended)
          /\ ~(leftmost \/ was_first) => timer'[q] = timer[q]
          /\ UNCHANGED <<delta, stopped, stopped_time, suspended>>
        BY <2>1, <2>2, RequeueFacts
    <2>4. CASE leftmost \/ was_first
        <3>1. ~Stopped(q) /\ ~(suspended /\ q \in WakeupTypes) =>
                 timer'[q] = [on |-> TRUE, at |-> Delta(q) + First(alarms)]
            BY <2>2, <2>3, <2>4 DEF Updated
        <3>2. QED
            BY <2>3, <3>1 DEF ArmedInv, Armed, Delta, Stopped
    <2>5. CASE ~(leftmost \/ was_first)
        <3>1. PICK b \in Others(q, i) : ~(t < b.expires)
            BY <2>5
        <3>2. b \in queue[q] /\ queue[q] # {}
            BY DEF Others
        <3>3. Heads(q) # {}
            BY <2>2, <3>2, FirstFacts DEF Heads
        <3>4. PICK h \in Heads(q) : h \in Others(q, i)
            BY <2>1, <2>5, <3>3 DEF Heads
        <3>5. h.expires = First(queue[q]) /\ \A a \in queue[q] : h.expires <= a.expires
            BY <2>2, <3>2, FirstFacts DEF Heads
        <3>6. h.expires <= b.expires /\ h.expires \in Nat /\ b.expires \in Nat /\ t \in Nat
            BY <2>2, <3>2, <3>4, <3>5, TimeAssumption DEF Alarms, Others
        <3>7. h.expires <= t
            BY <3>1, <3>6
        <3>8. h \in alarms /\ \A a \in alarms : h.expires <= a.expires
            BY <3>4, <3>5, <3>7 DEF WithAlarm, Others
        <3>9. First(alarms) = First(queue[q])
            BY <2>2, <3>5, <3>8, FirstIs
        <3>10. QED
            BY <2>3, <2>5, <3>2, <3>9 DEF ArmedInv, Armed, Delta, Stopped
    <2>6. QED
        BY <2>4, <2>5
<1>2. ASSUME NEW q \in Types, NEW i \in Ids, alarm_try_to_cancel(q, i) PROVE ArmedInv'
    <2>1. PICK a \in queue[q], first \in BOOLEAN :
             (~first => Heads(q) # {a}) /\ Requeue(q, queue[q] \ {a}, first, TRUE)
        BY <1>2, CancelRequeues
    <2> DEFINE alarms == queue[q] \ {a}
    <2>2. alarms \in SUBSET Alarms /\ queue[q] \in SUBSET Alarms /\ queue[q] # {}
        BY DEF QueueTypeInv
    <2>3. /\ queue'[q] = alarms
          /\ \A u \in Types \ {q} : queue'[u] = queue[u] /\ timer'[u] = timer[u]
          /\ first => timer'[q] = Updated(q, timer[q], alarms, Stopped(q), suspended)
          /\ ~first => timer'[q] = timer[q]
          /\ UNCHANGED <<delta, stopped, stopped_time, suspended>>
        BY <2>1, <2>2, RequeueFacts
    <2>4. CASE first
        <3>1. alarms # {} /\ ~Stopped(q) /\ ~(suspended /\ q \in WakeupTypes) =>
                 timer'[q] = [on |-> TRUE, at |-> Delta(q) + First(alarms)]
            BY <2>2, <2>3, <2>4 DEF Updated
        <3>2. QED
            BY <2>3, <3>1 DEF ArmedInv, Armed, Delta, Stopped
    <2>5. CASE ~first
        <3>1. Heads(q) # {} /\ \A h \in Heads(q) : h \in queue[q] /\ h.expires = First(queue[q])
            BY <2>2, FirstFacts DEF Heads
        <3>2. PICK h \in Heads(q) : h # a
            BY <2>1, <2>5, <3>1
        <3>3. h \in alarms /\ \A b \in alarms : h.expires <= b.expires
            BY <2>2, <3>1, <3>2, FirstFacts
        <3>4. First(alarms) = First(queue[q])
            BY <2>2, <3>1, <3>2, <3>3, FirstIs
        <3>5. QED
            BY <2>2, <2>3, <2>5, <3>4 DEF ArmedInv, Armed, Delta, Stopped
    <2>6. QED
        BY <2>4, <2>5
<1>3. ASSUME NEW q \in Types, alarm_timer_triggered(q) PROVE ArmedInv'
    <2>1. UNCHANGED <<delta, stopped, suspended>>
        BY <1>3 DEF alarm_timer_triggered
    <2>2. QED
        BY <1>3, <2>1, TriggeredFacts DEF ArmedInv, Armed, Delta, Stopped
<1>4. ASSUME NEW new \in NewTimes, set_rtc_stops(new) PROVE ArmedInv'
    BY <1>4 DEF set_rtc_stops, ArmedInv, Armed, Stopped
<1>5. CASE set_rtc_settimeofday
    BY <1>5 DEF set_rtc_settimeofday, ArmedInv, Armed, Delta, Stopped, base
<1>6. CASE set_rtc_settimeofday_fails
    BY <1>6 DEF set_rtc_settimeofday_fails, ArmedInv, Armed, Delta, Stopped, base
<1>7. CASE set_rtc_restarts
    <2>1. \A u \in Types \ {SYSTEMTIME} : queue[u] # {} /\ ~(suspended /\ u \in WakeupTypes) =>
             timer'[u] = [on |-> TRUE, at |-> Delta(u) + First(queue[u])]
        BY <1>7 DEF set_rtc_restarts, Updated
    <2>2. UNCHANGED <<queue, delta, suspended>>
        BY <1>7 DEF set_rtc_restarts
    <2>3. QED
        BY <2>1, <2>2 DEF ArmedInv, Armed, Delta
<1>8. CASE set_rtc_sets_clock
    BY <1>8 DEF set_rtc_sets_clock, ArmedInv, Armed, Delta, Stopped, base
<1>9. CASE set_rtc_ends
    BY <1>9 DEF set_rtc_ends, ArmedInv, Armed, Delta, Stopped
<1>10. CASE Freeze
    BY <1>10 DEF Freeze, ArmedInv, Armed, Delta, Stopped, base
<1>11. CASE suspend_marks
    BY <1>11 DEF suspend_marks, ArmedInv, Armed, Delta, Stopped, ModeInv
<1>12. CASE suspend_cancels
    <2>1. \A u \in Types \ {SYSTEMTIME} : u \in WakeupTypes \/ timer'[u] = timer[u]
        BY <1>12 DEF suspend_cancels, WakeupTypes
    <2>2. suspended /\ UNCHANGED <<queue, delta, stopped, suspended>>
        BY <1>12 DEF suspend_cancels, ModeInv
    <2>3. QED
        BY <2>1, <2>2 DEF ArmedInv, Armed, Delta, Stopped
<1>13. CASE suspend_sets_alarm
    BY <1>13 DEF suspend_sets_alarm, ArmedInv, Armed, Delta, Stopped, base
<1>14. CASE suspend_looks
    <2>1. UNCHANGED <<queue, delta, stopped>>
        BY <1>14 DEF suspend_looks
    <2>2. CASE UNCHANGED <<timer, suspended>>
        BY <2>1, <2>2 DEF ArmedInv, Armed, Delta, Stopped
    <2>3. CASE timer' = [q \in Types |-> IF q \in WakeupTypes
                         THEN Updated(q, timer[q], queue[q], stopped, FALSE) ELSE timer[q]]
        <3>1. \A u \in Types \ {SYSTEMTIME} :
                 IF u \in WakeupTypes
                 THEN queue[u] # {} /\ ~stopped => timer'[u] = [on |-> TRUE, at |-> Delta(u) + First(queue[u])]
                 ELSE timer'[u] = timer[u]
            BY <2>3 DEF Updated
        <3>2. QED
            BY <2>1, <3>1 DEF ArmedInv, Armed, Delta, Stopped
    <2>4. QED
        BY <1>14, <2>2, <2>3 DEF suspend_looks
<1>15. CASE Sleep
    BY <1>15 DEF Sleep, ArmedInv, Armed, Delta, Stopped, base
<1>16. CASE Wakes
    BY <1>16 DEF Wakes, ArmedInv, Armed, Delta, Stopped, base
<1>17. CASE alarm_triggered_func
    BY <1>17 DEF alarm_triggered_func, ArmedInv, Armed, Delta, Stopped, base
<1>18. CASE alarm_resume
    <2>1. \A u \in Types \ {SYSTEMTIME} :
             IF u \in WakeupTypes
             THEN queue[u] # {} /\ ~stopped => timer'[u] = [on |-> TRUE, at |-> Delta(u) + First(queue[u])]
             ELSE timer'[u] = timer[u]
        BY <1>18 DEF alarm_resume, Updated
    <2>2. UNCHANGED <<queue, delta, stopped>>
        BY <1>18 DEF alarm_resume
    <2>3. QED
        BY <2>1, <2>2 DEF ArmedInv, Armed, Delta, Stopped
<1>19. CASE Tick
    BY <1>19 DEF Tick, ArmedInv, Armed, Delta, Stopped, base
<1>20. QED
    BY <1>1, <1>2, <1>3, <1>4, <1>5, <1>6, <1>7, <1>8, <1>9, <1>10, <1>11, <1>12, <1>13,
       <1>14, <1>15, <1>16, <1>17, <1>18, <1>19
       DEF Next, Starts, Cancels, Triggers, SetsRtc, Suspends

\* The timers that alarm_suspend reads are those of the first alarms.
LEMMA NoLaterStep ==
    ASSUME ClockTypeInv, QueueTypeInv, ModeInv, ArmedInv, NoLaterInv, Next
    PROVE  NoLaterInv'
<1>1. ASSUME NEW q \in Types, NEW i \in Ids, NEW t \in Times, alarm_start(q, i, t) PROVE NoLaterInv'
    BY <1>1 DEF alarm_start, Requeue, ModeInv, NoLaterInv
<1>2. ASSUME NEW q \in Types, NEW i \in Ids, alarm_try_to_cancel(q, i) PROVE NoLaterInv'
    BY <1>2 DEF alarm_try_to_cancel, Requeue, ModeInv, NoLaterInv
<1>3. ASSUME NEW q \in Types, alarm_timer_triggered(q) PROVE NoLaterInv'
    <2>1. UNCHANGED <<delta, suspended>>
        BY <1>3 DEF alarm_timer_triggered
    <2>2. \A u \in Types : queue'[u] \subseteq queue[u]
        BY <1>3, TriggeredFacts
    <2>3. suspended => \A u \in Types \cap WakeupTypes : timer'[u].at = timer[u].at
        BY <1>3, TriggeredFacts
    <2>4. QED
        BY <2>1, <2>2, <2>3 DEF NoLaterInv, Delta
<1>4. ASSUME NEW new \in NewTimes, set_rtc_stops(new) PROVE NoLaterInv'
    BY <1>4 DEF set_rtc_stops, ModeInv, NoLaterInv
<1>5. CASE set_rtc_settimeofday
    BY <1>5 DEF set_rtc_settimeofday, NoLaterInv, Delta, base
<1>6. CASE set_rtc_settimeofday_fails
    BY <1>6 DEF set_rtc_settimeofday_fails, NoLaterInv, Delta, base
<1>7. CASE set_rtc_restarts
    BY <1>7 DEF set_rtc_restarts, ModeInv, NoLaterInv
<1>8. CASE set_rtc_sets_clock
    BY <1>8 DEF set_rtc_sets_clock, NoLaterInv, Delta, base
<1>9. CASE set_rtc_ends
    BY <1>9 DEF set_rtc_ends, NoLaterInv, Delta
<1>10. CASE Freeze
    BY <1>10 DEF Freeze, NoLaterInv, Delta, base
<1>11. CASE suspend_marks
    <2>1. ~suspended /\ ~stopped /\ UNCHANGED <<queue, timer, delta>>
        BY <1>11 DEF suspend_marks, ModeInv
    <2>2. ASSUME NEW u \in Types \cap WakeupTypes, NEW a \in queue[u]
          PROVE  timer[u].at <= Delta(u) + a.expires
        <3>1. u # SYSTEMTIME
            BY DEF WakeupTypes, SYSTEMTIME
        <3>2. timer[u] = [on |-> TRUE, at |-> Delta(u) + First(queue[u])]
            BY <2>1, <3>1 DEF ArmedInv, Armed, Stopped
        <3>3. First(queue[u]) \in Nat /\ First(queue[u]) <= a.expires
            BY FirstFacts DEF QueueTypeInv
        <3>4. Delta(u) \in Int
            BY ClockFacts
        <3>5. a \in Alarms
            BY DEF QueueTypeInv
        <3>6. a.expires \in Nat
            BY <3>5, TimeAssumption DEF Alarms
        <3>7. QED
            BY <3>2, <3>3, <3>4, <3>6
    <2>3. QED
        BY <2>1, <2>2 DEF NoLaterInv, Delta
<1>12. CASE suspend_cancels
    <2>1. UNCHANGED <<queue, delta, suspended>>
        BY <1>12 DEF suspend_cancels
    <2>2. \A u \in Types : timer'[u].at = timer[u].at
        BY <1>12, StoppedTimer DEF suspend_cancels, QueueTypeInv
    <2>3. QED
        BY <2>1, <2>2 DEF NoLaterInv, Delta
<1>13. CASE suspend_sets_alarm
    BY <1>13 DEF suspend_sets_alarm, NoLaterInv, Delta, base
<1>14. CASE suspend_looks
    BY <1>14 DEF suspend_looks, NoLaterInv, Delta
<1>15. CASE Sleep
    BY <1>15 DEF Sleep, NoLaterInv, Delta, base
<1>16. CASE Wakes
    BY <1>16 DEF Wakes, NoLaterInv, Delta, base
<1>17. CASE alarm_triggered_func
    BY <1>17 DEF alarm_triggered_func, NoLaterInv, Delta, base
<1>18. CASE alarm_resume
    BY <1>18 DEF alarm_resume, NoLaterInv
<1>19. CASE Tick
    BY <1>19 DEF Tick, NoLaterInv, Delta, base
<1>20. QED
    BY <1>1, <1>2, <1>3, <1>4, <1>5, <1>6, <1>7, <1>8, <1>9, <1>10, <1>11, <1>12, <1>13,
       <1>14, <1>15, <1>16, <1>17, <1>18, <1>19
       DEF Next, Starts, Cancels, Triggers, SetsRtc, Suspends

\* The RTC's alarm stays ahead of the time and before the timers.
LEMMA RtcStep ==
    ASSUME ClockTypeInv, QueueTypeInv, ModeInv, NoLaterInv, RtcInv, Next
    PROVE  RtcInv'
<1>t. TPS \in Nat \ {0} /\ NewTimes \subseteq Nat
    BY TimeAssumption, SetAssumption
<1>c. /\ RtcSecond \in Int /\ RtcSecond * TPS \in Int
      /\ RtcSecond * TPS <= now + rtcOff /\ now + rtcOff < RtcSecond * TPS + TPS
    BY <1>t, ClockFacts
<1>r. RtcSecond >= 0
    <2>1. SUFFICES ASSUME RtcSecond < 0 PROVE FALSE
        BY <1>c
    <2>2. RtcSecond * TPS + TPS <= 0
        BY <1>t, <1>c, <2>1, MulMono
    <2>3. QED
        BY <1>t, <1>c, <2>2 DEF RtcInv, ClockTypeInv
<1>1. ASSUME NEW q \in Types, NEW i \in Ids, NEW t \in Times, alarm_start(q, i, t) PROVE RtcInv'
    BY <1>1 DEF alarm_start, RtcInv, clocks, setter
<1>2. ASSUME NEW q \in Types, NEW i \in Ids, alarm_try_to_cancel(q, i) PROVE RtcInv'
    BY <1>2 DEF alarm_try_to_cancel, RtcInv, clocks, setter
<1>3. ASSUME NEW q \in Types, alarm_timer_triggered(q) PROVE RtcInv'
    <2>1. UNCHANGED <<now, wallOff, rtcOff, rtc_alarm, power, setting, time>>
        BY <1>3 DEF alarm_timer_triggered, clocks, setter
    <2>2. CASE ~suspended
        BY <2>1, <2>2 DEF RtcInv, ModeInv
    <2>3. CASE suspended
        <3>1. \A u \in Types : queue'[u] \subseteq queue[u]
            BY <1>3, TriggeredFacts
        <3>2. Wakeups' \subseteq Wakeups /\ \A u \in Wakeups : timer'[u].at = timer[u].at
            BY <1>3, <2>3, <3>1, TriggeredFacts DEF Wakeups
        <3>3. rtc_lock' \in {rtc_lock, now + TPS}
            BY <1>3, <2>3 DEF alarm_timer_triggered, LockUpdated
        <3>4. Locked => Locked'
            BY <1>t, <2>1, <3>3 DEF Locked, ClockTypeInv
        <3>5. RtcSecond' = RtcSecond
            BY <2>1 DEF RtcSecond
        <3>6. QED
            BY <2>1, <3>2, <3>4, <3>5 DEF RtcInv
    <2>4. QED
        BY <2>2, <2>3
<1>4. ASSUME NEW new \in NewTimes, set_rtc_stops(new) PROVE RtcInv'
    BY <1>4, <1>t DEF set_rtc_stops, RtcInv, ModeInv, clocks
<1>5. CASE set_rtc_settimeofday
    BY <1>5 DEF set_rtc_settimeofday, RtcInv, ModeInv, base
<1>6. CASE set_rtc_settimeofday_fails
    BY <1>6 DEF set_rtc_settimeofday_fails, RtcInv, ModeInv, clocks, base
<1>7. CASE set_rtc_restarts
    BY <1>7 DEF set_rtc_restarts, RtcInv, ModeInv, clocks
<1>8. CASE set_rtc_sets_clock
    <2>1. /\ power = "on" /\ setting = "rtc" /\ time \in Int /\ time >= 0 /\ now \in Nat
          /\ UNCHANGED <<now, rtc_alarm, power, time>>
          /\ \/ \E phase \in 0 .. TPS - 1 : rtcOff' = (time \div TPS) * TPS + phase - now
             \/ UNCHANGED rtcOff
        BY <1>8 DEF set_rtc_sets_clock, RtcInv, ModeInv, ClockTypeInv
    <2>2. now' + rtcOff' >= 0
        <3>1. CASE UNCHANGED rtcOff
            BY <2>1, <3>1 DEF RtcInv
        <3>2. ASSUME NEW phase \in 0 .. TPS - 1, rtcOff' = (time \div TPS) * TPS + phase - now
              PROVE  now' + rtcOff' >= 0
            <4>1. time \div TPS \in Int /\ time < (time \div TPS) * TPS + TPS /\ (time \div TPS) * TPS \in Int
                BY <1>t, <2>1, DivFacts
            <4>2. time \div TPS >= 0
                <5>1. SUFFICES ASSUME time \div TPS < 0 PROVE FALSE
                    BY <4>1
                <5>2. (time \div TPS) * TPS + TPS <= 0
                    BY <1>t, <4>1, <5>1, MulMono
                <5>3. QED
                    BY <1>t, <2>1, <4>1, <5>2
            <4>3. (time \div TPS) * TPS >= 0
                BY <1>t, <4>1, <4>2
            <4>4. QED
                BY <1>t, <2>1, <3>2, <4>1, <4>3
        <3>3. QED
            BY <2>1, <3>1, <3>2
    <2>3. QED
        BY <2>1, <2>2 DEF RtcInv
<1>9. CASE set_rtc_ends
    BY <1>9 DEF set_rtc_ends, RtcInv, ModeInv, clocks
<1>10. CASE Freeze
    BY <1>10 DEF Freeze, RtcInv, ModeInv, clocks, base, setter
<1>11. CASE suspend_marks
    BY <1>11 DEF suspend_marks, RtcInv, ModeInv, clocks, setter
<1>12. CASE suspend_cancels
    BY <1>12 DEF suspend_cancels, RtcInv, ModeInv, clocks, setter
<1>13. CASE suspend_sets_alarm
    <2>1. UNCHANGED <<now, wallOff, rtcOff, queue, timer, rtc_lock, setting>> /\ power = "cancelled"
        BY <1>13 DEF suspend_sets_alarm, clocks, base
    <2>2. Wakeups' = Wakeups /\ RtcSecond' = RtcSecond
        BY <2>1 DEF Wakeups, RtcSecond
    <2>3. setting = "idle" /\ rtc_alarm = -1
        BY <2>1 DEF ModeInv, RtcInv
    <2>4. CASE Wakeups = {}
        BY <1>13, <2>1, <2>2, <2>3, <2>4 DEF suspend_sets_alarm, RtcInv
    <2>5. CASE Wakeups # {}
        <3>1. /\ power' = "armed" /\ time' = RtcAlarmTime
              /\ rtc_alarm' = IF RtcAlarmTime > RtcSecond THEN RtcAlarmTime ELSE -1
            BY <1>13, <2>5 DEF suspend_sets_alarm
        <3>2. /\ RtcAlarmTime \in Int
              /\ \A q \in Wakeups : RtcAlarmTime * TPS <= timer[q].at - wallOff + rtcOff
            BY <2>5, RtcAlarmFacts
        <3>3. RtcAlarmTime > RtcSecond => now + rtcOff <= RtcAlarmTime * TPS
            <4>1. ASSUME RtcAlarmTime > RtcSecond PROVE RtcSecond * TPS + TPS <= RtcAlarmTime * TPS
                BY <1>t, <1>c, <3>2, <4>1, MulMono
            <4>2. RtcAlarmTime * TPS \in Int /\ now + rtcOff \in Int
                BY <1>t, <3>2 DEF ClockTypeInv
            <4>3. QED
                BY <1>t, <1>c, <4>1, <4>2
        <3>4. rtc_alarm' = time' \/ (rtc_alarm' = -1 /\ time' <= RtcSecond)
            BY <1>c, <3>1, <3>2
        <3>5. rtc_alarm' # -1 => /\ now + rtcOff <= rtc_alarm' * TPS
                                 /\ \A q \in Wakeups : rtc_alarm' * TPS <= timer[q].at - wallOff + rtcOff
            BY <3>1, <3>2, <3>3
        <3>6. QED
            BY <2>1, <2>2, <2>3, <3>1, <3>4, <3>5 DEF RtcInv
    <2>6. QED
        BY <2>4, <2>5
<1>14. CASE suspend_looks
    <2>1. /\ UNCHANGED <<now, wallOff, rtcOff, queue, setting>> /\ power = "armed"
          /\ \/ power' = "on" /\ rtc_alarm' = -1
             \/ power' = "down" /\ RtcSecond + 1 < time /\ UNCHANGED <<timer, rtc_alarm>>
        BY <1>14 DEF suspend_looks, clocks
    <2>2. setting = "idle"
        BY <2>1 DEF ModeInv
    <2>3. CASE power' = "on" /\ rtc_alarm' = -1
        BY <2>1, <2>2, <2>3 DEF RtcInv
    <2>4. CASE power' = "down" /\ RtcSecond + 1 < time /\ UNCHANGED <<timer, rtc_alarm>>
        <3>1. rtc_alarm # -1
            BY <1>c, <1>r, <2>1, <2>4 DEF RtcInv, ClockTypeInv
        <3>2. Wakeups' = Wakeups
            BY <2>1 DEF Wakeups
        <3>3. QED
            BY <2>1, <2>2, <2>4, <3>1, <3>2 DEF RtcInv
    <2>5. QED
        BY <2>1, <2>3, <2>4
<1>15. CASE Sleep
    <2>1. Wakeups' = Wakeups
        BY <1>15 DEF Sleep, Wakeups, base
    <2>2. QED
        BY <1>15, <2>1 DEF Sleep, RtcInv, clocks, base, setter
<1>16. CASE Wakes
    BY <1>16 DEF Wakes, RtcInv, clocks, setter
<1>17. CASE alarm_triggered_func
    <2>1. /\ UNCHANGED <<now, wallOff, rtcOff, setting, time>> /\ rtc_alarm = RtcSecond
          /\ rtc_lock' = now + TPS /\ rtc_alarm' = -1 /\ power' # "asleep"
          /\ power' = power \/ power' = "resuming"
        BY <1>17 DEF alarm_triggered_func, RtcDue, clocks, setter
    <2>2. Locked'
        BY <1>t, <2>1 DEF Locked, ClockTypeInv
    <2>3. RtcSecond' = RtcSecond
        BY <2>1 DEF RtcSecond
    <2>4. power = "armed" => time <= RtcSecond
        BY <1>c, <2>1 DEF RtcInv, ClockTypeInv
    <2>5. QED
        BY <2>1, <2>2, <2>3, <2>4 DEF RtcInv
<1>18. CASE alarm_resume
    BY <1>18 DEF alarm_resume, RtcInv, ModeInv, clocks, setter
<1>19. CASE Tick
    <2>1. /\ now' = now + 1 /\ rtc_alarm # RtcSecond
          /\ UNCHANGED <<wallOff, rtcOff, queue, timer, rtc_alarm, power, setting, time>>
          /\ power = "down" /\ Locked => rtc_lock > now + 1 /\ rtc_lock' = rtc_lock
        BY <1>19 DEF Tick, RtcDue, base, setter
    <2>2. Wakeups' = Wakeups /\ now \in Nat /\ rtcOff \in Int /\ rtc_alarm \in Int
        BY <2>1 DEF Wakeups, ClockTypeInv
    <2>3. RtcSecond' = (now + rtcOff + 1) \div TPS
        BY <2>1, <2>2 DEF RtcSecond
    <2>4. RtcSecond' \in Int /\ RtcSecond <= RtcSecond'
        <3>1. now + rtcOff \in Int /\ now + rtcOff + 1 \in Int
            BY <2>2
        <3>2. QED
            BY <1>t, <2>3, <3>1, DivFacts, DivMono DEF RtcSecond
    <2>5. ASSUME now + rtcOff <= rtc_alarm * TPS PROVE now' + rtcOff' <= rtc_alarm' * TPS
        <3>1. CASE RtcSecond < rtc_alarm
            <4>1. RtcSecond * TPS + TPS <= rtc_alarm * TPS
                BY <1>t, <1>c, <2>2, <3>1, MulMono
            <4>2. rtc_alarm * TPS \in Int
                BY <1>t, <2>2
            <4>3. QED
                BY <1>t, <1>c, <2>1, <2>2, <4>1, <4>2
        <3>2. CASE rtc_alarm < RtcSecond
            <4>1. rtc_alarm * TPS + TPS <= RtcSecond * TPS
                BY <1>t, <1>c, <2>2, <3>2, MulMono
            <4>2. rtc_alarm * TPS \in Int
                BY <1>t, <2>2
            <4>3. QED
                BY <1>t, <1>c, <2>2, <2>5, <4>1, <4>2
        <3>3. QED
            BY <1>c, <2>1, <2>2, <3>1, <3>2
    <2>6. power = "down" /\ Locked => Locked'
        BY <2>1 DEF Locked
    <2>7. time \in Int /\ (time <= RtcSecond => time <= RtcSecond')
        BY <1>c, <2>4 DEF ClockTypeInv
    <2>8. now' + rtcOff' >= 0
        BY <2>1, <2>2 DEF RtcInv
    <2>9. QED
        BY <2>1, <2>2, <2>5, <2>6, <2>7, <2>8 DEF RtcInv
<1>20. QED
    BY <1>1, <1>2, <1>3, <1>4, <1>5, <1>6, <1>7, <1>8, <1>9, <1>10, <1>11, <1>12, <1>13,
       <1>14, <1>15, <1>16, <1>17, <1>18, <1>19
       DEF Next, Starts, Cancels, Triggers, SetsRtc, Suspends

-----------------------------------------------------------------------------
AlarmInv ==
    /\ ClockTypeInv /\ QueueTypeInv /\ ModeInv
    /\ UniqueInv /\ ArmedInv /\ ElapsedInv /\ NoLaterInv /\ RtcInv

\* The inductive invariant: it holds at boot and after each step.
LEMMA AlarmInit == Init => AlarmInv
<1> SUFFICES ASSUME Init PROVE AlarmInv
    OBVIOUS
<1>1. ClockTypeInv
    BY TimeAssumption DEF Init, ClockTypeInv
<1>2. QueueTypeInv
    BY DEF Init, QueueTypeInv, Timers
<1>3. ModeInv
    BY DEF Init, ModeInv, Powers, Settings
<1>4. UniqueInv /\ ArmedInv /\ NoLaterInv
    BY DEF Init, UniqueInv, ArmedInv, Armed, NoLaterInv
<1>5. ElapsedInv
    BY DEF Init, ElapsedInv
<1>6. RtcInv
    BY TimeAssumption DEF Init, RtcInv
<1>7. QED
    BY <1>1, <1>2, <1>3, <1>4, <1>5, <1>6 DEF AlarmInv

LEMMA AlarmStep == AlarmInv /\ [Next]_vars => AlarmInv'
<1> SUFFICES ASSUME AlarmInv, [Next]_vars PROVE AlarmInv'
    OBVIOUS
<1> USE DEF AlarmInv
<1>1. CASE Next
    BY <1>1, ClockTypeStep, QueueTypeStep, ModeStep, UniqueStep, ArmedStep, ElapsedStep,
       NoLaterStep, RtcStep
<1>2. CASE UNCHANGED vars
    <2>1. UNCHANGED <<now, wallOff, rtcOff, slept, queue, timer, delta, stopped, stopped_time,
                      suspended, rtc_lock, rtc_alarm, power, setting, time, sets, error>>
        BY <1>2 DEF vars, clocks, base, setter
    <2>2. ClockTypeInv' /\ QueueTypeInv' /\ ModeInv' /\ UniqueInv' /\ ElapsedInv'
        BY <2>1 DEF ClockTypeInv, QueueTypeInv, ModeInv, UniqueInv, ElapsedInv
    <2>3. ArmedInv' /\ NoLaterInv'
        BY <2>1 DEF ArmedInv, Armed, Stopped, NoLaterInv, Delta
    <2>4. RtcInv'
        BY <2>1 DEF RtcInv, Wakeups, RtcSecond, Locked
    <2>5. QED
        BY <2>2, <2>3, <2>4
<1>3. QED
    BY <1>1, <1>2

LEMMA AlarmInvariant == Spec => []AlarmInv
BY AlarmInit, AlarmStep, PTL DEF Spec

(***************************************************************************)
(* Whatever order alarm_start_range, alarm_try_to_cancel, the timers'      *)
(* interrupts, alarm_set_rtc and suspend come in, an alarm is queued once  *)
(* at most and its queue's hrtimer is set for the first alarm, for any     *)
(* number of alarms and any times.                                         *)
(***************************************************************************)
THEOREM QueuesCorrect == Spec => []QueuesArmed
<1>1. AlarmInv => QueuesArmed
    <2> SUFFICES ASSUME AlarmInv PROVE QueuesArmed
        OBVIOUS
    <2>1. ASSUME NEW q \in Types, NEW i \in Ids
          PROVE  Cardinality({a \in queue[q] : a.id = i}) <= 1
        <3> DEFINE S == {a \in queue[q] : a.id = i}
        <3>1. CASE S = {}
            BY <3>1, FS_EmptySet
        <3>2. CASE S # {}
            <4>1. PICK a : a \in S
                BY <3>2
            <4>2. S = {a}
                BY <4>1 DEF AlarmInv, UniqueInv
            <4>3. Cardinality({a}) = 1
                BY FS_Singleton
            <4>4. QED
                BY <4>2, <4>3
        <3>3. QED
            BY <3>1, <3>2
    <2>2. QED
        BY <2>1 DEF AlarmInv, ArmedInv, QueuesArmed
<1>2. QED
    BY <1>1, AlarmInvariant, PTL

(***************************************************************************)
(* alarm_get_elapsed_realtime advances with the time since boot whatever   *)
(* the wall clock is set to, but for what each alarm_set_rtc accounts for. *)
(***************************************************************************)
THEOREM ElapsedCorrect == Spec => []ElapsedKept
<1>1. AlarmInv => ElapsedKept
    <2> SUFFICES ASSUME AlarmInv, ~stopped PROVE elapsed_realtime = now - error
        BY DEF ElapsedKept
    <2>1. setting # "stopped"
        BY DEF AlarmInv, ModeInv
    <2>2. wallOff - delta + error = 0
        BY <2>1 DEF AlarmInv, ElapsedInv
    <2>3. elapsed_realtime = now + wallOff - delta
        <3>1. (IF stopped THEN stopped_time ELSE Wall) = Wall
            OBVIOUS
        <3>2. elapsed_realtime = Wall - delta
            BY <3>1, Zenon DEF elapsed_realtime
        <3>3. QED
            BY <3>2 DEF Wall, AlarmInv, ClockTypeInv
    <2>4. QED
        BY <2>2, <2>3 DEF AlarmInv, ClockTypeInv
<1>2. QED
    BY <1>1, AlarmInvariant, PTL

(***************************************************************************)
(* What alarm_suspend leaves in the RTC wakes the system before the wall   *)
(* clock passes any alarm of a wakeup type, for any offset between the two *)
(* clocks, any number of ticks in a second and any alarms.                 *)
(***************************************************************************)
THEOREM OversleptCorrect == Spec => []NeverOverslept
<1>1. AlarmInv => NeverOverslept
    <2> SUFFICES ASSUME AlarmInv, power = "asleep",
                        NEW q \in Types \cap WakeupTypes, NEW a \in queue[q]
                 PROVE  Wall <= Delta(q) + a.expires
        BY DEF NeverOverslept
    <2> USE DEF AlarmInv
    <2>1. q \in Wakeups /\ suspended
        BY DEF Wakeups, ModeInv
    <2>2. timer[q].at <= Delta(q) + a.expires
        BY <2>1 DEF NoLaterInv
    <2>3. now + rtcOff <= rtc_alarm * TPS /\ rtc_alarm * TPS <= timer[q].at - wallOff + rtcOff
        BY <2>1 DEF RtcInv
    <2>4. rtc_alarm * TPS \in Int /\ timer[q].at \in Int /\ Delta(q) \in Int
        BY TimeAssumption, ClockFacts DEF ClockTypeInv, QueueTypeInv, Timers
    <2>5. a \in Alarms
        BY DEF QueueTypeInv
    <2>6. a.expires \in Nat
        BY <2>5, TimeAssumption DEF Alarms
    <2>7. QED
        BY <2>2, <2>3, <2>4, <2>6 DEF Wall, ClockTypeInv
<1>2. QED
    BY <1>1, AlarmInvariant, PTL

-----------------------------------------------------------------------------
(***************************************************************************)
(* The alarm device keeps the system awake for an alarm until it is        *)
(* acknowledged, holds its wake lock only with a reason, and is left empty *)
(* by its owner, for any number of files, threads and alarm types.         *)
(*                                                                         *)
(* The argument rests on ownership: at most one file has private_data set, *)
(* only its threads get past the claim, and none of them is in a call once *)
(* its release has begun.  So the loop of alarm_release meets no SET, and  *)
(* what it has passed stays clear.                                         *)
(***************************************************************************)

\* A thread that has passed the claim.
Owns(t) ==
    \/ thread[t].at \in {"looks", "asleep", "takes"}
    \/ thread[t].at = "run" /\ thread[t].cmd # "SET_RTC"

Ownership ==
    /\ alarm_opened <=> private # {}
    /\ \A f, g \in private : f = g
    /\ private \subseteq open \cup {release.file}
    /\ release.file # None => release.file \in private /\ release.file \notin open
    /\ \A t \in Threads : thread[t].at # "idle" => FileOf(t) \in open
    /\ \A t \in Threads : Owns(t) => FileOf(t) \in private

Released ==
    /\ release.file = None => ~release.cleared
    /\ release.cleared => release.i < TYPE_COUNT /\ release.i \notin alarm_enabled
    /\ \A q \in started : q \in alarm_enabled \/ (release.cleared /\ q = release.i)
    /\ release.file # None => \A q \in alarm_enabled : q >= release.i
    /\ ~alarm_opened => alarm_enabled = {}

Acknowledged ==
    /\ ~wait_pending => unacked \subseteq alarm_pending
    /\ AwakeUntilAcknowledged
    /\ LockHasReason
    /\ ~alarm_opened => ~wait_pending /\ alarm_pending \subseteq {TIME_CHANGE}
    /\ ~alarm_opened => ~lock

IInv == AlarmDevTypeOK /\ Ownership /\ Released /\ Acknowledged

-----------------------------------------------------------------------------

\* The threads keep their type when one of them goes on, returns or is woken.
LEMMA ThreadTypes ==
  ASSUME NEW t \in Threads, thread \in [Threads -> ThreadStates]
  PROVE  /\ Idle \in ThreadStates
         /\ \A to \in Ats : Goes(t, to) => thread' \in [Threads -> ThreadStates]
         /\ Returns(t) => thread' \in [Threads -> ThreadStates]
         /\ Woken(thread) \in [Threads -> ThreadStates]
         /\ Woken([thread EXCEPT ![t] = Idle]) \in [Threads -> ThreadStates]
<1>1. Idle \in ThreadStates
  BY TypeCountAssumption DEF Idle, ThreadStates, Ats, Commands, AlarmTypes
<1>2. ASSUME NEW to \in Ats, Goes(t, to) PROVE thread' \in [Threads -> ThreadStates]
  <2>1. [thread[t] EXCEPT !.at = to] \in ThreadStates
    BY DEF ThreadStates
  <2> QED
    BY <1>2, <2>1 DEF Goes
<1>3. [thread EXCEPT ![t] = Idle] \in [Threads -> ThreadStates]
  BY <1>1
<1>4. ASSUME NEW threads \in [Threads -> ThreadStates]
      PROVE  Woken(threads) \in [Threads -> ThreadStates]
  <2>1. \A u \in Threads : [threads[u] EXCEPT !.at = "looks"] \in ThreadStates
    BY DEF ThreadStates, Ats
  <2> QED
    BY <2>1 DEF Woken
<1> QED
  BY <1>1, <1>2, <1>3, <1>4 DEF Returns

LEMMA ReleaseTypes ==
  /\ NotReleasing \in Releases
  /\ \A f \in Files : [NotReleasing EXCEPT !.file = f] \in Releases
<1>1. 0 \in 0 .. TYPE_COUNT
  BY TypeCountAssumption
<1> QED
  BY <1>1 DEF NotReleasing, Releases

LEMMA InitIInv == DevInit => IInv
<1> SUFFICES ASSUME DevInit PROVE IInv
  OBVIOUS
<1>1. AlarmDevTypeOK
  <2>1. Idle \in ThreadStates
    BY TypeCountAssumption DEF Idle, ThreadStates, Ats, Commands, AlarmTypes
  <2> QED
    BY <2>1, ReleaseTypes DEF DevInit, AlarmDevTypeOK
<1>2. Ownership
  BY NoneAssumption DEF DevInit, Ownership, Owns, Idle, NotReleasing
<1>3. Released
  BY DEF DevInit, Released, NotReleasing
<1>4. Acknowledged
  BY DEF DevInit, Acknowledged, AwakeUntilAcknowledged, LockHasReason
<1> QED
  BY <1>1, <1>2, <1>3, <1>4 DEF IInv

LEMMA TypeStep == AlarmDevTypeOK /\ Released /\ [DevNext]_devVars => AlarmDevTypeOK'
<1> SUFFICES ASSUME AlarmDevTypeOK, Released, [DevNext]_devVars PROVE AlarmDevTypeOK'
  OBVIOUS
<1> USE DEF AlarmDevTypeOK, opens, bits, wakes
<1>1. ASSUME NEW f \in Files, alarm_open(f) PROVE AlarmDevTypeOK'
  BY <1>1 DEF alarm_open
<1>2. ASSUME NEW f \in Files, release_begins(f) PROVE AlarmDevTypeOK'
  <2>1. release' \in Releases
    BY <1>2, ReleaseTypes DEF release_begins
  <2> QED
    BY <1>2, <2>1 DEF release_begins
<1>3. ASSUME NEW t \in Threads, NEW cmd \in Commands, NEW type \in AlarmTypes,
             alarm_ioctl(t, cmd, type)
      PROVE  AlarmDevTypeOK'
  <2>1. \A at \in Ats : [at |-> at, cmd |-> cmd, type |-> type] \in ThreadStates
    BY DEF ThreadStates
  <2>2. {"claim", "run"} \subseteq Ats
    BY DEF Ats
  <2>3. thread' \in [Threads -> ThreadStates]
    BY <1>3, <2>1, <2>2 DEF alarm_ioctl
  <2> QED
    BY <1>3, <2>3 DEF alarm_ioctl
<1>4. ASSUME NEW t \in Threads, Continues(t) \/ ioctl_interrupted(t) PROVE AlarmDevTypeOK'
  <2>0. {"run", "looks", "asleep", "takes"} \subseteq Ats
    BY DEF Ats
  <2>1. FileOf(t) \in Files
    BY DEF FileOf, Threads
  <2>2. thread[t].type \in AlarmTypes
    BY DEF ThreadStates
  <2>3. CASE ioctl_claims(t)
    BY <2>0, <2>1, <2>3, ThreadTypes DEF ioctl_claims
  <2>4. CASE ioctl_clears(t)
    <3>1. thread' \in [Threads -> ThreadStates]
      BY <2>4, ThreadTypes DEF ioctl_clears
    <3>2. lock' \in BOOLEAN /\ lapsed' \in BOOLEAN
      BY <2>4 DEF ioctl_clears, wake_unlock
    <3> QED
      BY <2>4, <3>1, <3>2 DEF ioctl_clears
  <2>5. CASE ioctl_sets(t)
    <3>1. thread' \in [Threads -> ThreadStates]
      <4>1. [thread[t] EXCEPT !.cmd = "WAIT"] \in ThreadStates
        BY DEF ThreadStates, Commands
      <4> QED
        BY <2>5, <4>1, ThreadTypes DEF ioctl_sets
    <3> QED
      BY <2>2, <2>5, <3>1 DEF ioctl_sets
  <2>6. CASE ioctl_acknowledges(t)
    <3>1. thread' \in [Threads -> ThreadStates]
      BY <2>0, <2>6, ThreadTypes DEF ioctl_acknowledges
    <3>2. lock' \in BOOLEAN /\ lapsed' \in BOOLEAN /\ wait_pending' \in BOOLEAN
          /\ unacked' \subseteq AlarmTypes
      BY <2>6 DEF ioctl_acknowledges, wake_unlock
    <3> QED
      BY <2>6, <3>1, <3>2 DEF ioctl_acknowledges
  <2>7. CASE ioctl_looks(t)
    BY <2>0, <2>7, ThreadTypes DEF ioctl_looks
  <2>8. CASE ioctl_interrupted(t)
    BY <2>8, ThreadTypes DEF ioctl_interrupted
  <2>9. CASE ioctl_takes(t)
    BY <2>9, ThreadTypes DEF ioctl_takes
  <2>10. CASE ioctl_set_rtc(t)
    BY <2>10, ThreadTypes DEF ioctl_set_rtc
  <2> QED
    BY <1>4, <2>3, <2>4, <2>5, <2>6, <2>7, <2>8, <2>9, <2>10 DEF Continues
<1>5. ASSUME NEW type \in AlarmTypes, alarm_triggered(type) PROVE AlarmDevTypeOK'
  <2>1. thread' \in [Threads -> ThreadStates]
    <3>1. Woken(thread) \in [Threads -> ThreadStates]
      <4>1. \A u \in Threads : [thread[u] EXCEPT !.at = "looks"] \in ThreadStates
        BY DEF ThreadStates, Ats
      <4> QED
        BY <4>1 DEF Woken
    <3> QED
      BY <1>5, <3>1 DEF alarm_triggered
  <2>2. lock' \in BOOLEAN /\ lapsed' \in BOOLEAN
    BY <1>5 DEF alarm_triggered
  <2> QED
    BY <1>5, <2>1, <2>2 DEF alarm_triggered
<1>6. CASE LockExpires
  BY <1>6 DEF LockExpires
<1>7. CASE release_clears
  <2>1. release' \in Releases
    BY <1>7 DEF release_clears, Releases
  <2> QED
    BY <1>7, <2>1 DEF release_clears
<1>8. CASE release_cancels
  <2>1. release.i + 1 \in 0 .. TYPE_COUNT
    BY <1>8, TypeCountAssumption DEF release_cancels, Released, Releases
  <2>2. release' \in Releases
    BY <1>8, <2>1 DEF release_cancels, Releases
  <2> QED
    BY <1>8, <2>2 DEF release_cancels
<1>9. CASE release_ends
  <2>1. lock' \in BOOLEAN /\ lapsed' \in BOOLEAN /\ wait_pending' \in BOOLEAN
        /\ unacked' \subseteq AlarmTypes /\ alarm_pending' \subseteq AlarmTypes \cup {TIME_CHANGE}
    BY <1>9 DEF release_ends
  <2> QED
    BY <1>9, <2>1, ReleaseTypes DEF release_ends
<1>10. CASE UNCHANGED devVars
  BY <1>10 DEF devVars
<1> QED
  BY <1>1, <1>2, <1>3, <1>4, <1>5, <1>6, <1>7, <1>8, <1>9, <1>10 DEF DevNext, Closes

-----------------------------------------------------------------------------
LEMMA OwnershipStep == IInv /\ [DevNext]_devVars => Ownership'
<1> SUFFICES ASSUME AlarmDevTypeOK, Ownership, [DevNext]_devVars PROVE Ownership'
  BY DEF IInv
<1> USE NoneAssumption DEF AlarmDevTypeOK, Ownership, opens, bits, wakes
<1>0. \A t \in Threads : FileOf(t) \in Files /\ \E i \in TaskIds : t = <<FileOf(t), i>>
  BY DEF Threads, FileOf
<1>1. ASSUME NEW f \in Files, alarm_open(f) PROVE Ownership'
  BY <1>1 DEF alarm_open, Owns
<1>2. ASSUME NEW f \in Files, release_begins(f) PROVE Ownership'
  <2>1. \A t \in Threads : FileOf(t) = f => thread[t].at = "idle"
    BY <1>0, <1>2 DEF release_begins
  <2>2. CASE f \in private
    <3>1. release' = [file |-> f, i |-> 0, cleared |-> FALSE]
      BY <1>2, <2>2 DEF release_begins, NotReleasing
    <3> QED
      BY <1>2, <2>1, <2>2, <3>1 DEF release_begins, Owns
  <2>3. CASE f \notin private
    BY <1>2, <2>1, <2>3 DEF release_begins, Owns
  <2> QED
    BY <2>2, <2>3
<1>3. ASSUME NEW t \in Threads, NEW cmd \in Commands, NEW type \in AlarmTypes,
             alarm_ioctl(t, cmd, type)
      PROVE  Ownership'
  <2>1. \A u \in Threads : u # t => thread'[u] = thread[u]
    BY <1>3 DEF alarm_ioctl
  <2>2. Owns(t)' => FileOf(t) \in private
    BY <1>3 DEF alarm_ioctl, Owns
  <2> QED
    BY <1>3, <2>1, <2>2 DEF alarm_ioctl, Owns
<1>4. ASSUME NEW t \in Threads, Continues(t) \/ ioctl_interrupted(t) PROVE Ownership'
  <2>1. thread[t].at # "idle" /\ UNCHANGED <<open, release>>
    BY <1>4 DEF Continues, ioctl_claims, ioctl_clears, ioctl_sets, ioctl_acknowledges, ioctl_looks,
       ioctl_takes, ioctl_set_rtc, ioctl_interrupted, Runs
  <2>2. \A u \in Threads : u # t => /\ thread'[u].at # "idle" => thread[u].at # "idle"
                                    /\ Owns(u)' => Owns(u)
    <3>1. \A u \in Threads : u # t /\ ~ioctl_set_rtc(t) => thread'[u] = thread[u]
      BY <1>4 DEF Continues, ioctl_claims, ioctl_clears, ioctl_sets, ioctl_acknowledges, ioctl_looks,
         ioctl_takes, ioctl_interrupted, Goes, Returns
    <3>2. ASSUME ioctl_set_rtc(t), NEW u \in Threads, u # t
          PROVE  /\ thread'[u].at # "idle" => thread[u].at # "idle"
                 /\ Owns(u)' => Owns(u)
      BY <3>2 DEF ioctl_set_rtc, Woken, Owns, ThreadStates
    <3> QED
      BY <3>1, <3>2 DEF Owns
  <2>3. CASE ioctl_claims(t) /\ ~alarm_opened
    BY <2>1, <2>2, <2>3, <1>0 DEF ioctl_claims
  <2>4. CASE ~(ioctl_claims(t) /\ ~alarm_opened)
    <3>1. UNCHANGED <<private, alarm_opened>>
      BY <1>4, <2>4 DEF Continues, ioctl_claims, ioctl_clears, ioctl_sets, ioctl_acknowledges,
         ioctl_looks, ioctl_takes, ioctl_set_rtc, ioctl_interrupted
    <3>2. Owns(t)' => Owns(t)
      BY <1>4, <2>4 DEF Continues, ioctl_claims, ioctl_clears, ioctl_sets, ioctl_acknowledges,
         ioctl_looks, ioctl_takes, ioctl_set_rtc, ioctl_interrupted, Goes, Returns, Runs, Owns, Idle,
         Woken, ThreadStates
    <3> QED
      BY <2>1, <2>2, <3>1, <3>2
  <2> QED
    BY <2>3, <2>4
<1>5. ASSUME NEW type \in AlarmTypes, alarm_triggered(type) PROVE Ownership'
  <2>1. UNCHANGED <<opens, release>>
    BY <1>5 DEF alarm_triggered
  <2>2. ASSUME NEW u \in Threads
        PROVE  /\ thread'[u].at # "idle" => thread[u].at # "idle"
               /\ Owns(u)' => Owns(u)
    <3>1. thread'[u] = thread[u] \/ thread' = Woken(thread)
      BY <1>5 DEF alarm_triggered
    <3> QED
      BY <3>1 DEF Woken, Owns, ThreadStates
  <2> QED
    BY <2>1, <2>2
<1>6. CASE LockExpires
  BY <1>6 DEF LockExpires, Owns
<1>7. CASE release_clears
  BY <1>7 DEF release_clears, Owns, Releases
<1>8. CASE release_cancels
  BY <1>8 DEF release_cancels, Owns, Releases
<1>9. CASE release_ends
  <2>1. release' = [file |-> None, i |-> 0, cleared |-> FALSE]
    BY <1>9 DEF release_ends, NotReleasing
  <2>2. private = {release.file} /\ private' = {} /\ ~alarm_opened'
    BY <1>9 DEF release_ends
  <2>3. UNCHANGED <<open, thread>>
    BY <1>9 DEF release_ends
  <2>4. \A t \in Threads : ~Owns(t)
    BY <2>2, <1>9 DEF release_ends, Owns
  <2> QED
    BY <2>1, <2>2, <2>3, <2>4 DEF Owns
<1>10. CASE UNCHANGED devVars
  BY <1>10 DEF devVars, Owns
<1> QED
  BY <1>1, <1>2, <1>3, <1>4, <1>5, <1>6, <1>7, <1>8, <1>9, <1>10 DEF DevNext, Closes

-----------------------------------------------------------------------------
\* No thread of the owner is in a call while its release runs.
LEMMA ReleaseAlone ==
  ASSUME AlarmDevTypeOK, Ownership, NEW t \in Threads, Owns(t)
  PROVE  release.file = None /\ alarm_opened
  BY DEF AlarmDevTypeOK, Ownership, Owns

LEMMA ReleasedStep == IInv /\ [DevNext]_devVars => Released'
<1> SUFFICES ASSUME IInv, [DevNext]_devVars PROVE Released'
  OBVIOUS
<1> USE DEF IInv, AlarmDevTypeOK, Released, opens, bits, wakes
<1>0. release.i \in Nat /\ release.cleared \in BOOLEAN /\ alarm_enabled \subseteq Nat
  BY TypeCountAssumption DEF Releases, AlarmTypes
<1>1. ASSUME NEW f \in Files, alarm_open(f) PROVE Released'
  BY <1>1 DEF alarm_open
<1>2. ASSUME NEW f \in Files, release_begins(f) PROVE Released'
  <2>1. CASE f \in private
    <3>1. release' = [file |-> f, i |-> 0, cleared |-> FALSE]
      BY <1>2, <2>1 DEF release_begins, NotReleasing
    <3>2. ~release.cleared
      BY <1>2, <2>1, NoneAssumption DEF release_begins, Ownership
    <3> QED
      BY <1>0, <1>2, <3>1, <3>2 DEF release_begins
  <2>2. CASE f \notin private
    BY <1>2, <2>2 DEF release_begins
  <2> QED
    BY <2>1, <2>2
<1>3. ASSUME NEW t \in Threads, NEW cmd \in Commands, NEW type \in AlarmTypes,
             alarm_ioctl(t, cmd, type)
      PROVE  Released'
  BY <1>3 DEF alarm_ioctl
<1>4. ASSUME NEW t \in Threads, Continues(t) \/ ioctl_interrupted(t) PROVE Released'
  <2>1. CASE ioctl_claims(t)
    BY <2>1 DEF ioctl_claims
  <2>2. CASE ioctl_clears(t)
    <3>1. Owns(t)
      BY <2>2 DEF ioctl_clears, Runs, Owns
    <3> QED
      BY <2>2, <3>1, ReleaseAlone DEF ioctl_clears
  <2>3. CASE ioctl_sets(t)
    <3>1. Owns(t)
      BY <2>3 DEF ioctl_sets, Runs, Owns
    <3> QED
      BY <2>3, <3>1, ReleaseAlone DEF ioctl_sets
  <2>4. CASE \/ ioctl_acknowledges(t) \/ ioctl_looks(t) \/ ioctl_takes(t)
             \/ ioctl_set_rtc(t) \/ ioctl_interrupted(t)
    BY <2>4 DEF ioctl_acknowledges, ioctl_looks, ioctl_takes, ioctl_set_rtc, ioctl_interrupted
  <2> QED
    BY <1>4, <2>1, <2>2, <2>3, <2>4 DEF Continues
<1>5. ASSUME NEW type \in AlarmTypes, alarm_triggered(type) PROVE Released'
  BY <1>5 DEF alarm_triggered
<1>6. CASE LockExpires
  BY <1>6 DEF LockExpires
<1>7. CASE release_clears
  BY <1>0, <1>7 DEF release_clears, Releases
<1>8. CASE release_cancels
  BY <1>0, <1>8 DEF release_cancels, Releases
<1>9. CASE release_ends
  <2>1. release' = [file |-> None, i |-> 0, cleared |-> FALSE]
    BY <1>9 DEF release_ends, NotReleasing
  <2>2. alarm_enabled = {} /\ started = {}
    BY <1>0, <1>9, TypeCountAssumption DEF release_ends, AlarmTypes
  <2> QED
    BY <1>9, <2>1, <2>2 DEF release_ends
<1>10. CASE UNCHANGED devVars
  BY <1>10 DEF devVars
<1> QED
  BY <1>1, <1>2, <1>3, <1>4, <1>5, <1>6, <1>7, <1>8, <1>9, <1>10 DEF DevNext, Closes

LEMMA AcknowledgedStep == IInv /\ [DevNext]_devVars => Acknowledged'
<1> SUFFICES ASSUME IInv, [DevNext]_devVars PROVE Acknowledged'
  OBVIOUS
<1> USE DEF IInv, AlarmDevTypeOK, Acknowledged, AwakeUntilAcknowledged, LockHasReason,
            opens, bits, wakes
<1>1. ASSUME NEW f \in Files, alarm_open(f) PROVE Acknowledged'
  BY <1>1 DEF alarm_open
<1>2. ASSUME NEW f \in Files, release_begins(f) PROVE Acknowledged'
  BY <1>2 DEF release_begins
<1>3. ASSUME NEW t \in Threads, NEW cmd \in Commands, NEW type \in AlarmTypes,
             alarm_ioctl(t, cmd, type)
      PROVE  Acknowledged'
  BY <1>3 DEF alarm_ioctl
<1>4. ASSUME NEW t \in Threads, Continues(t) \/ ioctl_interrupted(t) PROVE Acknowledged'
  <2>1. CASE ioctl_claims(t)
    BY <2>1 DEF ioctl_claims
  <2>2. CASE ioctl_clears(t)
    <3>1. alarm_opened /\ alarm_opened'
      BY <2>2, ReleaseAlone DEF ioctl_clears, Runs, Owns
    <3>2. UNCHANGED wait_pending /\ alarm_pending' \subseteq alarm_pending
      BY <2>2 DEF ioctl_clears
    <3>3. ~wait_pending' => unacked' \subseteq alarm_pending'
      BY <2>2 DEF ioctl_clears
    <3>4. CASE alarm_pending # {} /\ alarm_pending' = {} /\ ~wait_pending
      <4>1. lock' = FALSE /\ unacked' = {}
        BY <2>2, <3>2, <3>3, <3>4 DEF ioctl_clears, wake_unlock
      <4> QED
        BY <3>1, <3>3, <4>1
    <3>5. CASE ~(alarm_pending # {} /\ alarm_pending' = {} /\ ~wait_pending)
      <4>1. UNCHANGED <<lock, lapsed>> /\ unacked' \subseteq unacked
        BY <2>2, <3>5 DEF ioctl_clears
      <4> QED
        BY <3>1, <3>2, <3>3, <3>5, <4>1
    <3> QED
      BY <3>4, <3>5
  <2>3. CASE ioctl_sets(t)
    BY <2>3 DEF ioctl_sets
  <2>4. CASE ioctl_acknowledges(t)
    <3>1. alarm_opened /\ alarm_opened' /\ UNCHANGED alarm_pending
      BY <2>4, ReleaseAlone DEF ioctl_acknowledges, Runs, Owns
    <3>2. CASE alarm_pending = {} /\ wait_pending
      BY <2>4, <3>1, <3>2 DEF ioctl_acknowledges, wake_unlock
    <3>3. CASE ~(alarm_pending = {} /\ wait_pending)
      BY <2>4, <3>1, <3>3 DEF ioctl_acknowledges
    <3> QED
      BY <3>2, <3>3
  <2>5. CASE ioctl_looks(t) \/ ioctl_interrupted(t)
    BY <2>5 DEF ioctl_looks, ioctl_interrupted
  <2>6. CASE ioctl_takes(t)
    <3>1. alarm_opened /\ alarm_opened'
      BY <2>6, ReleaseAlone DEF ioctl_takes, Owns
    <3> QED
      BY <2>6, <3>1 DEF ioctl_takes
  <2>7. CASE ioctl_set_rtc(t)
    BY <2>7 DEF ioctl_set_rtc
  <2> QED
    BY <1>4, <2>1, <2>2, <2>3, <2>4, <2>5, <2>6, <2>7 DEF Continues
<1>5. ASSUME NEW type \in AlarmTypes, alarm_triggered(type) PROVE Acknowledged'
  <2>1. CASE type \in alarm_enabled
    <3>1. alarm_opened /\ alarm_opened'
      BY <1>5, <2>1 DEF alarm_triggered, Released
    <3> QED
      BY <1>5, <2>1, <3>1 DEF alarm_triggered
  <2>2. CASE type \notin alarm_enabled
    BY <1>5, <2>2 DEF alarm_triggered
  <2> QED
    BY <2>1, <2>2
<1>6. CASE LockExpires
  BY <1>6 DEF LockExpires
<1>7. CASE release_clears
  BY <1>7 DEF release_clears
<1>8. CASE release_cancels
  BY <1>8 DEF release_cancels
<1>9. CASE release_ends
  BY <1>9 DEF release_ends
<1>10. CASE UNCHANGED devVars
  BY <1>10 DEF devVars
<1> QED
  BY <1>1, <1>2, <1>3, <1>4, <1>5, <1>6, <1>7, <1>8, <1>9, <1>10 DEF DevNext, Closes

-----------------------------------------------------------------------------
\* The inductive invariant holds in every behaviour of the alarm device.
LEMMA Inductive == DevSpec => []IInv
<1>1. IInv /\ [DevNext]_devVars => IInv'
  BY TypeStep, OwnershipStep, ReleasedStep, AcknowledgedStep DEF IInv
<1> QED
  BY <1>1, InitIInv, PTL DEF DevSpec

(***************************************************************************)
(* The variables of alarm-dev.c keep to their types, for any number of     *)
(* files, threads and alarm types.                                         *)
(***************************************************************************)
THEOREM AlarmDevTypeCorrect == DevSpec => []AlarmDevTypeOK
<1>1. IInv => AlarmDevTypeOK
  BY DEF IInv
<1> QED
  BY <1>1, Inductive, PTL

(***************************************************************************)
(* An alarm that was triggered keeps the wake lock until it is             *)
(* acknowledged by ANDROID_ALARM_WAIT or cleared, or the lock times out.   *)
(***************************************************************************)
THEOREM AlarmKeepsAwake == DevSpec => []AwakeUntilAcknowledged
<1>1. IInv => AwakeUntilAcknowledged
  BY DEF IInv, Acknowledged
<1> QED
  BY <1>1, Inductive, PTL

(***************************************************************************)
(* The wake lock of alarm-dev.c is never held without an alarm to collect  *)
(* or to acknowledge.                                                      *)
(***************************************************************************)
THEOREM AlarmLockHasReason == DevSpec => []LockHasReason
<1>1. IInv => LockHasReason
  BY DEF IInv, Acknowledged
<1> QED
  BY <1>1, Inductive, PTL

(***************************************************************************)
(* alarm_release leaves no alarm, no wake lock and no answer to be         *)
(* acknowledged behind, although it gives up its lock in the loop.         *)
(***************************************************************************)
THEOREM AlarmReleaseClean == DevSpec => []ReleasedLeavesNothing
<1>1. IInv => ReleasedLeavesNothing
  BY NoneAssumption DEF IInv, Ownership, Released, Acknowledged, ReleasedLeavesNothing, AlarmDevTypeOK
<1> QED
  BY <1>1, Inductive, PTL
=============================================================================
