------------------------------- MODULE Alarm --------------------------------
(***************************************************************************)
(* drivers/rtc/alarm.c: queues of alarms on the wall clock, on the elapsed *)
(* realtime that the wall clock carries with an offset, and on the system  *)
(* time that stands still in suspend.  One processor: a section under      *)
(* alarm_slock, and a timer's callback in its interrupt, is one step.      *)
(* Times are counted in ticks of a fraction of a second since boot, the    *)
(* real time clock only shows seconds.                                     *)
(*                                                                         *)
(* Left out: the half second that rtc_resume may be wrong by when it sets  *)
(* the wall clock after a sleep, and ranges (the one user of               *)
(* alarm_start_range in this configuration, alarm-dev.c, passes two equal  *)
(* times).                                                                 *)
(***************************************************************************)
EXTENDS Integers, FiniteSets

CONSTANTS
    Types,          \* the queues in use
    Ids,            \* alarms of each type
    TPS,            \* ticks per second
    MaxTime,        \* bound on the time, in ticks
    Times,          \* times that alarms are set for
    NewTimes,       \* times that alarm_set_rtc sets the wall clock to
    MaxSets         \* bound on calls of alarm_set_rtc

SYSTEMTIME == "SYSTEMTIME"
WakeupTypes == {"RTC_WAKEUP", "ELAPSED_REALTIME_WAKEUP"}
ElapsedTypes == {"ELAPSED_REALTIME_WAKEUP", "ELAPSED_REALTIME"}

ASSUME TypesAssumption == Types \subseteq WakeupTypes \cup ElapsedTypes \cup {"RTC", SYSTEMTIME}
ASSUME TimeAssumption == TPS \in Nat \ {0} /\ MaxTime \in Nat /\ Times \subseteq Nat
ASSUME SetAssumption == NewTimes \subseteq Nat /\ MaxSets \in Nat

VARIABLES
    now, wallOff, rtcOff, slept,    \* the clocks: time since boot, offsets from it
    queue,          \* the alarms of each queue and when they expire
    timer,          \* its hrtimer: started or not, and its expiry
    delta,          \* of the two elapsed realtime queues; 0 for the others
    stopped,        \* of all queues but SYSTEMTIME
    stopped_time,
    suspended,
    rtc_lock,       \* alarm_rtc_wake_lock is held until this time
    rtc_alarm,      \* the second that the RTC interrupts at, -1 for none
    power,          \* where the system is in suspend and resume
    setting,        \* where alarm_set_rtc is
    time,           \* new_time of alarm_set_rtc, or rtc_alarm_time of alarm_suspend
    sets, error     \* calls of alarm_set_rtc; what the elapsed realtime lost by them

clocks == <<now, wallOff, rtcOff, slept>>
base == <<queue, timer, delta, stopped, stopped_time, suspended>>
setter == <<setting, time, sets, error>>
vars == <<clocks, base, rtc_lock, rtc_alarm, power, setter>>

-----------------------------------------------------------------------------
Wall == now + wallOff
RtcSecond == (now + rtcOff) \div TPS
Clock(q) == IF q = SYSTEMTIME THEN now - slept ELSE Wall

Delta(q) == IF q \in ElapsedTypes THEN delta ELSE 0
Stopped(q) == stopped /\ q # SYSTEMTIME

Forever == MaxTime + 4 * TPS
Locked == rtc_lock > now

\* When the first alarm of a queue expires.
First(alarms) == CHOOSE t \in {a.expires : a \in alarms} : \A a \in alarms : t <= a.expires

(***************************************************************************)
(* update_timer_locked: the timer and the wake lock that it leaves, for a  *)
(* queue with this timer, these alarms and flags.  A queue that has        *)
(* become empty leaves its timer running.                                  *)
(***************************************************************************)
Updated(q, old, alarms, is_stopped, is_suspended) ==
    IF is_stopped \/ alarms = {} \/ (q \in WakeupTypes /\ is_suspended)
    THEN old
    ELSE [on |-> TRUE, at |-> Delta(q) + First(alarms)]

LockUpdated(q, alarms, head_removed) ==
    IF Stopped(q) \/ q \notin WakeupTypes THEN rtc_lock
    ELSE IF ~suspended /\ head_removed THEN 0
    ELSE IF suspended /\ alarms # {} THEN now + TPS
    ELSE rtc_lock

\* The queue becomes alarms; its head has changed or not.
Requeue(q, alarms, head_changed, head_removed) ==
    /\ queue' = [queue EXCEPT ![q] = alarms]
    /\ IF head_changed
       THEN /\ timer' = [timer EXCEPT ![q] = Updated(q, @, alarms, Stopped(q), suspended)]
            /\ rtc_lock' = LockUpdated(q, alarms, head_removed)
       ELSE UNCHANGED <<timer, rtc_lock>>
    /\ UNCHANGED <<delta, stopped, stopped_time, suspended>>

Heads(q) == {a \in queue[q] : a.expires = First(queue[q])}

-----------------------------------------------------------------------------
(***************************************************************************)
(* alarm_start_range.  Alarms that expire together stay in the order they  *)
(* were set in, so one of the heads of the model is the node in first.     *)
(***************************************************************************)
alarm_start_leftmost(q, i, t) ==
    /\ power = "on"
    /\ LET others == {a \in queue[q] : a.id # i}
       IN Requeue(q, others \cup {[id |-> i, expires |-> t]},
                  \A a \in others : t < a.expires, FALSE)
    /\ UNCHANGED <<clocks, rtc_alarm, power, setter>>

alarm_start(q, i, t) ==
    /\ power = "on"
    /\ LET others == {a \in queue[q] : a.id # i}
           leftmost == \A a \in others : t < a.expires
       IN \E was_first \in {Heads(q) # {} /\ Heads(q) \subseteq queue[q] \ others,
                            \E a \in Heads(q) : a.id = i} :
             Requeue(q, others \cup {[id |-> i, expires |-> t]}, leftmost \/ was_first, was_first)
    /\ UNCHANGED <<clocks, rtc_alarm, power, setter>>

\* alarm_try_to_cancel; alarm_cancel has no running callback to wait for.
alarm_try_to_cancel(q, i) ==
    /\ power = "on"
    /\ \E a \in queue[q] :
          /\ a.id = i
          /\ \E first \in {Heads(q) = {a}, a \in Heads(q)} :
                Requeue(q, queue[q] \ {a}, first, TRUE)
    /\ UNCHANGED <<clocks, rtc_alarm, power, setter>>

(***************************************************************************)
(* alarm_timer_triggered, in the timer's interrupt.                        *)
(***************************************************************************)
Due(q) == timer[q].on /\ timer[q].at <= Clock(q) /\ power # "asleep"

Expired(q) ==
    LET clock == (IF Stopped(q) THEN stopped_time ELSE Clock(q)) - Delta(q)
    IN {a \in queue[q] : a.expires <= clock}

alarm_timer_triggered(q) ==
    /\ Due(q)
    /\ LET left == queue[q] \ Expired(q)
       IN /\ queue' = [queue EXCEPT ![q] = left]
          /\ timer' = [timer EXCEPT ![q] =
                         Updated(q, [@ EXCEPT !.on = FALSE], left, Stopped(q), suspended)]
          /\ rtc_lock' = LockUpdated(q, left, TRUE)
    /\ UNCHANGED <<clocks, delta, stopped, stopped_time, suspended, rtc_alarm, power, setter>>

-----------------------------------------------------------------------------
(***************************************************************************)
(* alarm_set_rtc, under a mutex of its own: the two sections under the     *)
(* spin lock, the call of do_settimeofday between them, and the RTC.       *)
(***************************************************************************)
set_rtc_stops_unadjusted(new) ==
    /\ power = "on" /\ setting = "idle" /\ sets < MaxSets
    /\ setting' = "stopped" /\ time' = new /\ sets' = sets + 1
    /\ stopped' = TRUE /\ stopped_time' = Wall
    /\ timer' = [q \in Types |-> IF q = SYSTEMTIME THEN timer[q] ELSE [timer[q] EXCEPT !.on = FALSE]]
    /\ rtc_lock' = Forever
    /\ UNCHANGED <<clocks, queue, delta, suspended, rtc_alarm, power, error>>

set_rtc_stops(new) ==
    /\ power = "on" /\ setting = "idle" /\ sets < MaxSets
    /\ setting' = "stopped" /\ time' = new /\ sets' = sets + 1
    /\ stopped' = TRUE /\ stopped_time' = Wall
    /\ timer' = [q \in Types |-> IF q = SYSTEMTIME THEN timer[q] ELSE [timer[q] EXCEPT !.on = FALSE]]
    /\ delta' = delta - (Wall - new)
    /\ rtc_lock' = Forever
    /\ UNCHANGED <<clocks, queue, suspended, rtc_alarm, power, error>>

set_rtc_settimeofday ==
    /\ setting = "stopped" /\ setting' = "set"
    /\ wallOff' = time - now /\ error' = error + Wall - stopped_time
    /\ UNCHANGED <<now, rtcOff, slept, base, rtc_lock, rtc_alarm, power, time, sets>>

\* delta has been changed, and stays so.
set_rtc_settimeofday_fails ==
    /\ setting = "stopped" /\ setting' = "failed"
    /\ error' = error + time - stopped_time
    /\ UNCHANGED <<clocks, base, rtc_lock, rtc_alarm, power, time, sets>>

set_rtc_restarts ==
    /\ setting \in {"set", "failed"}
    /\ setting' = IF setting = "set" THEN "rtc" ELSE "end"
    /\ stopped' = FALSE
    /\ timer' = [q \in Types |-> IF q = SYSTEMTIME THEN timer[q]
                                 ELSE Updated(q, timer[q], queue[q], FALSE, suspended)]
    /\ UNCHANGED <<clocks, queue, delta, stopped_time, suspended, rtc_lock, rtc_alarm, power,
                   time, sets, error>>

\* rtc_set_time knows seconds only; where in its second the clock is stays open.
set_rtc_sets_clock ==
    /\ setting = "rtc" /\ setting' = "end"
    /\ \/ \E phase \in 0 .. TPS - 1 : rtcOff' = (time \div TPS) * TPS + phase - now
       \/ UNCHANGED rtcOff
    /\ UNCHANGED <<now, wallOff, slept, base, rtc_lock, rtc_alarm, power, time, sets, error>>

\* stopped_time is not read until it is set again.
set_rtc_ends ==
    /\ setting = "end" /\ setting' = "idle" /\ time' = 0
    /\ rtc_lock' = 0
    /\ stopped_time' = 0
    /\ UNCHANGED <<clocks, queue, timer, delta, stopped, suspended, rtc_alarm, power, sets, error>>

-----------------------------------------------------------------------------
(***************************************************************************)
(* Suspend begins when no wake lock is held; its freezer waits for the     *)
(* task in alarm_set_rtc.  alarm_suspend runs as a device's callback, with *)
(* interrupts enabled.                                                     *)
(***************************************************************************)
Freeze ==
    /\ power = "on" /\ ~Locked /\ setting = "idle" /\ power' = "frozen"
    /\ UNCHANGED <<clocks, base, rtc_lock, rtc_alarm, setter>>

suspend_marks ==
    /\ power = "frozen" /\ power' = "marked" /\ suspended' = TRUE
    /\ UNCHANGED <<clocks, queue, timer, delta, stopped, stopped_time, rtc_lock, rtc_alarm, setter>>

\* ELAPSED_REALTIME_WAKEUP_MASK is 4, the index of SYSTEMTIME.
suspend_cancels ==
    /\ power = "marked" /\ power' = "cancelled"
    /\ timer' = [q \in Types |-> IF q \in {"RTC_WAKEUP", SYSTEMTIME}
                                 THEN [timer[q] EXCEPT !.on = FALSE] ELSE timer[q]]
    /\ UNCHANGED <<clocks, queue, delta, stopped, stopped_time, suspended, rtc_lock, rtc_alarm, setter>>

\* The timer of the earlier wakeup queue, in seconds of the RTC.
Wakeups == {q \in Types \cap WakeupTypes : queue[q] # {}}

RtcAlarmTime ==
    LET at == CHOOSE t \in {timer[q].at : q \in Wakeups} : \A q \in Wakeups : t <= timer[q].at
        rtc_delta == Wall - RtcSecond * TPS
    IN (at - rtc_delta) \div TPS

\* The RTC and the wall clock are read in one step, and the RTC can be read and set: the
\* code looks at no error of rtc_read_time and rtc_set_alarm.  Time between the two reads
\* makes rtc_delta larger and the RTC alarm earlier.  An alarm for a second that has begun
\* does not interrupt.
suspend_sets_alarm ==
    /\ power = "cancelled"
    /\ \/ /\ Wakeups = {} /\ power' = "down" /\ UNCHANGED <<rtc_alarm, time>>
       \/ /\ Wakeups # {} /\ power' = "armed"
          /\ rtc_alarm' = IF RtcAlarmTime > RtcSecond THEN RtcAlarmTime ELSE -1
          /\ time' = RtcAlarmTime
    /\ UNCHANGED <<clocks, base, rtc_lock, setting, sets, error>>

suspend_looks_unchecked ==
    /\ power = "armed" /\ power' = "down" /\ time' = 0
    /\ UNCHANGED <<clocks, base, rtc_lock, rtc_alarm, setting, sets, error>>

suspend_looks ==
    /\ power = "armed" /\ time' = 0
    /\ \/ /\ RtcSecond + 1 < time /\ power' = "down"
          /\ UNCHANGED <<timer, suspended, rtc_lock, rtc_alarm>>
       \/ /\ RtcSecond + 1 >= time /\ power' = "on"
          /\ rtc_alarm' = -1 /\ suspended' = FALSE /\ rtc_lock' = now + 2 * TPS
          /\ timer' = [q \in Types |-> IF q \in WakeupTypes
                         THEN Updated(q, timer[q], queue[q], stopped, FALSE) ELSE timer[q]]
    /\ UNCHANGED <<clocks, queue, delta, stopped, stopped_time, setting, sets, error>>

\* power_suspend_late refuses to sleep while a lock is held.
Sleep ==
    /\ power = "down" /\ ~Locked /\ power' = "asleep"
    /\ UNCHANGED <<clocks, base, rtc_lock, rtc_alarm, setter>>

\* Another source of interrupts wakes the system, or suspend fails.
Wakes ==
    /\ \/ power = "frozen" /\ power' = "on"
       \/ power \in {"asleep", "down"} /\ power' = "resuming"
    /\ UNCHANGED <<clocks, base, rtc_lock, rtc_alarm, setter>>

RtcDue == rtc_alarm = RtcSecond

alarm_triggered_func ==
    /\ RtcDue
    /\ rtc_lock' = now + TPS /\ rtc_alarm' = -1
    /\ power' = IF power = "asleep" THEN "resuming" ELSE power
    /\ UNCHANGED <<clocks, base, setter>>

alarm_resume ==
    /\ power = "resuming" /\ power' = "on"
    /\ rtc_alarm' = -1 /\ suspended' = FALSE
    /\ timer' = [q \in Types |-> IF q \in WakeupTypes
                   THEN Updated(q, timer[q], queue[q], stopped, FALSE) ELSE timer[q]]
    /\ UNCHANGED <<clocks, queue, delta, stopped, stopped_time, rtc_lock, setter>>

(***************************************************************************)
(* Time passes and ends a lock.  Interrupts that are due come first, and   *)
(* what is left of suspend after alarm_suspend is assumed to reach its     *)
(* check of the wake locks within the second of the RTC's lock.            *)
(***************************************************************************)
Tick ==
    /\ now < MaxTime /\ now' = now + 1
    /\ ~RtcDue /\ \A q \in Types : ~Due(q)
    /\ power = "down" /\ Locked => rtc_lock > now + 1
    /\ rtc_lock' = IF rtc_lock > now + 1 THEN rtc_lock ELSE 0
    /\ slept' = IF power = "asleep" THEN slept + 1 ELSE slept
    /\ UNCHANGED <<wallOff, rtcOff, base, rtc_alarm, power, setter>>

-----------------------------------------------------------------------------
Init ==
    /\ now = 0 /\ slept = 0 /\ wallOff = 0 /\ rtcOff \in 0 .. TPS - 1
    /\ queue = [q \in Types |-> {}] /\ timer = [q \in Types |-> [on |-> FALSE, at |-> 0]]
    /\ delta = 0 /\ stopped = FALSE /\ stopped_time = 0 /\ suspended = FALSE
    /\ rtc_lock = 0 /\ rtc_alarm = -1 /\ power = "on"
    /\ setting = "idle" /\ time = 0 /\ sets = 0 /\ error = 0

Starts == \E q \in Types, i \in Ids, t \in Times : alarm_start(q, i, t)
Cancels == \E q \in Types, i \in Ids : alarm_try_to_cancel(q, i)
Triggers == \E q \in Types : alarm_timer_triggered(q)

SetsRtc ==
    \/ \E new \in NewTimes : set_rtc_stops(new)
    \/ set_rtc_settimeofday \/ set_rtc_settimeofday_fails
    \/ set_rtc_restarts \/ set_rtc_sets_clock \/ set_rtc_ends

Suspends ==
    \/ Freeze \/ suspend_marks \/ suspend_cancels \/ suspend_sets_alarm \/ suspend_looks
    \/ Sleep \/ Wakes \/ alarm_triggered_func \/ alarm_resume

Next == Starts \/ Cancels \/ Triggers \/ SetsRtc \/ Suspends \/ Tick

Spec == Init /\ [][Next]_vars

-----------------------------------------------------------------------------
Armed(q) ==
    queue[q] # {} /\ ~Stopped(q) /\ ~(suspended /\ q \in WakeupTypes)
    => timer[q] = [on |-> TRUE, at |-> Delta(q) + First(queue[q])]

(***************************************************************************)
(* An alarm is in its queue once at most, and a queue with alarms has its  *)
(* timer started for the first of them, whatever starts, cancels, settings *)
(* of the clock and suspends there have been, except while the queue is    *)
(* stopped, or waits for alarm_resume.  The queue of SYSTEMTIME is left    *)
(* out: alarm_suspend cancels its timer by a wrong index (alarm.c:393) and *)
(* nothing starts it again.                                                *)
(***************************************************************************)
QueuesArmed ==
    /\ \A q \in Types, i \in Ids : Cardinality({a \in queue[q] : a.id = i}) <= 1
    /\ \A q \in Types \ {SYSTEMTIME} : Armed(q)

(***************************************************************************)
(* The system does not sleep through an alarm of a wakeup type: the RTC is *)
(* set to a second before it, or suspend refused, although the RTC counts  *)
(* whole seconds, differs from the wall clock, and time passes in suspend. *)
(***************************************************************************)
NeverOverslept ==
    power = "asleep" =>
        \A q \in Types \cap WakeupTypes : \A a \in queue[q] : Wall <= Delta(q) + a.expires

\* What alarm_get_elapsed_realtime returns.
elapsed_realtime == (IF stopped THEN stopped_time ELSE Wall) - delta

(***************************************************************************)
(* Setting the wall clock leaves the elapsed realtime alone, but for the   *)
(* time that alarm_set_rtc takes up to the change, or, where the time is   *)
(* refused, for the change that was asked for: the old time of day belongs *)
(* to the new delta then.                                                  *)
(***************************************************************************)
ElapsedKept == ~stopped => elapsed_realtime = now - error
=============================================================================
