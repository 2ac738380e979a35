------------------------------ MODULE AlarmDev -------------------------------
(***************************************************************************)
(* drivers/rtc/alarm-dev.c: the file through which user space sets one     *)
(* alarm of each type and waits for them.  Of alarm.c only this is used:   *)
(* an alarm that was started calls alarm_triggered once, at some time,     *)
(* unless it is cancelled before (Alarm models when).  A section under     *)
(* alarm_slock is one step.  ANDROID_ALARM_GET_TIME, which changes         *)
(* nothing, and calls that fail with EFAULT are left out.                  *)
(***************************************************************************)
EXTENDS Naturals, FiniteSets

CONSTANTS
    Files,          \* open files of the device
    TaskIds,        \* threads that use each of them
    TYPE_COUNT,     \* ANDROID_ALARM_TYPE_COUNT
    TIME_CHANGE,    \* the bit of ANDROID_ALARM_TIME_CHANGE_MASK
    None            \* no file

ASSUME TypeCountAssumption == TYPE_COUNT \in Nat \ {0}
ASSUME TimeChangeAssumption == TIME_CHANGE \in Nat /\ TIME_CHANGE >= TYPE_COUNT
ASSUME NoneAssumption == None \notin Files

AlarmTypes == 0 .. TYPE_COUNT - 1
Threads == Files \X TaskIds
FileOf(t) == t[1]

VARIABLES
    open,           \* files that are open
    private,        \* files whose private_data is set
    alarm_opened,
    alarm_enabled, alarm_pending,   \* sets of bits
    wait_pending,
    started,        \* alarms in the queues of alarm.c
    lock,           \* alarm_wake_lock is held
    thread,         \* where each thread is in alarm_ioctl, and the alarm type
    release,        \* alarm_release of the owner: the file, and its loop
    lapsed,         \* the lock ended by its timeout, not by the program
    unacked         \* alarms triggered, and neither cleared nor acknowledged

opens == <<open, private, alarm_opened>>
bits == <<alarm_enabled, alarm_pending, wait_pending, started>>
wakes == <<lock, lapsed, unacked>>
devVars == <<opens, bits, wakes, thread, release>>

Commands == {"CLEAR", "SET", "SET_AND_WAIT", "WAIT", "SET_RTC"}
Ats == {"idle", "claim", "run", "looks", "asleep", "takes"}
ThreadStates == [at : Ats, cmd : Commands, type : AlarmTypes]
Releases == [file : Files \cup {None}, i : 0 .. TYPE_COUNT, cleared : BOOLEAN]

Idle == [at |-> "idle", cmd |-> "WAIT", type |-> 0]
NotReleasing == [file |-> None, i |-> 0, cleared |-> FALSE]

Goes(t, to) == thread' = [thread EXCEPT ![t].at = to]
Returns(t) == thread' = [thread EXCEPT ![t] = Idle]

\* wake_up(&alarm_wait_queue): every waiter looks again.
Woken(threads) ==
    [t \in Threads |-> IF threads[t].at = "asleep" THEN [threads[t] EXCEPT !.at = "looks"]
                       ELSE threads[t]]

wake_unlock == lock' = FALSE /\ lapsed' = FALSE

-----------------------------------------------------------------------------
alarm_open(f) ==
    /\ f \in Files \ open /\ release.file # f
    /\ open' = open \cup {f}
    /\ UNCHANGED <<private, alarm_opened, bits, wakes, thread, release>>

(***************************************************************************)
(* alarm_ioctl.  private_data is tested before the lock is taken.          *)
(***************************************************************************)
alarm_ioctl(t, cmd, type) ==
    /\ FileOf(t) \in open /\ thread[t].at = "idle"
    /\ thread' = [thread EXCEPT ![t] =
                    [at |-> IF cmd # "SET_RTC" /\ FileOf(t) \notin private THEN "claim" ELSE "run",
                     cmd |-> cmd, type |-> type]]
    /\ UNCHANGED <<opens, bits, wakes, release>>

ioctl_claims_untested(t) ==
    /\ thread[t].at = "claim"
    /\ alarm_opened' = TRUE /\ private' = private \cup {FileOf(t)} /\ Goes(t, "run")
    /\ UNCHANGED <<open, bits, wakes, release>>

ioctl_claims(t) ==
    /\ thread[t].at = "claim"
    /\ \/ alarm_opened /\ Returns(t) /\ UNCHANGED <<private, alarm_opened>>
       \/ /\ ~alarm_opened /\ alarm_opened' = TRUE
          /\ private' = private \cup {FileOf(t)} /\ Goes(t, "run")
    /\ UNCHANGED <<open, bits, wakes, release>>

Runs(t, cmds) == thread[t].at = "run" /\ thread[t].cmd \in cmds

ioctl_clears_always(t) ==
    /\ Runs(t, {"CLEAR"}) /\ Returns(t)
    /\ LET type == thread[t].type
           left == alarm_pending \ {type}
       IN /\ started' = started \ {type} /\ alarm_pending' = left
          /\ alarm_enabled' = alarm_enabled \ {type}
          /\ unacked' = unacked \ (alarm_pending \cap {type})
          /\ IF alarm_pending # {} /\ left = {} THEN wake_unlock ELSE UNCHANGED <<lock, lapsed>>
    /\ UNCHANGED <<opens, wait_pending, release>>

ioctl_clears(t) ==
    /\ Runs(t, {"CLEAR"}) /\ Returns(t)
    /\ LET type == thread[t].type
           left == alarm_pending \ {type}
       IN /\ started' = started \ {type} /\ alarm_pending' = left
          /\ alarm_enabled' = alarm_enabled \ {type}
          /\ unacked' = unacked \ (alarm_pending \cap {type})
          /\ IF alarm_pending # {} /\ left = {} /\ ~wait_pending
             THEN wake_unlock ELSE UNCHANGED <<lock, lapsed>>
    /\ UNCHANGED <<opens, wait_pending, release>>

ioctl_sets(t) ==
    /\ Runs(t, {"SET", "SET_AND_WAIT"})
    /\ alarm_enabled' = alarm_enabled \cup {thread[t].type}
    /\ started' = started \cup {thread[t].type}
    /\ IF thread[t].cmd = "SET" THEN Returns(t)
       ELSE thread' = [thread EXCEPT ![t].cmd = "WAIT"]
    /\ UNCHANGED <<opens, alarm_pending, wait_pending, wakes, release>>

\* ANDROID_ALARM_WAIT acknowledges what the last one returned.
ioctl_acknowledges(t) ==
    /\ Runs(t, {"WAIT"}) /\ Goes(t, "looks")
    /\ IF alarm_pending = {} /\ wait_pending
       THEN wake_unlock /\ wait_pending' = FALSE /\ unacked' = {}
       ELSE UNCHANGED <<wait_pending, wakes>>
    /\ UNCHANGED <<opens, alarm_enabled, alarm_pending, started, release>>

\* wait_event_interruptible: prepare_to_wait comes before the test.
ioctl_looks(t) ==
    /\ thread[t].at = "looks"
    /\ Goes(t, IF alarm_pending = {} THEN "asleep" ELSE "takes")
    /\ UNCHANGED <<opens, bits, wakes, release>>

ioctl_interrupted(t) ==
    /\ thread[t].at \in {"looks", "asleep"} /\ Returns(t)
    /\ UNCHANGED <<opens, bits, wakes, release>>

ioctl_takes_late(t) ==
    /\ thread[t].at = "takes" /\ Returns(t)
    /\ alarm_pending' = {} /\ wait_pending' = FALSE
    /\ UNCHANGED <<opens, alarm_enabled, started, wakes, release>>

ioctl_takes(t) ==
    /\ thread[t].at = "takes" /\ Returns(t)
    /\ alarm_pending' = {} /\ wait_pending' = TRUE
    /\ UNCHANGED <<opens, alarm_enabled, started, wakes, release>>

\* ANDROID_ALARM_SET_RTC, after alarm_set_rtc has returned.
ioctl_set_rtc(t) ==
    /\ Runs(t, {"SET_RTC"})
    /\ alarm_pending' = alarm_pending \cup {TIME_CHANGE}
    /\ thread' = Woken([thread EXCEPT ![t] = Idle])
    /\ UNCHANGED <<opens, alarm_enabled, wait_pending, started, wakes, release>>

(***************************************************************************)
(* alarm_triggered, called for an alarm that has left its queue.           *)
(***************************************************************************)
alarm_triggered_silent(type) ==
    /\ type \in started /\ started' = started \ {type}
    /\ IF type \in alarm_enabled
       THEN /\ lock' = TRUE /\ lapsed' = FALSE
            /\ alarm_enabled' = alarm_enabled \ {type}
            /\ alarm_pending' = alarm_pending \cup {type}
            /\ unacked' = unacked \cup {type}
       ELSE UNCHANGED <<alarm_enabled, alarm_pending, wakes>>
    /\ UNCHANGED <<opens, wait_pending, thread, release>>

alarm_triggered(type) ==
    /\ type \in started /\ started' = started \ {type}
    /\ IF type \in alarm_enabled
       THEN /\ lock' = TRUE /\ lapsed' = FALSE
            /\ alarm_enabled' = alarm_enabled \ {type}
            /\ alarm_pending' = alarm_pending \cup {type}
            /\ unacked' = unacked \cup {type}
            /\ thread' = Woken(thread)
       ELSE UNCHANGED <<alarm_enabled, alarm_pending, wakes, thread>>
    /\ UNCHANGED <<opens, wait_pending, release>>

\* The timeout of five seconds.
LockExpires ==
    /\ lock /\ lock' = FALSE /\ lapsed' = TRUE
    /\ UNCHANGED <<opens, bits, unacked, thread, release>>

(***************************************************************************)
(* alarm_release, once no call uses the file.  The owner's release gives   *)
(* up the lock around every alarm_cancel.                                  *)
(***************************************************************************)
release_begins(f) ==
    /\ f \in open /\ \A i \in TaskIds : thread[<<f, i>>].at = "idle"
    /\ open' = open \ {f}
    /\ release' = IF f \in private THEN [NotReleasing EXCEPT !.file = f] ELSE release
    /\ UNCHANGED <<private, alarm_opened, bits, wakes, thread>>

release_clears ==
    /\ release.file # None /\ release.i < TYPE_COUNT /\ ~release.cleared
    /\ alarm_enabled' = alarm_enabled \ {release.i}
    /\ release' = [release EXCEPT !.cleared = TRUE]
    /\ UNCHANGED <<opens, alarm_pending, wait_pending, started, wakes, thread>>

release_cancels ==
    /\ release.file # None /\ release.cleared
    /\ started' = started \ {release.i}
    /\ release' = [release EXCEPT !.i = @ + 1, !.cleared = FALSE]
    /\ UNCHANGED <<opens, alarm_enabled, alarm_pending, wait_pending, wakes, thread>>

release_ends ==
    /\ release.file # None /\ release.i = TYPE_COUNT
    /\ IF alarm_pending # {} \/ wait_pending
       THEN /\ lock' = FALSE /\ lapsed' = FALSE /\ unacked' = {}
            /\ wait_pending' = FALSE /\ alarm_pending' = {}
       ELSE UNCHANGED <<wait_pending, alarm_pending, wakes>>
    /\ alarm_opened' = FALSE /\ private' = private \ {release.file} /\ release' = NotReleasing
    /\ UNCHANGED <<open, alarm_enabled, started, thread>>

-----------------------------------------------------------------------------
DevInit ==
    /\ open = {} /\ private = {} /\ alarm_opened = FALSE
    /\ alarm_enabled = {} /\ alarm_pending = {} /\ wait_pending = FALSE /\ started = {}
    /\ lock = FALSE /\ lapsed = FALSE /\ unacked = {}
    /\ thread = [t \in Threads |-> Idle] /\ release = NotReleasing

Continues(t) ==
    \/ ioctl_claims(t) \/ ioctl_clears(t) \/ ioctl_sets(t) \/ ioctl_acknowledges(t)
    \/ ioctl_looks(t) \/ ioctl_takes(t) \/ ioctl_set_rtc(t)

Closes == release_clears \/ release_cancels \/ release_ends

DevNext ==
    \/ \E f \in Files : alarm_open(f) \/ release_begins(f)
    \/ \E t \in Threads, cmd \in Commands, type \in AlarmTypes : alarm_ioctl(t, cmd, type)
    \/ \E t \in Threads : Continues(t) \/ ioctl_interrupted(t)
    \/ \E type \in AlarmTypes : alarm_triggered(type)
    \/ Closes \/ LockExpires

DevSpec == DevInit /\ [][DevNext]_devVars

\* A thread in a call goes on when it can; alarms and new calls may stay away.
DevFairSpec == DevSpec /\ \A t \in Threads : WF_devVars(Continues(t))

-----------------------------------------------------------------------------
\* Every variable keeps to its type.
AlarmDevTypeOK ==
    /\ open \subseteq Files /\ private \subseteq Files
    /\ alarm_opened \in BOOLEAN /\ wait_pending \in BOOLEAN
    /\ lock \in BOOLEAN /\ lapsed \in BOOLEAN
    /\ alarm_enabled \subseteq AlarmTypes /\ started \subseteq AlarmTypes /\ unacked \subseteq AlarmTypes
    /\ alarm_pending \subseteq AlarmTypes \cup {TIME_CHANGE}
    /\ thread \in [Threads -> ThreadStates] /\ release \in Releases

(***************************************************************************)
(* From the moment an alarm is triggered until user space waits again, or  *)
(* clears it unseen, the wake lock is not given up but by its timeout, in  *)
(* whatever order threads set, clear, wait and change the time.            *)
(***************************************************************************)
AwakeUntilAcknowledged == unacked # {} => lock \/ lapsed

(***************************************************************************)
(* The lock is held for a reason that some later call removes: an alarm    *)
(* that waits to be collected, or one that waits to be acknowledged.       *)
(***************************************************************************)
LockHasReason == lock => alarm_pending # {} \/ wait_pending

(***************************************************************************)
(* A device that nobody owns is as it was at first, but for a change of    *)
(* the time: alarms that trigger while the last owner's release gives up   *)
(* the spin lock leave nothing behind for the next owner.                  *)
(***************************************************************************)
ReleasedLeavesNothing ==
    ~alarm_opened => /\ alarm_enabled = {} /\ started = {} /\ ~wait_pending /\ ~lock
                     /\ alarm_pending \subseteq {TIME_CHANGE}

(***************************************************************************)
(* A thread that sleeps in ANDROID_ALARM_WAIT while something is pending   *)
(* is woken: no alarm and no change of the time is slept through.          *)
(***************************************************************************)
WaiterWoken ==
    \A t \in Threads : (thread[t].at = "asleep" /\ alarm_pending # {}) ~> thread[t].at # "asleep"
=============================================================================
