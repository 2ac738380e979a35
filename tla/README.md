# A formal model of the SCH-I500's system software

The repository is the software of one phone: an Android kernel with the
vendor's drivers, a recovery system, a boot ramdisk and a few tools.  This
project models, in TLA+, the parts of it where processes, interrupts, timers
and power losses meet in the most intricate way and where a test reaches least.
At its centre is the decision when the device may sleep: wake locks, the
suspend path, early suspend, and the drivers that take part in it (the input
event device, the framebuffer handshake, the alarms).  Around it are four parts
with hazards of their own: the log of Android, its purgeable shared memory, the
frequency limit of `/sys/power`, and the recovery program's restart after a
power loss.  TLC checks the models on small instances, and TLAPS proves the
safety properties of all of them for every instance.

All paths below are relative to `src/src/kernel/` unless they say otherwise.

## 1. Inventory

| Component | Source | State | Operations | Interacts with |
|---|---|---|---|---|
| wake locks | `kernel/power/wakelock.c` | flags and deadline of each lock, list of active locks, `expire_timer`, `current_event_num` | init, destroy, lock, lock with timeout, unlock, `has_wake_lock`, expiry handler | everyone takes locks; queues `suspend_work` |
| suspend path | `wakelock.c` `suspend()`, `kernel/power/suspend.c`, `process.c` (calls `drivers/base/power/main.c`, not modelled) | where the thread of `suspend_work_queue` is, which tasks are frozen | check, record event number, sync, prepare, freeze (2 passes), suspend devices, late check, irqs off, enter, and the way back from each | reads wake locks and `requested_suspend_state`; takes `unknown_wakeup` |
| early suspend | `kernel/power/earlysuspend.c`, `main.c` (`state_store`) | `state` bits, handler list, the two works | write to `/sys/power/state`, `early_suspend`, `late_resume`, `sync_system`, register and unregister a handler | runs on `suspend_work_queue`; takes and releases `main_wake_lock` |
| user wake locks | `kernel/power/userwakelock.c` | one lock per name | writes to `/sys/power/wake_lock`, `wake_unlock` | wake locks |
| sysfs power interface | `kernel/power/main.c`, `arch/arm/mach-s5pv210/cpu-freq.c` | `dvfsctrl_locked`, its delayed work, the table of limits by token | `state_store`, wake lock files, `dvfslock_ctrl` | early suspend, user wake locks, drivers that set limits |
| input event device | `drivers/input/evdev.c` | per device: `exist`, `open`, `grab`, client list, reference count; per open file: a ring buffer and a wake lock | open, event, read, write, grab, ungrab, close, disconnect | wake locks; the input core (`input.c`, not modelled) calls it |
| work queues | `kernel/workqueue.c` | pending bit, list of works | `queue_work`, `run_workqueue`, delayed work | suspend path, early suspend, sysfs power interface |
| framebuffer early suspend | `kernel/power/fbearlysuspend.c` | `fb_state` | two handlers, two blocking reads | early suspend |
| alarms | `drivers/rtc/alarm.c` | alarm queues with their timers, `delta`, `stopped`, `suspended`, a wake lock | start, cancel, trigger, set the clock, suspend, resume | RTC, wall clock, suspend path |
| alarm device | `drivers/rtc/alarm-dev.c` | owner, enabled and pending bits, a wake lock | open, ioctls, wait, trigger, release | alarms, wake locks |
| logger | `drivers/staging/android/logger.c` | ring buffer, `head`, write offset, an offset per reader | write, read, open, close, flush | - |
| ashmem | `mm/ashmem.c` | per area: size, file, list of unpinned ranges; one LRU list and its count | pin, unpin, status, shrink, set size, map, release | memory management calls the shrinker |
| recovery: boot control, volumes | `src/src/recovery/main.c`, `bootloader.c`, `volume.c`, `commands.c` | bootloader control block (BCB) in `/misc`, `/cache/recovery/command`, the volumes; the run's arguments | read arguments, record them, wipe, clear, reboot | bootloader, main system, reboot notifier of the kernel |
| recovery: user interface, packages, backup | `src/src/recovery/` | key queue, archives | menus, backup, restore, install | - |
| binder, lowmemorykiller, timed output, switch class | `drivers/staging/android/`, `drivers/switch/` | see section 6 | | |
| modem link | `drivers/onedram/dpram/dpram_atlas.c` | semaphore word, mailboxes | interrupt handlers, writes | wake locks |
| mountvol, ramdisk, build scripts, applications, busybox | `src/src/...` | none of their own | | |

What is hard in the modelled part:

- **Concurrency.**  The suspend thread, the sync thread, the timer softirq,
  interrupts and kernel threads of drivers, user processes, and whoever
  registers a handler.  The suspend thread gives up all its locks between any
  two of its steps; `alarm_release` and `alarm_set_rtc` give up their spin lock
  in the middle; `dvfslock_ctrl` has none; `logger_release` does not take its
  mutex.
- **Stale answers.**  `suspend()` looks at the wake locks, then at the event
  number, then at the requested state; each may change before it acts.  A
  writer to the log reads the offset to go back to before it has the mutex.
- **Timeouts.**  One timer serves all deadlines of wake locks, one hrtimer all
  alarms of a queue; whoever changes the first of them has to re-arm it, and
  its handler may already be on its way.
- **Ordering.**  Handlers have levels; works are queued at most once; ranges of
  pages and active locks are kept in lists whose walks rely on their order.
- **Failure.**  Every step of the suspend path may fail and has its own exit; a
  copy, an allocation, a mount or the setting of the clock fails half way.
- **Power loss** between any two steps of an erase.

Correctness, in one sentence per component: the timer always covers the
deadlines and time is charged to the locks that cost it (wake locks); a suspend
is never lost and never happens unasked (suspend path); the hooks match the
state and the last request wins (early suspend); a user's timeout is never
shortened, up to what the code's integers hold (user wake locks); a limit set through the file ends (sysfs power
interface); unread events are covered by a lock and nothing is used after it is
freed (input event device); "stopped" is the truth and nobody waits for good
(framebuffer early suspend); the system does not sleep through an alarm
(alarms); an alarm keeps the device awake until it is acknowledged (alarm
device); readers get whole entries in order, and lose the oldest only to a flush
or to a write without room (logger); the loss of a page is told to whoever pins
it (ashmem); an erase that has begun is
finished or reported, and not repeated (recovery).

## 2. Modules

    WakeLock            wakelock.c without suspend(); the active list as a set
      Suspend           suspend(), suspend.c, process.c: where the worker is
        EarlySuspend    earlysuspend.c
        UserWakeLock    userwakelock.c
          PowerManager  all of it, with evdev, drivers, timer, clock; properties
            MCPowerManager   constants for TLC
            PowerManagerProofs   what each operation on a lock preserves;
                             CoreInv: locks, control state, suspend not lost;
                             HandlersInv, and the theorems; that of FbEarlySuspend
    WakeLockList        wakelock.c with the list as a sequence; implements WakeLock
      WakeLockListProofs    what the walk computes; ListInv; the refinement
    Evdev               evdev.c: the files open on one device, and its removal
      MCEvdev               a bound on the events of each file
      EvdevProofs           ListInv, EventsInv, CountInv: list, rings, counters
    FbEarlySuspend      fbearlysuspend.c with a display thread of user space
    Dvfs                dvfslock_ctrl and the table of limits, by statement
      DvfsProofs            EndInv, SingleInv
    Alarm               alarm.c with the clocks, the RTC and suspend
      AlarmProofs           queues and timers; the RTC's alarm while suspended;
                            Ownership of the device of AlarmDev
    AlarmDev            alarm-dev.c: files, threads and the alarms they set
    LogChannel          what a log promises its readers
      Logger            logger.c; implements LogChannel
        MCLogger        a bound on the entries of each writer
        LoggerProofs    chains of entries in the ring; the refinement
    PurgeableMemory     memory that is pinned, unpinned and purged by page
      Ashmem            ashmem.c; implements PurgeableMemory
        MCAshmem        sizes, and the symmetry of range structures
        AshmemProofs    what each walk over the ranges does; the refinement
    Recovery            recovery/main.c with flash, bootloader and main system
      MCRecovery        the volumes and devices
      RecoveryProofs        EraseInv, AskedInv

How the state corresponds to the code:

- `initialized`, `active`, `autoExpire`, `preventing` are the sets of locks that
  have the flag of that name.  `left[l]` is `lock->expires - jiffies`, kept at 0
  once it has passed.  `expire_timer` is the time until the timer is due, or
  `Off`; `expiring` says that the timer softirq has dequeued it and will call
  `expire_wake_locks`.
- `newEvent` stands for `current_event_num != entry_event_num`, the only thing
  the code does with the two counters.
- `suspendQueue` is the list of pending works of `suspend_work_queue`.
- `worker` is the program counter of the one thread that runs these works.  A
  step ends wherever another actor can come in between.
- `state`, `handlers`, `requested_suspend_state` are the variables of that name.
  `position` and `calledDown` record the progress of the loops over the
  handlers and which handler was called last with which hook.
- `syncPending` and `syncing` are `sync_system_work` and its thread.
- In `Evdev`, `evdev` is `struct evdev` with its reference count, the entry of
  `evdev_table` and the progress of `evdev_disconnect`; `handle` is what the
  input core keeps for it; `file` and `reader` are the program counters of the
  tasks that open or close and that read each file; `ring` is the buffer, with
  the number of events received and the last one taken, which the code does not
  keep; `wake_lock` says whether the lock is held or has expired.
- In `FbEarlySuspend`, `fb_state` is the variable of that name, `hook` and
  `drawer` are the program counters of the early suspend work and of the
  display thread, `asleep` is the wait queue and `hook_timeout` the rest of the
  second.
- In `Dvfs`, `token`, `lockval` and `limit` are `g_dvfs_high_lock_token`,
  `g_dvfslockval` and `g_dvfs_high_lock_limit`, `pending` is the delayed work,
  and `task` has a program counter and the local variables of every task.  A
  step is one access to shared memory; the update of the token word is a load
  and a store.  `users` fixes, for a behaviour, who uses the interface.
- In `Alarm`, `now` counts fractions of a second since boot; `wallOff` and
  `rtcOff` are the offsets of the wall clock and the RTC from it.  `queue`,
  `timer`, `delta`, `stopped`, `stopped_time` and `suspended` are the variables
  of that name; `power` and `setting` say where suspend and `alarm_set_rtc` are.
- In `AlarmDev`, the bit masks are sets, `thread` and `release` are program
  counters, and `unacked` and `lapsed` record what the properties speak of.
- In `Logger`, a byte of the buffer is a cell that holds the header or payload of
  a known entry, or rubbish of a failed copy; `write` and `read` are program
  counters, and `write` advances with every segment, since `w_off` is read
  without the mutex.  `tip` is where the last whole entry ends; `undone` marks
  the behaviours in which a fault has put `w_off` elsewhere: it took back another
  task's entry, or went back to the middle of one.
- In `Ashmem`, the lists are sequences of range structures, an empty range being
  one that begins after its end; `gone` records the pages whose content was
  truncated, `failed` the areas in which a range could not be
  allocated, by `ashmem_unpin` or by a pin that punches a hole, and `stuck` a
  task that waits for the mutex it holds.  The loops over the lists are
  recursive functions, one value for each range they have looked at.
- In `Recovery`, `bcb`, `command`, `reboot_mode` and `volume` are what survives
  a power loss; `args`, `index` and `failed` are the program's variables;
  `asked`, `began` and `told` record what was requested, whether an erase was
  recorded (and the record not erased since, on raw flash, to be written anew)
  and whether the user was told of a failure.

An operation under `list_lock` is one action: the lock is an irq-safe spinlock
and the kernel of this device (`arch/arm/configs/sch-i500_defconfig`) is built
for one CPU with preemption.  A user process can act only while the worker has
not yet passed the first freezer pass, or is thawing; nothing but the worker
acts once interrupts are off; no thread runs between the dequeuing of the timer
and its handler, but interrupts do.  The same holds for the sections under
`alarm_slock` in both alarm modules, and an operation under `ashmem_mutex` is
one action because all but `ASHMEM_SET_SIZE`, which is split, hold it from
beginning to end.  The log's mutex is a variable of the model, since closing a
file does not respect it.

Deliberate abstractions: the statistics counters and `wait_for_wakeup` (only
printed); `WAKE_LOCK_IDLE` locks (same code, no timer, no user in this
configuration); the `CONFIG_CPU_DIDLE` blocks (not compiled); `pm_mutex`
(nobody else takes it while a suspend can run); the test points
`suspend_test(...)`; in `PowerManager`, the ring buffer of evdev (any read may
be the one that empties it; `Evdev` has the buffer); device callbacks (they
succeed or fail).  `s3c_pm_ops` has no `begin`, `prepare_late`, `wake`, `end` or
`recover`, so these calls are absent.  `wake_lock_destroy` may come at any time
in `WakeLock` and `WakeLockList`; in `PowerManager` only evdev calls it, whose
locks are always taken with a timeout.  Drivers that destroy a lock held without
one, which may leave the device awake until the next event
(`drivers/power/s5pc110_battery.c:1792`, taken in line 1135, and
`drivers/input/misc/gpio_input.c:387`, in line 192), are not composed with it.

In `Evdev` an event is one step, because `evdev_event` runs with interrupts off
on the only CPU; for the same reason the waits for RCU readers are not steps.
The input core is present only as far as evdev sees it: `handle->open`, its
users and its grab.  The parameters that ioctls read and set, `poll` and
`fasync` are left out.  In `FbEarlySuspend` there is one display thread; the
files can be read by anyone, and a second reader of `wait_for_fb_wake` would
answer for the first.  That the two hooks are called in turn is what
`HandlersFollowState` says of all handlers.

In `Alarm`, ranges are left out (`alarm-dev.c` passes two equal times), and so
is the half second by which `rtc_resume` may set the wall clock wrong.  `Tick`
assumes that interrupts which are due come before time goes on, reading the RTC
and setting its alarm never fail, and what
is left of suspend after `alarm_suspend` reaches its check of the wake locks
within the second of the RTC's lock.  `AlarmDev` takes of `alarm.c` that a
started alarm calls `alarm_triggered` once, unless it is cancelled before.  In
`Logger`, a header takes one cell and time stamps are left out; its
`SizeAssumption` asks for twice the longest entry, which every log of this
kernel has by far.  In `Ashmem`, names, protection bits, reading and seeking
are left out, and so are areas of no page.  In `Recovery`, a `/misc` that cannot
be read or opened is a missing `/misc`; of the menus only wiping the device and
wiping the cache are there (others delete the Dalvik cache and battery
statistics, convert, format and restore volumes: the user's own orders, outside
of the BCB); the block device is taken to be written when it is closed; the bootloader,
which is not in the repository, may keep the stored reboot mode or clear it; a
volume whose formatting was cut off cannot be mounted.

## 3. Runs

| Run | Instance | Checks | Result |
|---|---|---|---|
| `power` | locks main, unknown, sync, one user, one evdev, one driver lock; no handler; timeouts 0..2 jiffies; user timeouts of 0, 1, 2 and 3 ns at 2 ns per jiffy, and 3 that overflow a 4-bit `long` or a 6-bit `u64` | `TypeOK`, `TimerCoversLocks`, `SleepTimeCharged`, `SuspendNotLost`, `MainHeldUnlessSuspended`, `SleepOnlyWhenAsked`, `RequestedTimeHonoured` | pass, 259,064 states |
| `live` | built-in locks, one evdev lock, 3 handlers on 2 levels, with fairness | `OnHonoured`, `MemHonoured`, `HandlersFollowState` | pass, 284,973 states |
| `wakelock_list` | 4 locks, timeouts 0..2 | `ReturnsTimeUntilAllExpired`, `ImplementsSets` | pass, 28,592 states |
| `evdev` | 2 files, buffers of 4, up to 9 events in one and 1 in the other, with fairness | `ReceiversAreAlive`, `InputClosedOnce`, `DeviceAliveWhileUsed`, `RingHoldsNewest`, `UnreadKeepsAwake`, `ReaderReleased` | pass, 520,516 states |
| `fb` | the HZ of the device, 256, with fairness | `StoppedMeansStopped`, `HookReturns`, `DrawsAgain` | pass, 3,870 states |
| `recovery` | 5 volumes, 3 of them wiped; `/misc` on a block device with 3 disturbances, or with 2 and failing volumes; the same on raw flash, with failing writes; missing with 3; with fairness | `ErasedUnlessReported`, `OnlyWhatWasAsked`, `RecoveryEnds` | pass, 542,329 states |
| `logger` | a buffer of 6 cells, entries of 2 and 3, one reader, a writer that begins while fewer than 8 cells are written and one while fewer than 4, copying by segments, with fairness | `ImplementsLogChannel`, `SleeperWoken` | pass, 513,132 states |
| `dvfs` | one writer; two writers; a writer and a driver; one level, with fairness | `EndIsComing`, `QuietMeansNoLimit`, `LimitEnds` | pass, 357,797 states |
| `alarm` | 2 wakeup queues with 2 alarms each for ticks 2 and 5, 2 ticks per second, 5 ticks, one setting of the clock | `QueuesArmed`, `NeverOverslept`, `ElapsedKept` | pass, 1,749,311 states |
| `alarm_dev` | 2 files with a thread each, 2 alarm types, with fairness | `AwakeUntilAcknowledged`, `LockHasReason`, `ReleasedLeavesNothing`, `WaiterWoken` | pass, 91,440 states |
| `ashmem` | an area of 2 or 3 pages and one of 1 page, 3 range structures, intervals of no page at the end too, shrinker asked for 1 or 3 pages | `RangesApart`, `LruCounted`, `StatusExact`, `ImplementsMemory` | pass, 76,320 states |
| `noirq_window` | built-in locks | `ActiveLockPreventsSuspend` | violated, see Findings |

Deadlock is checked in `power`, `live`, `wakelock_list`, `fb`, `dvfs`,
`alarm_dev` and `noirq_window`.  In the others everything may end: the device is
removed and all files are closed (`evdev`), the bounds on entries or time are
reached (`logger`, `alarm`), a task waits for the mutex it holds (`ashmem`), or
the main system asks for nothing more (`recovery`).

Bounds.  Three locks besides the built-in ones give one actor of each kind, and
with the built-in ones two locks with a deadline and two without at the same
time, which every case of the list walk and of the timer needs.  `MaxTimeout`
(2) lets a lock expire before, with and after another.  Two levels and three
handlers give equal, lower and higher neighbours.  Queues need no bound: a work
is pending at most once.  Nine events lap a buffer of four twice; two files give
a grabbing and another client, a first and a last open, and an open that fails
beside one that succeeds; `MaxEvents` is the only bound on behaviour there.

Ten cells of entries lap a log of six, which wraps inside an entry, ends an
entry exactly at the end of the buffer and at a reader; the second writer meets
the first between its read of the offset and its mutex, also in the middle of an
entry.  `UntilUndone` stops where `undone` holds, of which neither property says
anything.  The user timeouts include the edges of a jiffy and one beyond each
width of the conversion.  The
three settings of `dvfs` keep the statement-by-statement interleavings small
enough; more writers only repeat the same race.  In `alarm`, two ticks per
second put the RTC out of phase with the wall clock, an alarm at tick 2 is too
near to be programmed and one at 5 is not, and two alarms in a queue replace
each other at its head.  Three pages are the fewest in which a pin splits a
range; the second area shares the LRU list.  `AnyStructure`, the symmetry of
`ashmem`, is sound because a range structure is only ever compared with itself.
Three structures hold the two halves of a split range beside a range of the
second area, and an empty range beside two others; a fourth allocation fails.
`Followed` cuts off what repeats itself or is left to the proof: a stuck task,
both areas in `failed`, and a size that is stored after the area is mapped, if
it changes nothing or if two ranges are there by then.  With three disturbances
power is lost while a flash block is erased and again after it was restored.
The proofs do not depend on these bounds.

Fairness (`FairSpec`; `FbFairSpec` in `FbEarlySuspend`, `DevFairSpec` in
`AlarmDev`).  In `PowerManager`, weak fairness of the worker, the sync
thread, the timer softirq and the clock: the scheduler runs every runnable
kernel thread, and the timer interrupt comes while interrupts are on.  None is
assumed of user space, drivers, handler registration or wakeup sources.
`MemHonoured` says what follows when, in addition, no lock other than the
kernel's own is held for good and the device wakes again whenever it sleeps.  In
`Evdev`, a disconnect that has begun goes on and a runnable reader is
scheduled; in `FbEarlySuspend`, the work and a runnable reader inside the kernel
are scheduled and time passes; in `Logger`, a task inside `read` or `write` is
scheduled; in `Dvfs`, so is a task inside `dvfslock_ctrl`, and the delay of the
work passes; in `AlarmDev`, a thread in a call goes on when it can.  None of
these assumes that user space ever calls anything.  In `Recovery`, the processor
runs the program, and the user leaves the menu some time.

## 4. Findings

- `noirq_window`: `include/linux/wakelock.h:22` says an active lock prevents
  the system from entering suspend.  Between the last check
  (`power_suspend_late`, called from `dpm_suspend_noirq` at `suspend.c:145`) and
  `arch_suspend_disable_irqs` (`suspend.c:164`) nothing looks at the locks, and
  a thread that is not frozen may take one: `sync_system`, queued by the same
  `early_suspend` that released `main_wake_lock`, does.  The device sleeps with
  `sync_wake_lock` held.  `SleepOnlyWhenAsked` states what does hold: no lock
  that user space can hold is affected.

Modelling met other places where the code does not do what a comment says.
They are in the models as the code has them, unless the item says otherwise, and
the properties are stated for what does hold; no run is kept for each of them.

- `userwakelock.c:70` promises jiffies > 0, but the value is truncated to a
  32-bit `long` after the comparison with 0: beyond 97 days a timeout becomes
  shorter, one that has passed, or none (`RequestedTimeHonoured` is stated for
  the timeouts that fit, `TimeoutFits`).
- `drivers/input/input.c:645` says that events after a disconnect reach no
  handler.  A device that a file has grabbed still delivers them, because
  `input_pass_event` does not look at `handle->open` of a handle that has the
  grab; and `evdev_cleanup` takes `handle->open` from 0 to -1.
- `fbearlysuspend.c:95`: a display thread that is woken by a resume and runs
  only after the next suspend has begun goes back to sleep without answering,
  and the hook waits a whole second for a thread that does not draw.
- `recovery/main.c:87`, "after this, rebooting will restart the erase".  The
  fstab of this device has no `/misc`, so the BCB is never written: power lost
  after `/cache`, with the command file, is formatted loses the erase
  (`ErasedUnlessReported` is stated for devices with a `/misc`).  On raw flash
  every run of `get_args` erases the block of the BCB before it writes the same
  again; a power loss there, or a write that fails, loses it (`began` ends while
  the block is erased).  And a volume cut off while it
  was formatted is not formatted again, because `wipe_volume` mounts it first;
  the user is told of a partial wipe.
- `recovery/main.c:480`: the argument of `--update_package` is stored in a
  variable that nothing reads (`Dispatch` does not look at it).
- `logger.c:409`: the offset to go back to after a failed copy is read before
  the mutex is taken; if another writer has added an entry by then, that entry
  is taken back, and if one was being copied, `w_off` ends up inside it (`undone`
  in `Logger`).  `logger.c:537`: `logger_release` frees
  a reader without the mutex, also under a writer that walks the readers
  (`write_oops`).  `logger.c:332`: a lapped reader is moved on by at least the
  length of the entry from its own offset, where lines 313-316 promise the first
  entry after the new write head; it may lose entries that are still whole.
  `Gives` in `LogChannel` says how many exactly, and a write with room beside a
  reader costs it none.
- `alarm.c:393` indexes the queues with a mask and cancels the timer of the
  `SYSTEMTIME` queue instead of `ELAPSED_REALTIME_WAKEUP`; nothing restarts it
  at resume (`QueuesArmed` leaves that queue out).  `alarm.c:272`: while the
  clock is being set the elapsed realtime is off by the whole change, and for
  good if `do_settimeofday` refuses the time (`error` in `Alarm`).
- `ashmem.c:550`: `ashmem_unpin` deletes the ranges it merges before it
  allocates the new one, and forgets that they were purged when that fails
  (`failed` in `Ashmem`).  `ashmem.c:134`: the allocation, under `ashmem_mutex`,
  may enter `ashmem_shrink`, which takes the mutex (`stuck`).  `ashmem.c:643`:
  the size is set without the mutex.  `ashmem.c:596`: an unpin of length zero at
  the end of an area makes an empty range, for which the pinned last page is
  reported as unpinned, though line 558 says that some page has to be; once
  the shrinker has passed the range, even as lost (`TaintedPages` in `Ashmem`, `tainted`
  in `PurgeableMemory`).
- `kernel/power/main.c:276`: a write of 0 does not cancel the delayed work,
  which then ends a limit set later before its time; with two writers or a
  driver beside one, a lost update of the unlocked token word can leave a limit
  for `g_dvfs_high_lock_limit` that belongs to nobody until the next unlock
  (`QuietMeansNoLimit` is stated for one writer).

## 5. Proofs

`PowerManagerProofs` proves `Spec => []P` for every invariant P of `PowerManager`
that the passing runs check: `TypeCorrect`, `TimerCorrect`,
`ChargingCorrect`, `SuspendNeverLost`, `MainHeld`, `HandlersCorrect`,
`SleepCorrect`.  They hold for any sets of locks and handlers, any levels and
any timeouts, under the named assumptions of the modules (which lock belongs to
whom, the built-in locks are distinct, timeouts are natural numbers up to
`MaxTimeout`).

The inductive invariant is `CoreInv /\ EvdevTimed /\ HandlersInv`.

- `LockInv` (in `CoreInv`) adds one fact to the lock properties: `main_wake_lock`
  never has a deadline.  Without it `SleepTimeCharged` is not inductive, because
  a due `main_wake_lock` could expire without the bookkeeping of `wake_unlock`.
- `SuspendNotLost` is inductive together with `TimerCoversLocks`: an attempt
  that aborts has seen an active lock, and `TimerCoversLocks` says that this
  lock either has no deadline or has a timer.  `AttemptCommitted`, its last
  part, is what makes the exit of `suspend()` safe: an event after
  `entry_event_num` was recorded has re-evaluated the locks by itself.
  `EvdevTimed`, that the locks of input device files always have a deadline, is
  what allows `evdev_release` to destroy one: the timer still covers it.
- `RequestRecorded` and `NoUserLockPastLate` carry what the late check saw to
  the moment the device sleeps, through `MainHeldUnlessSuspended`, which turns
  "main_wake_lock is released" into "the state is fully suspended".
- `HandlersInv` says that the list is sorted and without duplicates and that the
  handlers that are down are exactly its first `position` (going down) or its
  first `Len(handlers) - position` (going up).

`RequestedTimeCorrect` proves the action property `RequestedTimeHonoured`, for
any widths of the integers.  The property itself is limited to the timeouts that
`TimeoutFits` allows: the rounded-up timeout fits in 64 bits and the jiffies in
a `long`.  Outside of that range the code does shorten a timeout (section 4); on
this device it allows some 97 days.

Each operation on a lock has one lemma, each disjunct of `Next` one more that
uses it.

`WakeLockListProofs` proves that the linked list implements the set
(`ListImplementsSets`: `Spec => ImplementsSets`) and that the walk returns what
`wakelock.h` says (`WalkCorrect`), for any locks and timeouts and a list of any
length.  So the invariants `TimerCoversLocks` and `SleepTimeCharged`, stated of
sets of locks, are about the code's list too.

- `SetInduction`, induction over the natural numbers for a set instead of an
  operator, comes from the library's well-foundedness of `<`.  With it
  `WalkExists` shows that the recursive function of the walk exists, and
  `WalkWithDeadlines` and `WalkStops` what it holds at each place of the list.
- `ListInv`: no lock is linked twice, and the locks without a deadline come
  first.  The second part is what makes the early `return -1` right: were a lock
  with a deadline in front, the walk could expire it and still return -1, where
  the set expires nothing.  `list_add` and `list_add_tail` keep it so
  (`RelinkHead`, `RelinkTail`), and so does every `list_del` (`UnlinkFacts`).

`EvdevProofs` proves all five invariants of `Evdev`, for any number of files and
any size of the buffer.

- `ReceiversCorrect`: `ReceiversAreAlive` is not inductive, since `evdev_grab`
  gives the grab to an open file without looking at the list; `ListInv` adds
  that the list holds exactly the files between their attach and their detach.
- `RingCorrect` and `AwakeCorrect`, from `EventsInv`: for every file on the list
  the ring holds the last `head - tail` events (modulo the size) that it
  received, what the reader has lost is a multiple of the size, and the state of
  the wake lock goes with them.  Both need the same arithmetic on remainders,
  which is stated once.
- `InputCloseCorrect` and `DeviceCorrect`, from `CountInv`: the reference count
  is the number of files at the steps that hold a reference, plus that of the
  removal; while the device exists, `open` is the number of files that count as
  open; and the handle has one user or none, by `open` and the removal.

`StoppedCorrect`, at the end of `PowerManagerProofs`, proves
`StoppedMeansStopped` of `FbEarlySuspend` for any `HZ`; it is inductive with the
type invariant.  It is there because the handshake is two handlers of the list
that `HandlersCorrect` is about.

`DvfsProofs` proves `EndIsComing` (`EndCorrect`) for any number of writers,
drivers and levels, at the granularity of single loads and stores.  Its
inductive form `EndInv` separates the two things that need an end: the value in
the table, and `dvfsctrl_locked`, which a writer may set after another one has
put the value back.  `QuietMeansNoLimit` (`QuietCorrect`) needs `Alone`: each of
the token, the value and the limit leads to the work until the work has put that
one back, and the writer itself never finds a value when it looks for the next
limit, whereas the work may find that of a write that came after it began.

`RecoveryProofs` proves `ErasedUnlessReported` (`ErasedCorrect`) for any fstab,
any set of volumes to wipe and any number of power losses, boots with keys held
and menu choices.  `OwedInv` says where an erase that is neither carried out nor
reported is kept: in the BCB at every step.  On raw flash nothing is owed from the
moment at which the block is erased to that at which it is written again, which
is the limit of what the code promises (section 4); there is no bound on the
power losses before and after.  `OnlyWhatWasAsked`
(`AskedCorrect`) assumes that `/cache` is among the wiped volumes, which the
loop of `cmd_wipe_device` and the shipped `recovery.fstab` give: otherwise the
command file would outlive the erase.  `OrdersInv` relates BCB, command file and
arguments of the run to the orders still to be carried out, `WipeInv` says what
the erasing steps rely on.

`AlarmProofs` proves the three invariants of `Alarm` for any alarms, times, new
times of day and ticks per second.

- `QueuesCorrect`: `ArmedInv` and `UniqueInv` are inductive with the types and
  `ModeInv` (suspend and `alarm_set_rtc` exclude each other).  The hard case is
  an alarm moved or cancelled behind a head with the same time, where the code
  does not look at the timer.
- `ElapsedCorrect`: `ElapsedInv` relates `delta` to the wall clock also in the
  window of `alarm_set_rtc` in which only one of them has changed.
- `OversleptCorrect`: `NoLaterInv` says that while wakeup queues wait for
  `alarm_resume` their timers keep a time that no alarm comes before; `RtcInv`
  says that the RTC's alarm begins before each of those timers, allowing for
  the difference between the clocks and for whole seconds, and has not passed;
  and that where no alarm could be set, a lock keeps the system from sleeping.

That a queue has a first alarm at all rests on `LeastElement`, a set of times has
a least one, from the library's well-foundedness of the natural numbers.

The rest of `AlarmProofs` is about `AlarmDev`: `AwakeUntilAcknowledged`,
`LockHasReason` and `ReleasedLeavesNothing`, for any number of files, threads and alarm types, from
`TypeCountAssumption`, `TimeChangeAssumption` and `NoneAssumption`.  The argument
is about ownership (`Ownership`): at most one file has `private_data` set, only
its threads are past the claim of `alarm_ioctl`, and none of them is in a call
once its release has begun.  So the loop of `alarm_release`, which gives up the
spin lock around every `alarm_cancel`, meets no `SET`, and what it has passed
stays clear (`Released`).  `Acknowledged` links the unacknowledged alarms to
`alarm_pending` and `wait_pending`, the two things that hold the wake lock.

`AshmemProofs` proves all that the run checks of `Ashmem`, for any areas, sizes,
tasks and amounts to scan, and for any set of range structures: an allocation
may fail at any time, and does when none is left.

- `Good` is the invariant of the lists, as a predicate on their value: the
  ranges lie apart and in order, each once in the list of its area, the LRU list
  has those that are not purged, and the count is the cardinality of their
  pages.  A range may be empty, and then adds nothing to the count.  `range_alloc`, `range_del`,
  `range_shrink` and the purge of a range keep it, one lemma each
  (`AllocFacts`, `DelFacts`, `ShrinkFacts`, `PurgeFacts`), when they are called
  as the loops call them: a range only shrinks, and a new one goes between
  those after it and those before it (`InsertionSplits`, and `PinSplits` for
  the hole).  `RangesCorrect` and `LruCorrect` follow.
- What a loop computes is an induction over the ranges it has looked at, with
  `SetInduction`; `WalksExist` shows once that the four recursive functions
  exist.  The invariants of the loops speak of pages: `PagesOf(R, S)` are the
  pages of the ranges of kind `S`, all those of an area or the purged ones
  among them, and `Elsewhere` says that no other area is touched.  The early
  exits are right because the list is sorted: every range behind one that lies
  before the interval lies before it too.  `MergeWalkEnds` says that the
  restarts of `ashmem_unpin` end with nothing left to merge, within as many
  rounds as there are ranges.  `StatusCorrect` needs the sorted list only.
- Empty ranges are followed beside the pages: `EndsOf(R, S)` are the pages they
  end with.  A pin makes no new one (`NoNewEmpty`), nor does an unpin of pages
  (`UnpinFacts`); only an unpin of no page does (`UnpinNothingFacts`).  A pin or unpin of the last
  page removes it, because the interval then reaches its end.
- `MemoryImplemented` (`Spec => ImplementsMemory`) adds `GoneKept`: content
  that was truncated since its page was pinned is covered by a range marked as
  purged, in every area where all ranges could be allocated.  This is what
  makes the answer of `ashmem_pin` right, and what merging and splitting ranges
  must not lose.

`LoggerProofs` proves `Spec => ImplementsLogChannel` (`LogImplemented`), for any
readers and writers, any bound on what they write, and any lengths that
`SizeAssumption` allows: the buffer holds two of the longest entries.

- The ring is measured from its end: `Back(w, d)` is the offset `d` cells before
  `w`, and `Chain(b, w, V)` says that whole entries begin at the distances `V`,
  each leading to the next, down to 0.  What a reader has before it
  (`EntriesFrom`, through `RestOf`) depends only on its distance.
- `Copied` and `Untouched` say what a complete entry and a part of one do to a
  chain: the entries that the new one leaves alone move back by its length, or
  stay, and are still whole (`MovedWhole`, `MovedRest`).  `Pulled` is about
  `fix_up_readers`: `clock_interval` holds exactly for the offsets in the way of
  the entry (`Crossed`), which is when the log has no room for it (`FitsIs`), and
  `get_next_entry` takes them to where a later entry begins and out of the way,
  past the entries that begin within the length of the new one and no others.
  `Numbered` ties the distances in the ring to the cells that the log of
  `LogChannel` counts.  Here the proof needs that twice the length fits in the buffer: with less, the walk can
  run past the end of the log, and "greater than LOGGER_ENTRY_MAX_LEN"
  (logger.c:638) does not exclude it.
- `Sound` is the inductive invariant while no fault has left `w_off` wrong: it is
  at `tip`, or behind the part of an entry that was copied (`Aimed`), `head` and the offsets of the open readers are in a chain, at
  most one writer has the mutex, a reader in `read()` is open, and, while a
  writer walks over the readers, `head` and every reader that the walk has
  passed are out of the way of its entry (`Fixed`).  A file closed under the
  writer keeps the order of the others, so those passed stay passed
  (`ReleaseImplemented`); if it was the writer's own cursor, nothing counts as
  passed any more and the writer stops there (`write_oops`).
- Taking the mutex begins a write of the log, each reader that is fixed up loses
  what it has to, the header and the segments but the last are stuttering steps,
  and the last one adds the entry.  A failed copy is `Abort` exactly when the
  offset read before the mutex was taken is `tip`; otherwise `undone` holds from
  then on, and nothing is promised (section 4).

Only model-checked are the liveness properties, which are out of the prover's
reach: `OnHonoured`, `MemHonoured`, `ReaderReleased`, `HookReturns`,
`DrawsAgain`, `LimitEnds`, `RecoveryEnds`, `SleeperWoken`, `WaiterWoken`.  Every
invariant, action property and refinement that a passing run checks has a
theorem.

## 6. Not modelled

- binder: reference counting across processes, threads and transactions in
  3600 lines; a project of its own.
- the device power management core and the input core: the models see whether a
  device suspended and when a handle gets events; the drivers' callbacks behind
  them are out of reach.
- lowmemorykiller: a single scan for a victim; whether the victim gives its
  memory back in time is decided by the scheduler.
- the modem link: half of the protocol is in the modem's firmware.
- recovery's user interface, backup, restore and packages: drawing, reading and
  writing archives, and cryptography.  Its wipe commands are in `Recovery`.
- timed output, the switch class, mountvol, the boot and build scripts, the
  applications: sequential code without state that outlives a call, or a single
  timer.
- busybox and the rest of the Linux kernel: upstream code, carried unchanged.

## 7. Plan

An abstract specification of user-visible sleep (asked for, down, asleep,
up) that `PowerManager` implements, with `FbEarlySuspend` and `Alarm` composed
with it.
