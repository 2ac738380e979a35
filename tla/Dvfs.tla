-------------------------------- MODULE Dvfs --------------------------------
(***************************************************************************)
(* The limit on frequency scaling: /sys/power/dvfslock_ctrl of             *)
(* kernel/power/main.c, its delayed work, and the table of limits in       *)
(* arch/arm/mach-s5pv210/cpu-freq.c that it shares with other drivers.     *)
(* The mutexes of both files are commented out and the kernel is           *)
(* preemptible: tests, loads and stores of the shared variables are steps  *)
(* of their own.  cpufreq_driver_target, which follows a lock, only asks   *)
(* the governor to look at the limit and is left out.                      *)
(***************************************************************************)
EXTENDS Naturals

CONSTANTS
    Writers,        \* tasks that write the file
    Drivers,        \* drivers with a limit of their own, under one token
    Users,          \* the sets of them that a behaviour may be about
    Work,           \* the work queue thread that runs dvfslock_crtl_unlock_work
    Levels,         \* performance levels; 0 is the fastest
    MAX_PERF_LEVEL  \* no limit

ASSUME LevelAssumption ==
    /\ MAX_PERF_LEVEL \in Nat /\ 0 \in Levels
    /\ Levels \subseteq 0 .. MAX_PERF_LEVEL - 1
ASSUME TaskAssumption == Writers \cap Drivers = {} /\ Work \notin Writers \cup Drivers
ASSUME UsersAssumption == Users \subseteq SUBSET (Writers \cup Drivers)

VARIABLES
    gdDvfsctrl,     \* the number written last: 0, or a level and a time
    dvfsctrl_locked,
    pending,        \* the delayed work is pending
    token, lockval, limit,      \* g_dvfs_high_lock_token, g_dvfslockval and _limit
    users,          \* the tasks that use the interface in this behaviour
    task            \* where each task is, and its local variables

ctrlVars == <<gdDvfsctrl, dvfsctrl_locked, pending>>
tableVars == <<token, lockval, limit, users>>
vars == <<ctrlVars, tableVars, task>>

Tasks == Writers \cup Drivers \cup {Work}
Tokens == {"sysfs", "driver"}           \* DVFS_LOCK_TOKEN_6 and another
TokenOf(t) == IF t \in Drivers THEN "driver" ELSE "sysfs"
Level(l) == l + 1                       \* what is written to ask for a level

\* at, the level asked for, a word read and not yet written, the loop of unlock
Idle == [at |-> "idle", level |-> 0, word |-> {}, left |-> {}]

\* The task goes on, or back to idle; only the level lives from step to step.
Goes(t, from, to) ==
    /\ task[t].at = from
    /\ task' = [task EXCEPT ![t] = [Idle EXCEPT !.at = to,
                   !.level = IF to \in {"lock", "lock_load", "lock_value", "lock_compare", "lock_limit"}
                             THEN task[t].level ELSE 0]]

-----------------------------------------------------------------------------
(***************************************************************************)
(* s5pv210_lock_dvfs_high_level.  The word of tokens is read, changed and  *)
(* written back.                                                           *)
(***************************************************************************)
lock_tests(t) ==
    /\ \/ TokenOf(t) \in token /\ Goes(t, "lock", "locked")
       \/ TokenOf(t) \notin token /\ Goes(t, "lock", "lock_load")
    /\ UNCHANGED <<ctrlVars, tableVars>>

lock_loads(t) ==
    /\ task[t].at = "lock_load"
    /\ task' = [task EXCEPT ![t].at = "lock_store", ![t].word = token \cup {TokenOf(t)}]
    /\ UNCHANGED <<ctrlVars, tableVars>>

lock_stores(t) ==
    /\ Goes(t, "lock_store", "lock_value") /\ token' = task[t].word
    /\ UNCHANGED <<ctrlVars, lockval, limit, users>>

lock_sets_value(t) ==
    /\ Goes(t, "lock_value", "lock_compare")
    /\ lockval' = [lockval EXCEPT ![TokenOf(t)] = task[t].level]
    /\ UNCHANGED <<ctrlVars, token, limit, users>>

lock_compares(t) ==
    /\ \/ task[t].level < limit /\ Goes(t, "lock_compare", "lock_limit")
       \/ task[t].level >= limit /\ Goes(t, "lock_compare", "locked")
    /\ UNCHANGED <<ctrlVars, tableVars>>

lock_sets_limit(t) ==
    /\ Goes(t, "lock_limit", "locked") /\ limit' = task[t].level
    /\ UNCHANGED <<ctrlVars, token, lockval, users>>

lock_dvfs(t) ==
    \/ lock_tests(t) \/ lock_loads(t) \/ lock_stores(t)
    \/ lock_sets_value(t) \/ lock_compares(t) \/ lock_sets_limit(t)

(***************************************************************************)
(* s5pv210_unlock_dvfs_high_level: the limit is looked for again among     *)
(* the values of all tokens.                                               *)
(***************************************************************************)
unlock_loads(t) ==
    /\ task[t].at = "unlock"
    /\ task' = [task EXCEPT ![t].at = "unlock_store", ![t].word = token \ {TokenOf(t)}]
    /\ UNCHANGED <<ctrlVars, tableVars>>

unlock_stores(t) ==
    /\ Goes(t, "unlock_store", "unlock_value") /\ token' = task[t].word
    /\ UNCHANGED <<ctrlVars, lockval, limit, users>>

unlock_sets_value(t) ==
    /\ Goes(t, "unlock_value", "unlock_limit")
    /\ lockval' = [lockval EXCEPT ![TokenOf(t)] = MAX_PERF_LEVEL]
    /\ UNCHANGED <<ctrlVars, token, limit, users>>

unlock_keeps_limit(t) ==
    Goes(t, "unlock_limit", "unlock_any") /\ UNCHANGED <<ctrlVars, tableVars>>

unlock_resets_limit(t) ==
    /\ Goes(t, "unlock_limit", "unlock_any") /\ limit' = MAX_PERF_LEVEL
    /\ UNCHANGED <<ctrlVars, token, lockval, users>>

unlock_looks(t) ==
    /\ task[t].at = "unlock_any"
    /\ task' = [task EXCEPT ![t].at = "unlock_loop",
                            ![t].left = IF token = {} THEN {} ELSE Tokens]
    /\ UNCHANGED <<ctrlVars, tableVars>>

unlock_compares(t) ==
    /\ task[t].at = "unlock_loop"
    /\ \/ \E k \in task[t].left :
             \/ /\ lockval[k] < limit
                /\ task' = [task EXCEPT ![t].left = @ \ {k}, ![t].at = "unlock_lower", ![t].level = lockval[k]]
             \/ lockval[k] >= limit /\ task' = [task EXCEPT ![t].left = @ \ {k}]
       \/ task[t].left = {} /\ Goes(t, "unlock_loop", "unlocked")
    /\ UNCHANGED <<ctrlVars, tableVars>>

unlock_lowers(t) ==
    /\ task[t].at = "unlock_lower" /\ limit' = task[t].level
    /\ task' = [task EXCEPT ![t].at = "unlock_loop", ![t].level = 0]
    /\ UNCHANGED <<ctrlVars, token, lockval, users>>

unlock_dvfs(t) ==
    \/ unlock_loads(t) \/ unlock_stores(t) \/ unlock_sets_value(t)
    \/ unlock_resets_limit(t) \/ unlock_looks(t)
    \/ unlock_compares(t) \/ unlock_lowers(t)

-----------------------------------------------------------------------------
(***************************************************************************)
(* dvfslock_ctrl.  The number is parsed into a global variable.            *)
(***************************************************************************)
ctrl_parses(t, number) ==
    /\ t \in Writers /\ Goes(t, "idle", "parsed") /\ gdDvfsctrl' = number
    /\ UNCHANGED <<dvfsctrl_locked, pending, tableVars>>

ctrl_compares(t) ==
    /\ \/ gdDvfsctrl = 0 /\ Goes(t, "parsed", "zero")
       \/ gdDvfsctrl # 0 /\ Goes(t, "parsed", "number")
    /\ UNCHANGED <<ctrlVars, tableVars>>

ctrl_tests(t) ==
    /\ \/ dvfsctrl_locked /\ Goes(t, "zero", "unlock")
       \/ ~dvfsctrl_locked /\ Goes(t, "zero", "idle")
       \/ dvfsctrl_locked /\ Goes(t, "number", "idle")
       \/ ~dvfsctrl_locked /\ Goes(t, "number", "reading")
    /\ UNCHANGED <<ctrlVars, tableVars>>

\* A number that is 0 by now asks for the fastest level and the shortest time.
ctrl_reads(t) ==
    /\ task[t].at = "reading"
    /\ task' = [task EXCEPT ![t].at = "lock",
                            ![t].level = IF gdDvfsctrl = 0 THEN 0 ELSE gdDvfsctrl - 1]
    /\ UNCHANGED <<ctrlVars, tableVars>>

ctrl_unlocked(t) ==
    /\ t \in Writers /\ Goes(t, "unlocked", "idle") /\ dvfsctrl_locked' = FALSE
    /\ UNCHANGED <<gdDvfsctrl, pending, tableVars>>

ctrl_locked(t) ==
    /\ t \in Writers /\ Goes(t, "locked", "schedule") /\ dvfsctrl_locked' = TRUE
    /\ UNCHANGED <<gdDvfsctrl, pending, tableVars>>

\* schedule_delayed_work: a work that is pending keeps its time.
ctrl_schedules_once(t) ==
    /\ Goes(t, "schedule", "idle") /\ pending' = (pending \/ task[Work].at = "idle")
    /\ UNCHANGED <<gdDvfsctrl, dvfsctrl_locked, tableVars>>

ctrl_schedules(t) ==
    /\ Goes(t, "schedule", "idle") /\ pending' = TRUE
    /\ UNCHANGED <<gdDvfsctrl, dvfsctrl_locked, tableVars>>

(***************************************************************************)
(* do_dvfsunlock_timer.  The work is no longer pending when it runs.       *)
(***************************************************************************)
timer_runs_no_unlock ==
    /\ pending /\ pending' = FALSE /\ dvfsctrl_locked' = FALSE
    /\ Goes(Work, "idle", "unlocked")
    /\ UNCHANGED <<gdDvfsctrl, tableVars>>

timer_runs ==
    /\ pending /\ pending' = FALSE /\ Goes(Work, "idle", "clear")
    /\ UNCHANGED <<gdDvfsctrl, dvfsctrl_locked, tableVars>>

timer_clears ==
    /\ Goes(Work, "clear", "unlock") /\ dvfsctrl_locked' = FALSE
    /\ UNCHANGED <<gdDvfsctrl, pending, tableVars>>

timer_ends == Goes(Work, "unlocked", "idle") /\ UNCHANGED <<ctrlVars, tableVars>>

\* Another driver takes and gives up its limit in turn.
DriverLocks(t, l) ==
    /\ task[t].at = "idle"
    /\ task' = [task EXCEPT ![t].at = "lock", ![t].level = l]
    /\ UNCHANGED <<ctrlVars, tableVars>>

DriverUnlocks(t) ==
    t \in Drivers /\ Goes(t, "locked", "unlock") /\ UNCHANGED <<ctrlVars, tableVars>>

DriverEnds(t) == t \in Drivers /\ Goes(t, "unlocked", "idle") /\ UNCHANGED <<ctrlVars, tableVars>>

-----------------------------------------------------------------------------
Init ==
    /\ gdDvfsctrl = 0 /\ dvfsctrl_locked = FALSE /\ pending = FALSE
    /\ token = {} /\ lockval = [k \in Tokens |-> MAX_PERF_LEVEL] /\ limit = MAX_PERF_LEVEL
    /\ task = [t \in Tasks |-> Idle] /\ users \in Users

Writes(t) ==
    \/ ctrl_compares(t) \/ ctrl_tests(t) \/ ctrl_reads(t)
    \/ ctrl_unlocked(t) \/ ctrl_locked(t) \/ ctrl_schedules(t)

Steps(t) ==
    \/ lock_dvfs(t) \/ unlock_dvfs(t) \/ Writes(t)
    \/ t = Work /\ (timer_runs \/ timer_clears \/ timer_ends)
    \/ DriverUnlocks(t) \/ DriverEnds(t)

Next ==
    \/ \E t \in Tasks : Steps(t)
    \/ \E t \in Writers \cap users, number \in {0} \cup {Level(l) : l \in Levels} : ctrl_parses(t, number)
    \/ \E t \in Drivers \cap users, l \in Levels : DriverLocks(t, l)

Spec == Init /\ [][Next]_vars

\* The scheduler runs every task that can go on; writers may stop writing.
FairSpec == Spec /\ \A t \in Tasks : WF_vars(Steps(t))

-----------------------------------------------------------------------------
\* Tasks between taking the limit of the file and scheduling its end.
Taking == {t \in Writers : task[t].at \in {"lock", "lock_load", "lock_store", "lock_value",
                                           "lock_compare", "lock_limit", "locked", "schedule"}}

\* The work has still to put the value of the file's token back.
Undoing == task[Work].at \in {"clear", "unlock", "unlock_store", "unlock_value"}

(***************************************************************************)
(* A limit set through the file ends: while the file's value is in the     *)
(* table, or the file counts as locked, the work that undoes it is pending *)
(* or at it, or a task is on its way to schedule it, whatever writers, the *)
(* work and other drivers do in between.  A write of 0 is not counted on.  *)
(***************************************************************************)
EndIsComing ==
    lockval["sysfs"] # MAX_PERF_LEVEL \/ dvfsctrl_locked => pending \/ Taking # {} \/ Undoing

(***************************************************************************)
(* The work's delay passes and it gives the limit back: a limit set        *)
(* through the file does not stay for ever.                                *)
(***************************************************************************)
LimitEnds == (lockval["sysfs"] # MAX_PERF_LEVEL) ~> (lockval["sysfs"] = MAX_PERF_LEVEL)

(***************************************************************************)
(* One writer and no other driver: when nothing is under way or pending,   *)
(* no trace of a limit is left, in the token, its value or the limit that  *)
(* the governor looks at.                                                  *)
(***************************************************************************)
QuietMeansNoLimit ==
    /\ \E w \in Writers : users = {w}
    /\ ~pending /\ \A t \in Tasks : task[t].at = "idle"
    => token = {} /\ lockval["sysfs"] = MAX_PERF_LEVEL /\ limit = MAX_PERF_LEVEL /\ ~dvfsctrl_locked
=============================================================================
