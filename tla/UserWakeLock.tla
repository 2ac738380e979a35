---------------------------- MODULE UserWakeLock ----------------------------
(***************************************************************************)
(* kernel/power/userwakelock.c: the wake locks user space takes by writing *)
(* "name" or "name nanoseconds" to /sys/power/wake_lock and releases by    *)
(* writing "name" to /sys/power/wake_unlock.  A lock is created by the     *)
(* first write that names it and is never destroyed.  A write holds the    *)
(* mutex tree_lock throughout; creating the lock only links an inactive    *)
(* lock, so a write is one action.                                         *)
(*                                                                         *)
(* Writes that fail (an empty name, trailing text, an unknown name, no     *)
(* memory) return an error and change nothing.                             *)
(***************************************************************************)
EXTENDS Suspend

CONSTANTS
    UserLocks,      \* the names user space uses
    NoTimeout,      \* a write without a timeout
    TimeoutArgs,    \* the timeouts user space writes, in nanoseconds
    NsPerJiffy,     \* NSEC_PER_SEC / HZ
    UllSize,        \* the number of values of an u64
    LongSize        \* the number of values of a long

ASSUME UserLocksAssumption == UserLocks \subseteq Locks
ASSUME WidthAssumption ==
    /\ TimeoutArgs \subseteq 0 .. UllSize - 1
    /\ NsPerJiffy \in Nat \ {0}
    /\ UllSize \in Nat \ {0}
    /\ LongSize \in Nat /\ LongSize >= 4
ASSUME NoTimeoutAssumption == NoTimeout \notin TimeoutArgs

(***************************************************************************)
(* The conversion of lookup_wake_lock_name: rounded up to whole jiffies in *)
(* 64-bit arithmetic, at least 1, and stored in a long.  An argument that  *)
(* overflows either width becomes a shorter time, a time that has passed,  *)
(* or (when 0 is stored) none.                                             *)
(***************************************************************************)
ToLong(n) ==
    IF n % LongSize < LongSize \div 2 THEN n % LongSize
    ELSE (n % LongSize) - LongSize

\* Mutant: the timeout is rounded down to whole jiffies.
NsToJiffiesRoundedDown(ns) ==
    LET jiffies == ns \div NsPerJiffy
    IN  ToLong(IF jiffies = 0 THEN 1 ELSE jiffies)

NsToJiffies(ns) ==
    LET jiffies == ((ns + NsPerJiffy - 1) % UllSize) \div NsPerJiffy
    IN  ToLong(IF jiffies = 0 THEN 1 ELSE jiffies)

ASSUME TimeoutArgsAssumption == \A ns \in TimeoutArgs : NsToJiffies(ns) <= MaxTimeout

lookup_timeout(arg) == IF arg = NoTimeout THEN 0 ELSE NsToJiffies(arg)

(***************************************************************************)
(* A deadline that is not in the future is a deadline that has passed.     *)
(***************************************************************************)
Deadline(timeout) == IF timeout > 0 THEN timeout ELSE 0

wake_lock_store(l, arg) ==
    LET timeout == lookup_timeout(arg)
    IN  /\ UserContext
        /\ initialized' = initialized \cup {l}
        /\ wake_lock_internal(l, Deadline(timeout), timeout # 0, suspendQueue)
        /\ UNCHANGED suspendVars

wake_unlock_store(l) ==
    /\ UserContext
    /\ wake_unlock(l, suspendQueue)
    /\ UNCHANGED suspendVars
=============================================================================
