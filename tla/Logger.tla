------------------------------- MODULE Logger -------------------------------
(***************************************************************************)
(* drivers/staging/android/logger.c: one log, a ring buffer of entries     *)
(* that writers append to and that each reader follows at its own offset.  *)
(* log->mutex is held while entries are read and written; the offset that  *)
(* a writer goes back to after a fault, the sleeping of readers and the    *)
(* closing of a file are outside it.  A byte of the buffer is a cell, and  *)
(* the header of an entry takes one.                                       *)
(***************************************************************************)
EXTENDS Naturals, Sequences, SequencesExt

CONSTANTS
    Readers, Writers,
    NoReader,
    LOGGER_ENTRY_MAX_LEN,
    Size,           \* log->size
    MaxCells        \* bound: each writer begins while fewer cells have been written

\* The logs have 256 KiB and more, and an entry at most 4104 bytes.  "A power of
\* two, greater than LOGGER_ENTRY_MAX_LEN" (logger.c:638) would not be enough.
ASSUME SizeAssumption ==
    /\ Size \in Nat /\ LOGGER_ENTRY_MAX_LEN \in Nat
    /\ LOGGER_ENTRY_MAX_LEN >= 2 /\ 2 * LOGGER_ENTRY_MAX_LEN <= Size
ASSUME ReaderAssumption == NoReader \notin Readers

VARIABLES
    buffer, w_off, head,
    readers,        \* log->readers, in list order
    r_off,          \* of each reader
    read,           \* where the read() of each reader is
    write,          \* where the write of each writer is, and its variables
    written,        \* history: cells of all whole entries written so far, and
    tip,            \* the offset where the last of them ends
    undone          \* history: a fault has put w_off elsewhere than there

logVars == <<buffer, w_off, head, written, tip, undone>>
readerVars == <<readers, r_off, read>>
vars == <<logVars, readerVars, write>>

Offsets == 0 .. Size - 1
Lengths == 2 .. LOGGER_ENTRY_MAX_LEN

\* The header cell of an entry, a cell of its payload, a cell of a failed copy.  An
\* entry is known by the number of its first cell, counted from the first write.
Header(e, len) == [entry |-> e, len |-> len]
Payload(e) == [entry |-> e, len |-> 0]
Junk == [entry |-> 0, len |-> 0]

logger_offset(n) == n % Size

IsOpen(r) == r \in ToSet(readers)

HasData(r) == w_off # r_off[r]

\* log->mutex is held by a writer from write_locks to its last copy, and for
\* ever by one that stopped in between.
Holds(w) == write[w].pc \in {"walking", "copying", "oops"}
MutexFree == \A w \in Writers : ~Holds(w)

-----------------------------------------------------------------------------
get_entry_len(off) == buffer[off].len

(***************************************************************************)
(* get_next_entry: follows the lengths from off for at least len cells.    *)
(***************************************************************************)
get_next_entry(off, len) ==
    LET At[n \in 0 .. len] ==       \* the offset after at least n cells, and their number
            IF n = 0 THEN [off |-> off, count |-> 0]
            ELSE LET p == At[n - 1]
                     nr == get_entry_len(p.off)
                 IN  IF p.count >= n THEN p
                     ELSE [off |-> logger_offset(p.off + nr), count |-> p.count + nr]
    IN  At[len].off

\* Does the line from a to b cross c?
clock_interval(a, b, c) == IF b < a THEN a < c \/ b >= c ELSE a < c /\ b >= c

(***************************************************************************)
(* fix_up_readers pulls head, and then one reader after the other, out of  *)
(* the way of an entry of len cells.                                       *)
(***************************************************************************)
PulledForward(off, len) ==
    IF clock_interval(w_off, logger_offset(w_off + len), off)
    THEN get_next_entry(off, len) ELSE off

PlaceOf(r) == CHOOSE i \in 1 .. Len(readers) : readers[i] = r

\* The reader after r in the list; the list is walked without a safe cursor.
After(r) == IF PlaceOf(r) = Len(readers) THEN NoReader ELSE readers[PlaceOf(r) + 1]

-----------------------------------------------------------------------------
(***************************************************************************)
(* logger_aio_write.  orig is read before the mutex is taken, so it may be *)
(* an offset inside the entry that another task is writing.                *)
(***************************************************************************)
Idle == [pc |-> "idle", orig |-> 0, len |-> 0, done |-> 0, cursor |-> NoReader]

write_begins(w, len) ==
    /\ write[w].pc = "idle" /\ written < MaxCells[w]
    /\ write' = [write EXCEPT ![w] = [Idle EXCEPT !.pc = "begun", !.orig = w_off, !.len = len]]
    /\ UNCHANGED <<logVars, readerVars>>

write_locks(w) ==
    /\ write[w].pc = "begun" /\ MutexFree
    /\ head' = PulledForward(head, write[w].len)
    /\ write' = [write EXCEPT ![w].pc = "walking",
                              ![w].cursor = IF readers = <<>> THEN NoReader ELSE Head(readers)]
    /\ UNCHANGED <<buffer, w_off, written, tip, undone, readerVars>>

write_fixes_reader(w) ==
    LET r == write[w].cursor IN
    /\ write[w].pc = "walking" /\ r # NoReader /\ IsOpen(r)
    /\ r_off' = [r_off EXCEPT ![r] = PulledForward(@, write[w].len)]
    /\ write' = [write EXCEPT ![w].cursor = After(r)]
    /\ UNCHANGED <<logVars, readers, read>>

\* The reader was freed meanwhile, and its links are poisoned.
write_oops(w) ==
    /\ write[w].pc = "walking" /\ write[w].cursor # NoReader /\ ~IsOpen(write[w].cursor)
    /\ write' = [write EXCEPT ![w].pc = "oops"]
    /\ UNCHANGED <<logVars, readerVars>>

\* count cells, all the same, at w_off and over the end of the buffer.
Stored(count, cell) ==
    [i \in Offsets |-> IF logger_offset(i + Size - w_off) < count THEN cell ELSE buffer[i]]

\* do_write_log.
write_header(w) ==
    /\ write[w].pc = "walking" /\ write[w].cursor = NoReader
    /\ buffer' = Stored(1, Header(written + 1, write[w].len))
    /\ w_off' = logger_offset(w_off + 1)
    /\ write' = [write EXCEPT ![w].pc = "copying", ![w].done = 1]
    /\ UNCHANGED <<head, written, tip, undone, readerVars>>

\* do_write_log_from_user copies a segment.
Segment(w, n) ==
    /\ write[w].pc = "copying" /\ n \in 1 .. write[w].len - write[w].done
    /\ buffer' = Stored(n, Payload(written + 1))
    /\ w_off' = logger_offset(w_off + n)
    /\ UNCHANGED <<head, undone, readerVars>>

write_segment(w, n) ==
    /\ Segment(w, n) /\ write[w].done + n < write[w].len
    /\ write' = [write EXCEPT ![w].done = @ + n]
    /\ UNCHANGED <<written, tip>>

\* The last segment, after which the mutex is released.
write_ends(w, n) ==
    /\ Segment(w, n) /\ write[w].done + n = write[w].len
    /\ written' = written + write[w].len /\ tip' = w_off'
    /\ write' = [write EXCEPT ![w] = [Idle EXCEPT !.pc = "unlocked"]]

\* copy_from_user fails, perhaps after part of a segment.
CopyFails(w) ==
    /\ write[w].pc = "copying"
    /\ \E n \in 0 .. write[w].len - write[w].done : buffer' = Stored(n, Junk)
    /\ write' = [write EXCEPT ![w] = Idle]
    /\ UNCHANGED <<head, written, tip, readerVars>>

write_faults_offset_kept(w) == CopyFails(w) /\ UNCHANGED <<w_off, undone>>

write_faults(w) ==
    /\ CopyFails(w)
    /\ w_off' = write[w].orig /\ undone' = (undone \/ w_off' # tip)

\* wake_up_interruptible, after the mutex is released.
Woken(r) ==
    CASE read[r] = "empty" -> "start"
      [] read[r] = "asleep" -> "start"
      [] OTHER -> read[r]

write_wakes_sleepers(w) ==
    /\ write[w].pc = "unlocked"
    /\ read' = [r \in Readers |-> IF read[r] = "asleep" THEN "start" ELSE read[r]]
    /\ write' = [write EXCEPT ![w] = Idle]
    /\ UNCHANGED <<logVars, readers, r_off>>

write_wakes(w) ==
    /\ write[w].pc = "unlocked"
    /\ read' = [r \in Readers |-> Woken(r)]
    /\ write' = [write EXCEPT ![w] = Idle]
    /\ UNCHANGED <<logVars, readers, r_off>>

-----------------------------------------------------------------------------
(***************************************************************************)
(* logger_read: queue on log->wq, look, sleep if there is nothing (a       *)
(* wakeup between the look and schedule() cancels the sleep), then look    *)
(* again with the mutex held and take one entry.                           *)
(***************************************************************************)
ReadGoes(r, from, to) ==
    /\ read[r] \in from
    /\ read' = [read EXCEPT ![r] = to]
    /\ UNCHANGED <<logVars, readers, r_off, write>>

read_begins(r) == IsOpen(r) /\ ReadGoes(r, {"idle"}, "start")

read_prepares(r) == ReadGoes(r, {"start"}, "queued")

read_looks(r) ==
    /\ MutexFree
    /\ \/ HasData(r) /\ ReadGoes(r, {"queued"}, "ready")
       \/ ~HasData(r) /\ ReadGoes(r, {"queued"}, "empty")

read_sleeps(r) == ReadGoes(r, {"empty"}, "asleep")

\* O_NONBLOCK or a signal; in the end a caller's buffer that is too small.
read_gives_up(r) ==
    \/ ReadGoes(r, {"empty", "asleep"}, "idle")
    \/ MutexFree /\ HasData(r) /\ ReadGoes(r, {"ready"}, "idle")

read_raced(r) == MutexFree /\ ~HasData(r) /\ ReadGoes(r, {"ready"}, "start")

read_takes(r) ==
    /\ read[r] = "ready" /\ MutexFree /\ HasData(r)
    /\ r_off' = [r_off EXCEPT ![r] = logger_offset(@ + get_entry_len(@))]
    /\ read' = [read EXCEPT ![r] = "idle"]
    /\ UNCHANGED <<logVars, readers, write>>

-----------------------------------------------------------------------------
logger_open(r) ==
    /\ ~IsOpen(r) /\ MutexFree
    /\ readers' = Append(readers, r)
    /\ r_off' = [r_off EXCEPT ![r] = head]
    /\ UNCHANGED <<logVars, read, write>>

\* The last reference to the file is gone, so no read() is in progress.  The mutex
\* is not taken.
logger_release(r) ==
    /\ IsOpen(r) /\ read[r] = "idle"
    /\ readers' = RemoveAt(readers, PlaceOf(r))
    /\ UNCHANGED <<logVars, r_off, read, write>>

\* LOGGER_FLUSH_LOG.
logger_flush ==
    /\ MutexFree
    /\ r_off' = [r \in Readers |-> IF IsOpen(r) THEN w_off ELSE r_off[r]]
    /\ head' = w_off
    /\ UNCHANGED <<buffer, w_off, written, tip, undone, readers, read, write>>

-----------------------------------------------------------------------------
Init ==
    /\ buffer = [i \in Offsets |-> Junk] /\ w_off = 0 /\ head = 0
    /\ readers = <<>> /\ r_off = [r \in Readers |-> 0] /\ read = [r \in Readers |-> "idle"]
    /\ write = [w \in Writers |-> Idle]
    /\ written = 0 /\ tip = 0 /\ undone = FALSE

WriteSteps(w) ==
    \/ write_locks(w) \/ write_fixes_reader(w) \/ write_oops(w)
    \/ write_header(w) \/ write_wakes(w)
    \/ \E n \in Lengths \cup {1} : write_segment(w, n) \/ write_ends(w, n)

ReadSteps(r) ==
    read_prepares(r) \/ read_looks(r) \/ read_sleeps(r) \/ read_raced(r) \/ read_takes(r)

Next ==
    \/ \E w \in Writers :
          (\E len \in Lengths : write_begins(w, len)) \/ WriteSteps(w) \/ write_faults(w)
    \/ \E r \in Readers :
          read_begins(r) \/ ReadSteps(r) \/ read_gives_up(r) \/ logger_open(r) \/ logger_release(r)
    \/ logger_flush

Spec == Init /\ [][Next]_vars

\* Every task that can go on does, and the scheduler lets each run.
FairSpec ==
    /\ Spec
    /\ \A w \in Writers : WF_vars(WriteSteps(w))
    /\ \A r \in Readers : WF_vars(ReadSteps(r))

-----------------------------------------------------------------------------
\* The entries from an offset to tip; 0 for what is not a whole entry.
EntriesFrom(off) ==
    LET Rest[d \in 0 .. Size] ==
            LET o == logger_offset(tip + Size - d)
                c == buffer[o]
                Whole == /\ c.len \in 1 .. d
                         /\ \A k \in 1 .. c.len - 1 :
                               buffer[logger_offset(o + k)] = Payload(c.entry)
            IN  IF d = 0 THEN <<>>
                ELSE IF Whole THEN <<c.entry>> \o Rest[d - c.len] ELSE <<0>>
    IN  Rest[logger_offset(tip + Size - off)]

\* The log as its readers see it.
Channel == INSTANCE LogChannel WITH
    open <- ToSet(readers),
    unread <- [r \in Readers |-> IF IsOpen(r) THEN EntriesFrom(r_off[r]) ELSE <<>>],
    start <- EntriesFrom(head),
    writing <- IF MutexFree THEN 0 ELSE write[CHOOSE w \in Writers : Holds(w)].len

(***************************************************************************)
(* The ring buffer with its offsets implements the log of LogChannel: each *)
(* reader gets the entries whole, once and in order, loses them only to a  *)
(* flush or to a write that has no room beside them, and then the oldest,  *)
(* and just those that get_next_entry passes over; until a fault puts the  *)
(* write offset elsewhere than at the end of the last whole entry.         *)
(***************************************************************************)
ImplementsLogChannel == Channel!Init /\ [][Channel!Next \/ undone']_<<Channel!vars, undone>>

(***************************************************************************)
(* "blocks until log is written to" (logger.c:212): a reader that sleeps   *)
(* while there is an entry for it is woken, though a file may be closed    *)
(* under a writer that stops there with the mutex, which the reader then   *)
(* waits for instead; until a fault has left w_off at a wrong offset.      *)
(***************************************************************************)
SleeperWoken ==
    \A r \in Readers : (read[r] = "asleep" /\ r_off[r] # tip) ~> (read[r] # "asleep" \/ undone)
=============================================================================
