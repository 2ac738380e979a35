------------------------------- MODULE Evdev -------------------------------
(***************************************************************************)
(* drivers/input/evdev.c: one input event device, the files open on it and *)
(* the ring buffer and wake lock of each.  The device is built for one CPU *)
(* and evdev_event runs with interrupts off, so an event is one step; the  *)
(* file operations and the removal of the device run in preemptible tasks  *)
(* and are split wherever they give up evdev->mutex.                       *)
(***************************************************************************)
EXTENDS Integers, FiniteSets

CONSTANTS
    Clients,            \* struct evdev_client: the files that may be opened
    NoClient,           \* a NULL client pointer
    EVDEV_BUFFER_SIZE,
    MaxEvents           \* bound: events that each client receives

ASSUME ClientsAssumption == IsFiniteSet(Clients) /\ NoClient \notin Clients
ASSUME BufferAssumption == EVDEV_BUFFER_SIZE \in Nat \ {0}

VARIABLES
    evdev,      \* struct evdev, with the reference count of evdev->dev, whether
                \* evdev_table points to it and how far its removal has come
    handle,     \* the input core: handle->open, the users the handle accounts
                \* for, and whether the handle has grabbed the input device
    file,       \* where the task that opens or closes each file is
    reader,     \* where the task that reads the file is
    ring,       \* head, tail, buffer; events received, the last one taken
    wake_lock   \* the wake lock of each client

deviceVars == <<evdev, handle>>
clientVars == <<file, reader, ring, wake_lock>>
vars == <<deviceVars, clientVars>>

FileSteps == {"closed", "found", "attached", "opening", "failed", "open",
              "ungrabbed", "detached", "freed", "put"}

RemovalSteps == {"connected", "dead", "hungup", "removed", "closed", "gone"}

Goes(c, from, to) == file[c] = from /\ file' = [file EXCEPT ![c] = to]

\* The files that evdev->open counts, and those that hold a reference.
Counted == {c \in Clients : file[c] \in {"opening", "open", "ungrabbed", "detached", "freed"}}
Referring == {c \in Clients : file[c] # "closed"}

\* evdev->mutex; only input_open_device sleeps under it.
MutexFree == \A c \in Clients : file[c] # "opening"

\* "&= EVDEV_BUFFER_SIZE - 1", the size being a power of two.
Masked(i) == i % EVDEV_BUFFER_SIZE

EmptyRing ==
    [head |-> 0, tail |-> 0, received |-> 0, taken |-> 0,
     buffer |-> [i \in 0 .. EVDEV_BUFFER_SIZE - 1 |-> 0]]

HasEvent(c) == ring[c].head # ring[c].tail

-----------------------------------------------------------------------------
(***************************************************************************)
(* evdev_pass_event writes at head without looking at tail: a full buffer  *)
(* becomes an empty one.  Events are numbered in the order received.       *)
(***************************************************************************)
evdev_pass_event_preincrement(r) ==
    [r EXCEPT !.head = Masked(@ + 1), !.received = @ + 1,
              !.buffer[Masked(r.head + 1)] = r.received + 1]

evdev_pass_event(r) ==
    [r EXCEPT !.head = Masked(@ + 1), !.received = @ + 1,
              !.buffer[r.head] = r.received + 1]

(***************************************************************************)
(* evdev_event: the client that has grabbed the device gets the event, or  *)
(* all get it; their readers are woken.  The input core calls it while the *)
(* handle is registered, if the handle is open (any number but 0) or has   *)
(* grabbed the input device.                                               *)
(***************************************************************************)
Receivers == IF evdev.grab # NoClient THEN {evdev.grab} ELSE evdev.client_list

WakeReaders == [c \in Clients |-> IF reader[c] = "blocked" THEN "waiting" ELSE reader[c]]

evdev_event ==
    /\ evdev.removal # "gone"
    /\ handle.grabs \/ handle.open # 0
    /\ \A c \in Receivers : ring[c].received < MaxEvents[c]
    /\ ring' = [c \in Clients |-> IF c \in Receivers THEN evdev_pass_event(ring[c])
                                                     ELSE ring[c]]
    /\ wake_lock' = [c \in Clients |-> IF c \in Receivers THEN "on" ELSE wake_lock[c]]
    /\ reader' = WakeReaders
    /\ UNCHANGED <<deviceVars, file>>

\* evdev_write injects events, under the mutex, into a device that exists.
evdev_write(c) == file[c] = "open" /\ MutexFree /\ evdev.exist /\ evdev_event

\* The five seconds of a wake lock pass.
LockExpires(c) ==
    /\ wake_lock[c] = "on"
    /\ wake_lock' = [wake_lock EXCEPT ![c] = "expired"]
    /\ UNCHANGED <<deviceVars, file, reader, ring>>

-----------------------------------------------------------------------------
(***************************************************************************)
(* evdev_read waits for an event or the end of the device, then fetches    *)
(* until the buffer is empty or the caller's space is used up.  A signal   *)
(* ends the wait.  Each fetch holds buffer_lock.                           *)
(***************************************************************************)
ReaderGoes(c, from, to) ==
    /\ reader[c] \in from
    /\ reader' = [reader EXCEPT ![c] = to]
    /\ UNCHANGED <<deviceVars, file, ring, wake_lock>>

read_begins(c) == file[c] = "open" /\ ReaderGoes(c, {"none"}, "waiting")

read_waits(c) ==
    \/ ~evdev.exist /\ ReaderGoes(c, {"waiting"}, "none")
    \/ evdev.exist /\ HasEvent(c) /\ ReaderGoes(c, {"waiting"}, "fetching")
    \/ evdev.exist /\ ~HasEvent(c) /\ ReaderGoes(c, {"waiting"}, "blocked")

read_interrupted(c) == ReaderGoes(c, {"waiting", "blocked"}, "none")

Unlocks_always(r) == TRUE

Unlocks(r) == r.head = r.tail

evdev_fetch_next_event(c) ==
    /\ reader[c] = "fetching"
    /\ HasEvent(c)
    /\ ring' = [ring EXCEPT ![c].tail = Masked(@ + 1),
                            ![c].taken = ring[c].buffer[ring[c].tail]]
    /\ wake_lock' = IF Unlocks(ring'[c]) THEN [wake_lock EXCEPT ![c] = "off"] ELSE wake_lock
    /\ UNCHANGED <<deviceVars, file, reader>>

read_returns(c) == ReaderGoes(c, {"fetching"}, "none")

-----------------------------------------------------------------------------
(***************************************************************************)
(* EVIOCGRAB.  input_grab_device fails if another handler has the device.  *)
(***************************************************************************)
evdev_grab(c) ==
    /\ file[c] = "open"
    /\ MutexFree
    /\ evdev.exist
    /\ evdev.grab = NoClient
    /\ evdev' = [evdev EXCEPT !.grab = c]
    /\ handle' = [handle EXCEPT !.grabs = TRUE]
    /\ UNCHANGED clientVars

KeepsGrab(c) == UNCHANGED deviceVars

GivesUpGrab(c) ==
    IF evdev.grab = c THEN /\ evdev' = [evdev EXCEPT !.grab = NoClient]
                           /\ handle' = [handle EXCEPT !.grabs = FALSE]
                      ELSE UNCHANGED deviceVars

evdev_ungrab(c) ==
    /\ file[c] = "open"
    /\ MutexFree
    /\ evdev.exist
    /\ evdev.grab = c
    /\ GivesUpGrab(c)
    /\ UNCHANGED clientVars

-----------------------------------------------------------------------------
(***************************************************************************)
(* evdev_open.  The look-up takes a reference under evdev_table_mutex; the *)
(* client is on the list, and gets events, before the device is opened for *)
(* it.  The error path frees the client but not its wake lock.             *)
(***************************************************************************)
get_device_forgotten == UNCHANGED evdev

get_device == evdev' = [evdev EXCEPT !.refs = @ + 1]

open_finds(c) ==
    /\ evdev.table
    /\ Goes(c, "closed", "found")
    /\ get_device
    /\ UNCHANGED <<handle, reader, ring, wake_lock>>

evdev_attach_client(c) ==
    /\ Goes(c, "found", "attached")
    /\ evdev' = [evdev EXCEPT !.client_list = @ \cup {c}]
    /\ ring' = [ring EXCEPT ![c] = EmptyRing]
    /\ wake_lock' = [wake_lock EXCEPT ![c] = "off"]
    /\ UNCHANGED <<handle, reader>>

open_out_of_memory(c) ==
    /\ Goes(c, "found", "put")
    /\ UNCHANGED <<deviceVars, reader, ring, wake_lock>>

(***************************************************************************)
(* evdev_open_device: the first file opens the input device, which can     *)
(* fail; meanwhile events already flow.  The device may be dead, and the   *)
(* wait for the mutex can be interrupted.                                  *)
(***************************************************************************)
evdev_open_device(c) ==
    /\ MutexFree
    /\ evdev.exist
    /\ evdev' = [evdev EXCEPT !.open = @ + 1]
    /\ \/ evdev.open > 0 /\ Goes(c, "attached", "open") /\ UNCHANGED handle
       \/ /\ evdev.open = 0
          /\ Goes(c, "attached", "opening")
          /\ handle' = [handle EXCEPT !.open = @ + 1, !.users = @ + 1]
    /\ UNCHANGED <<reader, ring, wake_lock>>

open_device_returns(c) ==
    /\ \/ Goes(c, "opening", "open") /\ UNCHANGED deviceVars
       \/ /\ Goes(c, "opening", "failed")
          /\ evdev' = [evdev EXCEPT !.open = @ - 1]
          /\ handle' = [handle EXCEPT !.open = @ - 1, !.users = @ - 1]
    /\ UNCHANGED <<reader, ring, wake_lock>>

open_device_refused(c) ==
    /\ Goes(c, "attached", "failed")
    /\ UNCHANGED <<deviceVars, reader, ring, wake_lock>>

err_free_client(c) ==
    /\ Goes(c, "failed", "put")
    /\ evdev' = [evdev EXCEPT !.client_list = @ \ {c}]
    /\ UNCHANGED <<handle, reader, ring, wake_lock>>

-----------------------------------------------------------------------------
(***************************************************************************)
(* evdev_release, after the last use of the file.                          *)
(***************************************************************************)
release_ungrabs(c) ==
    /\ reader[c] = "none"
    /\ MutexFree
    /\ Goes(c, "open", "ungrabbed")
    /\ GivesUpGrab(c)
    /\ UNCHANGED <<reader, ring, wake_lock>>

evdev_detach_client(c) ==
    /\ Goes(c, "ungrabbed", "detached")
    /\ evdev' = [evdev EXCEPT !.client_list = @ \ {c}]
    /\ UNCHANGED <<handle, reader, ring, wake_lock>>

release_frees(c) ==
    /\ Goes(c, "detached", "freed")
    /\ wake_lock' = [wake_lock EXCEPT ![c] = "none"]
    /\ UNCHANGED <<deviceVars, reader, ring>>

\* input_close_device: the handle gives up its grab and its use of the device.
InputClosed == [open |-> handle.open - 1, users |-> handle.users - 1, grabs |-> FALSE]

DropsOpen_dead == TRUE

DropsOpen == evdev.exist

evdev_close_device(c) ==
    /\ MutexFree
    /\ Goes(c, "freed", "put")
    /\ IF DropsOpen THEN /\ evdev' = [evdev EXCEPT !.open = @ - 1]
                         /\ handle' = IF evdev.open = 1 THEN InputClosed ELSE handle
                    ELSE UNCHANGED deviceVars
    /\ UNCHANGED <<reader, ring, wake_lock>>

put_device == evdev' = [evdev EXCEPT !.refs = @ - 1]

file_puts(c) ==
    /\ Goes(c, "put", "closed")
    /\ put_device
    /\ UNCHANGED <<handle, reader, ring, wake_lock>>

-----------------------------------------------------------------------------
(***************************************************************************)
(* evdev_disconnect, called by the input core once it has refused new      *)
(* opens and set handle->open to 0 (input_disconnect_device), which is one *)
(* step here with exist = 0.  The last release between the two would leave *)
(* handle->open at -1, and events pass to a device without clients.        *)
(* evdev_cleanup reads evdev->open without the mutex.                      *)
(***************************************************************************)
evdev_mark_dead ==
    /\ evdev.removal = "connected"
    /\ MutexFree
    /\ evdev' = [evdev EXCEPT !.removal = "dead", !.exist = FALSE]
    /\ handle' = [handle EXCEPT !.open = 0]
    /\ UNCHANGED clientVars

evdev_hangup_silently ==
    /\ evdev.removal = "dead"
    /\ evdev' = [evdev EXCEPT !.removal = "hungup"]
    /\ UNCHANGED <<handle, clientVars>>

evdev_hangup ==
    /\ evdev.removal = "dead"
    /\ evdev' = [evdev EXCEPT !.removal = "hungup"]
    /\ reader' = WakeReaders
    /\ UNCHANGED <<handle, file, ring, wake_lock>>

evdev_remove_chrdev ==
    /\ evdev.removal = "hungup"
    /\ evdev' = [evdev EXCEPT !.removal = "removed", !.table = FALSE]
    /\ UNCHANGED <<handle, clientVars>>

cleanup_closes ==
    /\ evdev.removal = "removed"
    /\ evdev' = [evdev EXCEPT !.removal = "closed"]
    /\ handle' = IF evdev.open > 0 THEN InputClosed ELSE handle
    /\ UNCHANGED clientVars

disconnect_puts ==
    /\ evdev.removal = "closed"
    /\ evdev' = [evdev EXCEPT !.removal = "gone", !.refs = @ - 1]
    /\ UNCHANGED <<handle, clientVars>>

-----------------------------------------------------------------------------
\* evdev_connect has just made the device.
Init ==
    /\ evdev = [exist |-> TRUE, open |-> 0, grab |-> NoClient, client_list |-> {},
                refs |-> 1, table |-> TRUE, removal |-> "connected"]
    /\ handle = [open |-> 0, users |-> 0, grabs |-> FALSE]
    /\ file = [c \in Clients |-> "closed"]
    /\ reader = [c \in Clients |-> "none"]
    /\ ring = [c \in Clients |-> EmptyRing]
    /\ wake_lock = [c \in Clients |-> "none"]

OpenStep(c) ==
    \/ open_finds(c) \/ evdev_attach_client(c) \/ open_out_of_memory(c)
    \/ evdev_open_device(c) \/ open_device_returns(c) \/ open_device_refused(c)
    \/ err_free_client(c) \/ file_puts(c)

ReleaseStep(c) ==
    \/ release_ungrabs(c) \/ evdev_detach_client(c) \/ release_frees(c)
    \/ evdev_close_device(c)

ReadProceeds(c) == read_waits(c) \/ evdev_fetch_next_event(c) \/ read_returns(c)

ReadStep(c) == read_begins(c) \/ ReadProceeds(c) \/ read_interrupted(c)

RemovalStep ==
    evdev_hangup \/ evdev_remove_chrdev \/ cleanup_closes \/ disconnect_puts

Next ==
    \/ evdev_event
    \/ evdev_mark_dead \/ RemovalStep
    \/ \E c \in Clients :
          \/ OpenStep(c) \/ ReleaseStep(c) \/ ReadStep(c)
          \/ evdev_write(c) \/ evdev_grab(c) \/ evdev_ungrab(c) \/ LockExpires(c)

Spec == Init /\ [][Next]_vars

(***************************************************************************)
(* A disconnect that has begun goes on, and a runnable reader is           *)
(* scheduled.  Events, opens and closes need never happen.                 *)
(***************************************************************************)
FairSpec ==
    Spec /\ WF_vars(RemovalStep) /\ \A c \in Clients : WF_vars(ReadProceeds(c))

-----------------------------------------------------------------------------
(***************************************************************************)
(* What lies between tail and head are the newest events, in order,        *)
(* however often the writer has lapped the reader: the reader never gets   *)
(* an old event after a newer one, nor one twice.  Events are lost only in *)
(* whole buffers.                                                          *)
(***************************************************************************)
RingHoldsNewest ==
    \A c \in evdev.client_list :
       LET r == ring[c]
           n == Masked(r.head - r.tail)
       IN  /\ \A i \in 0 .. n - 1 :
                 r.buffer[Masked(r.tail + i)] = r.received - n + 1 + i
           /\ Masked(r.received - r.taken - n) = 0

(***************************************************************************)
(* While events can be read, the client's wake lock is held or its five    *)
(* seconds have passed; and a lock held over a buffer that looks empty     *)
(* means that a whole buffer was overrun.                                  *)
(***************************************************************************)
UnreadKeepsAwake ==
    \A c \in evdev.client_list :
       /\ HasEvent(c) => wake_lock[c] \in {"on", "expired"}
       /\ (wake_lock[c] = "on" /\ ~HasEvent(c))
             => ring[c].received - ring[c].taken >= EVDEV_BUFFER_SIZE

(***************************************************************************)
(* Events go only to clients whose memory is there: the grabbing client is *)
(* on the list, and a client leaves the list before it is freed.           *)
(***************************************************************************)
ReceiversAreAlive ==
    /\ evdev.grab # NoClient =>
          evdev.grab \in evdev.client_list /\ file[evdev.grab] = "open"
    /\ \A c \in evdev.client_list :
          file[c] \in {"attached", "opening", "failed", "open", "ungrabbed"}

(***************************************************************************)
(* The input device is opened for the first file and closed exactly once,  *)
(* by the last release or by the disconnect that races with it.            *)
(***************************************************************************)
InputClosedOnce ==
    /\ evdev.exist => evdev.open = Cardinality(Counted)
    /\ handle.users =
          IF evdev.open > 0 /\ evdev.removal \notin {"closed", "gone"} THEN 1 ELSE 0

(***************************************************************************)
(* The device structure is not freed while a task uses it.                 *)
(***************************************************************************)
DeviceAliveWhileUsed ==
    (Referring # {} \/ evdev.removal # "gone") => evdev.refs > 0

(***************************************************************************)
(* A reader does not stay blocked with an event to read or after the       *)
(* device is gone.                                                         *)
(***************************************************************************)
ReaderReleased ==
    \A c \in Clients :
       (reader[c] = "blocked" /\ (HasEvent(c) \/ ~evdev.exist))
          ~> ~(reader[c] = "blocked" /\ (HasEvent(c) \/ ~evdev.exist))
=============================================================================
