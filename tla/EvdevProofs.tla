---------------------------- MODULE EvdevProofs ----------------------------
(***************************************************************************)
(* Safety of an input event device, for any number of files, any size of   *)
(* the buffer and any interleaving of opens, closes, grabs, reads, events  *)
(* and the removal of the device: who receives events, what the rings      *)
(* hold, and the counters that decide when the input device is closed and  *)
(* the structure freed.                                                    *)
(***************************************************************************)
EXTENDS Evdev, FiniteSetTheorems, TLAPS

\* The steps of the file between evdev_attach_client and evdev_detach_client.
Listed == {"attached", "opening", "failed", "open", "ungrabbed"}

EvdevRecords ==
    [exist : BOOLEAN, open : Int, grab : Clients \cup {NoClient},
     client_list : SUBSET Clients, refs : Int, table : BOOLEAN, removal : RemovalSteps]

(***************************************************************************)
(* ReceiversAreAlive is not inductive: evdev_grab needs to know that an    *)
(* open file is on the list, so the list is pinned down exactly.           *)
(***************************************************************************)
ListInv ==
    /\ evdev \in EvdevRecords
    /\ file \in [Clients -> FileSteps]
    /\ evdev.client_list = {c \in Clients : file[c] \in Listed}
    /\ evdev.grab # NoClient => file[evdev.grab] = "open"

(***************************************************************************)
(* Steps that leave the device and the files alone.                        *)
(***************************************************************************)
LEMMA ListUnchanged == ListInv /\ UNCHANGED <<evdev, file>> => ListInv'
BY DEF ListInv

(***************************************************************************)
(* A file without the grab moves between two steps that agree on whether it*)
(* is on the list, and the list stays.                                     *)
(***************************************************************************)
LEMMA FileStays ==
    ASSUME ListInv, NEW c \in Clients, NEW to \in FileSteps,
           file' = [file EXCEPT ![c] = to], file[c] \in Listed <=> to \in Listed,
           file[c] # "open" \/ evdev.grab # c,
           evdev' \in EvdevRecords, evdev'.grab = evdev.grab,
           evdev'.client_list = evdev.client_list
    PROVE  ListInv'
<1>1. file' \in [Clients -> FileSteps]
    BY DEF ListInv
<1>2. evdev'.client_list = {d \in Clients : file'[d] \in Listed}
    BY DEF ListInv
<1>3. evdev'.grab # NoClient => file'[evdev'.grab] = "open"
    BY DEF ListInv, EvdevRecords
<1> QED
    BY <1>1, <1>2, <1>3 DEF ListInv

(***************************************************************************)
(* A file moves to a step after evdev_attach_client and joins the list.    *)
(***************************************************************************)
LEMMA FileJoins ==
    ASSUME ListInv, NEW c \in Clients, NEW to \in FileSteps,
           file' = [file EXCEPT ![c] = to], to \in Listed,
           file[c] # "open" \/ evdev.grab # c,
           evdev' \in EvdevRecords, evdev'.grab = evdev.grab,
           evdev'.client_list = evdev.client_list \cup {c}
    PROVE  ListInv'
<1>1. file' \in [Clients -> FileSteps]
    BY DEF ListInv
<1>2. evdev'.client_list = {d \in Clients : file'[d] \in Listed}
    BY DEF ListInv
<1>3. evdev'.grab # NoClient => file'[evdev'.grab] = "open"
    BY DEF ListInv, EvdevRecords
<1> QED
    BY <1>1, <1>2, <1>3 DEF ListInv

(***************************************************************************)
(* A file without the grab moves to a step after evdev_detach_client and   *)
(* leaves the list.                                                        *)
(***************************************************************************)
LEMMA FileLeaves ==
    ASSUME ListInv, NEW c \in Clients, NEW to \in FileSteps,
           file' = [file EXCEPT ![c] = to], to \notin Listed,
           file[c] # "open" \/ evdev.grab # c,
           evdev' \in EvdevRecords, evdev'.grab = evdev.grab,
           evdev'.client_list = evdev.client_list \ {c}
    PROVE  ListInv'
<1>1. file' \in [Clients -> FileSteps]
    BY DEF ListInv
<1>2. evdev'.client_list = {d \in Clients : file'[d] \in Listed}
    BY DEF ListInv
<1>3. evdev'.grab # NoClient => file'[evdev'.grab] = "open"
    BY DEF ListInv, EvdevRecords
<1> QED
    BY <1>1, <1>2, <1>3 DEF ListInv

(***************************************************************************)
(* evdev_open and its error path.                                          *)
(***************************************************************************)
LEMMA OpenList == ASSUME ListInv, NEW c \in Clients, OpenStep(c) PROVE ListInv'
<1>1. CASE open_finds(c)
  <2>1. file[c] = "closed" /\ file' = [file EXCEPT ![c] = "found"]
    BY <1>1 DEF open_finds, Goes
  <2>2. evdev' \in EvdevRecords /\ evdev'.grab = evdev.grab
        /\ evdev'.client_list = evdev.client_list
    BY <1>1 DEF open_finds, get_device, ListInv, EvdevRecords
  <2> QED
    BY <2>1, <2>2, FileStays DEF FileSteps, Listed
<1>2. CASE evdev_attach_client(c)
  <2>1. file[c] = "found" /\ file' = [file EXCEPT ![c] = "attached"]
    BY <1>2 DEF evdev_attach_client, Goes
  <2>2. evdev' \in EvdevRecords /\ evdev'.grab = evdev.grab
        /\ evdev'.client_list = evdev.client_list \cup {c}
    BY <1>2 DEF evdev_attach_client, ListInv, EvdevRecords
  <2> QED
    BY <2>1, <2>2, FileJoins DEF FileSteps, Listed
<1>3. CASE open_out_of_memory(c)
  <2>1. file[c] = "found" /\ file' = [file EXCEPT ![c] = "put"]
    BY <1>3 DEF open_out_of_memory, Goes
  <2>2. evdev' \in EvdevRecords /\ evdev'.grab = evdev.grab
        /\ evdev'.client_list = evdev.client_list
    BY <1>3 DEF open_out_of_memory, deviceVars, ListInv, EvdevRecords
  <2> QED
    BY <2>1, <2>2, FileStays DEF FileSteps, Listed
<1>4. CASE evdev_open_device(c)
  <2>1. file[c] = "attached"
        /\ (file' = [file EXCEPT ![c] = "open"] \/ file' = [file EXCEPT ![c] = "opening"])
    BY <1>4 DEF evdev_open_device, Goes
  <2>2. evdev' \in EvdevRecords /\ evdev'.grab = evdev.grab
        /\ evdev'.client_list = evdev.client_list
    BY <1>4 DEF evdev_open_device, ListInv, EvdevRecords
  <2> QED
    BY <2>1, <2>2, FileStays DEF FileSteps, Listed
<1>5. CASE open_device_returns(c)
  <2>1. file[c] = "opening"
        /\ (file' = [file EXCEPT ![c] = "open"] \/ file' = [file EXCEPT ![c] = "failed"])
    BY <1>5 DEF open_device_returns, Goes
  <2>2. evdev' \in EvdevRecords /\ evdev'.grab = evdev.grab
        /\ evdev'.client_list = evdev.client_list
    BY <1>5 DEF open_device_returns, deviceVars, ListInv, EvdevRecords
  <2> QED
    BY <2>1, <2>2, FileStays DEF FileSteps, Listed
<1>6. CASE open_device_refused(c)
  <2>1. file[c] = "attached" /\ file' = [file EXCEPT ![c] = "failed"]
    BY <1>6 DEF open_device_refused, Goes
  <2>2. evdev' \in EvdevRecords /\ evdev'.grab = evdev.grab
        /\ evdev'.client_list = evdev.client_list
    BY <1>6 DEF open_device_refused, deviceVars, ListInv, EvdevRecords
  <2> QED
    BY <2>1, <2>2, FileStays DEF FileSteps, Listed
<1>7. CASE err_free_client(c)
  <2>1. file[c] = "failed" /\ file' = [file EXCEPT ![c] = "put"]
    BY <1>7 DEF err_free_client, Goes
  <2>2. evdev' \in EvdevRecords /\ evdev'.grab = evdev.grab
        /\ evdev'.client_list = evdev.client_list \ {c}
    BY <1>7 DEF err_free_client, ListInv, EvdevRecords
  <2> QED
    BY <2>1, <2>2, FileLeaves DEF FileSteps, Listed
<1>8. CASE file_puts(c)
  <2>1. file[c] = "put" /\ file' = [file EXCEPT ![c] = "closed"]
    BY <1>8 DEF file_puts, Goes
  <2>2. evdev' \in EvdevRecords /\ evdev'.grab = evdev.grab
        /\ evdev'.client_list = evdev.client_list
    BY <1>8 DEF file_puts, put_device, ListInv, EvdevRecords
  <2> QED
    BY <2>1, <2>2, FileStays DEF FileSteps, Listed
<1> QED
    BY <1>1, <1>2, <1>3, <1>4, <1>5, <1>6, <1>7, <1>8 DEF OpenStep

(***************************************************************************)
(* evdev_release gives up the grab before anything else.                   *)
(***************************************************************************)
LEMMA ReleaseList == ASSUME ListInv, NEW c \in Clients, ReleaseStep(c) PROVE ListInv'
<1>1. CASE release_ungrabs(c)
  <2>1. file[c] = "open" /\ file' = [file EXCEPT ![c] = "ungrabbed"]
    BY <1>1 DEF release_ungrabs, Goes
  <2>2. evdev' \in EvdevRecords /\ evdev'.client_list = evdev.client_list
    BY <1>1 DEF release_ungrabs, GivesUpGrab, deviceVars, ListInv, EvdevRecords
  <2>3. CASE evdev.grab = c
    <3>1. evdev'.grab = NoClient
        BY <1>1, <2>3 DEF release_ungrabs, GivesUpGrab, ListInv, EvdevRecords
    <3>2. file' \in [Clients -> FileSteps]
        BY <2>1 DEF ListInv, FileSteps
    <3>3. evdev'.client_list = {d \in Clients : file'[d] \in Listed}
        BY <2>1, <2>2 DEF ListInv, Listed
    <3> QED
        BY <2>2, <3>1, <3>2, <3>3 DEF ListInv
  <2>4. CASE evdev.grab # c
    <3>1. evdev'.grab = evdev.grab
        BY <1>1, <2>4 DEF release_ungrabs, GivesUpGrab, deviceVars
    <3> QED
        BY <2>1, <2>2, <2>4, <3>1, FileStays DEF FileSteps, Listed
  <2> QED
    BY <2>3, <2>4
<1>2. CASE evdev_detach_client(c)
  <2>1. file[c] = "ungrabbed" /\ file' = [file EXCEPT ![c] = "detached"]
    BY <1>2 DEF evdev_detach_client, Goes
  <2>2. evdev' \in EvdevRecords /\ evdev'.grab = evdev.grab
        /\ evdev'.client_list = evdev.client_list \ {c}
    BY <1>2 DEF evdev_detach_client, ListInv, EvdevRecords
  <2> QED
    BY <2>1, <2>2, FileLeaves DEF FileSteps, Listed
<1>3. CASE release_frees(c)
  <2>1. file[c] = "detached" /\ file' = [file EXCEPT ![c] = "freed"]
    BY <1>3 DEF release_frees, Goes
  <2>2. evdev' \in EvdevRecords /\ evdev'.grab = evdev.grab
        /\ evdev'.client_list = evdev.client_list
    BY <1>3 DEF release_frees, deviceVars, ListInv, EvdevRecords
  <2> QED
    BY <2>1, <2>2, FileStays DEF FileSteps, Listed
<1>4. CASE evdev_close_device(c)
  <2>1. file[c] = "freed" /\ file' = [file EXCEPT ![c] = "put"]
    BY <1>4 DEF evdev_close_device, Goes
  <2>2. evdev' \in EvdevRecords /\ evdev'.grab = evdev.grab
        /\ evdev'.client_list = evdev.client_list
    BY <1>4 DEF evdev_close_device, deviceVars, ListInv, EvdevRecords
  <2> QED
    BY <2>1, <2>2, FileStays DEF FileSteps, Listed
<1> QED
    BY <1>1, <1>2, <1>3, <1>4 DEF ReleaseStep

(***************************************************************************)
(* Every step preserves the list invariant.                                *)
(***************************************************************************)
LEMMA ListStep == ListInv /\ [Next]_vars => ListInv'
<1> SUFFICES ASSUME ListInv, [Next]_vars PROVE ListInv'
    OBVIOUS
<1>1. CASE evdev_event
    BY <1>1, ListUnchanged DEF evdev_event, deviceVars
<1>2. CASE evdev_mark_dead
    BY <1>2 DEF evdev_mark_dead, clientVars, ListInv, EvdevRecords, RemovalSteps
<1>3. CASE RemovalStep
  <2>1. CASE evdev_hangup
    <3>1. evdev' \in EvdevRecords
        BY <2>1 DEF evdev_hangup, ListInv, EvdevRecords, RemovalSteps
    <3>2. evdev'.grab = evdev.grab /\ evdev'.client_list = evdev.client_list /\ file' = file
        BY <2>1 DEF evdev_hangup, ListInv, EvdevRecords
    <3> QED
        BY <3>1, <3>2 DEF ListInv
  <2>2. CASE evdev_remove_chrdev
    <3>1. evdev' \in EvdevRecords
        BY <2>2 DEF evdev_remove_chrdev, ListInv, EvdevRecords, RemovalSteps
    <3>2. evdev'.grab = evdev.grab /\ evdev'.client_list = evdev.client_list /\ file' = file
        BY <2>2 DEF evdev_remove_chrdev, clientVars, ListInv, EvdevRecords
    <3> QED
        BY <3>1, <3>2 DEF ListInv
  <2>3. CASE cleanup_closes
    <3>1. evdev' \in EvdevRecords
        BY <2>3 DEF cleanup_closes, ListInv, EvdevRecords, RemovalSteps
    <3>2. evdev'.grab = evdev.grab /\ evdev'.client_list = evdev.client_list /\ file' = file
        BY <2>3 DEF cleanup_closes, clientVars, ListInv, EvdevRecords
    <3> QED
        BY <3>1, <3>2 DEF ListInv
  <2>4. CASE disconnect_puts
    <3>1. evdev' \in EvdevRecords
        <4>1. evdev.refs - 1 \in Int
            BY DEF ListInv, EvdevRecords
        <4>2. evdev' = [[evdev EXCEPT !.removal = "gone"] EXCEPT !.refs = evdev.refs - 1]
            BY <2>4 DEF disconnect_puts, ListInv, EvdevRecords
        <4>3. [evdev EXCEPT !.removal = "gone"] \in EvdevRecords
            BY DEF ListInv, EvdevRecords, RemovalSteps
        <4> QED
            BY <4>1, <4>2, <4>3 DEF EvdevRecords
    <3>2. evdev'.grab = evdev.grab /\ evdev'.client_list = evdev.client_list /\ file' = file
        BY <2>4 DEF disconnect_puts, clientVars, ListInv, EvdevRecords
    <3> QED
        BY <3>1, <3>2 DEF ListInv
  <2> QED
    BY <1>3, <2>1, <2>2, <2>3, <2>4 DEF RemovalStep
<1>4. ASSUME NEW c \in Clients, OpenStep(c) PROVE ListInv'
    BY <1>4, OpenList
<1>5. ASSUME NEW c \in Clients, ReleaseStep(c) PROVE ListInv'
    BY <1>5, ReleaseList
<1>6. ASSUME NEW c \in Clients, ReadStep(c) PROVE ListInv'
    BY <1>6, ListUnchanged
    DEF ReadStep, ReadProceeds, ReaderGoes, read_begins, read_waits, read_interrupted,
        read_returns, evdev_fetch_next_event, deviceVars
<1>7. ASSUME NEW c \in Clients, evdev_write(c) PROVE ListInv'
    BY <1>7, ListUnchanged DEF evdev_write, evdev_event, deviceVars
<1>8. ASSUME NEW c \in Clients, evdev_grab(c) PROVE ListInv'
    BY <1>8 DEF evdev_grab, clientVars, ListInv, EvdevRecords
<1>9. ASSUME NEW c \in Clients, evdev_ungrab(c) PROVE ListInv'
    BY <1>9 DEF evdev_ungrab, GivesUpGrab, clientVars, ListInv, EvdevRecords
<1>10. ASSUME NEW c \in Clients, LockExpires(c) PROVE ListInv'
    BY <1>10, ListUnchanged DEF LockExpires, deviceVars
<1>11. CASE UNCHANGED vars
    BY <1>11, ListUnchanged DEF vars, deviceVars, clientVars
<1> QED
    BY <1>1, <1>2, <1>3, <1>4, <1>5, <1>6, <1>7, <1>8, <1>9, <1>10, <1>11 DEF Next

-----------------------------------------------------------------------------
(***************************************************************************)
(* Positions in the buffer.  Masked, "&= EVDEV_BUFFER_SIZE - 1", of what   *)
(* the ring computes with it.                                              *)
(***************************************************************************)
Slots == 0 .. EVDEV_BUFFER_SIZE - 1

LEMMA MaskedSlot == ASSUME NEW x \in Slots PROVE Masked(x) = x
BY BufferAssumption DEF Masked, Slots

LEMMA MaskedOver ==
    ASSUME NEW x \in EVDEV_BUFFER_SIZE .. 2 * EVDEV_BUFFER_SIZE - 1
    PROVE  Masked(x) = x - EVDEV_BUFFER_SIZE
BY BufferAssumption DEF Masked

LEMMA MaskedDifference ==
    ASSUME NEW x \in Slots, NEW y \in Slots
    PROVE  Masked(x - y) = IF x >= y THEN x - y ELSE x - y + EVDEV_BUFFER_SIZE
BY BufferAssumption DEF Masked, Slots

\* The remainder of a division is unique.
LEMMA RemainderUnique ==
    ASSUME NEW n \in Nat \ {0}, NEW a \in Int, NEW b \in Int,
           NEW r \in 0 .. n - 1, NEW s \in 0 .. n - 1,
           n * a + r = n * b + s
    PROVE  r = s
<1>1. n * (a - b) = s - r
    OBVIOUS
<1>2. CASE a > b
  <2>1. n * (a - b) >= n * 1
    BY <1>2
  <2> QED
    BY <2>1, <1>1
<1>3. CASE a < b
  <2>1. n * (b - a) >= n * 1
    BY <1>3
  <2>2. n * (b - a) = r - s
    OBVIOUS
  <2> QED
    BY <2>1, <2>2
<1> QED
    BY <1>1, <1>2, <1>3

\* A whole buffer more makes no difference.
LEMMA MaskedLap == ASSUME NEW x \in Int PROVE Masked(x + EVDEV_BUFFER_SIZE) = Masked(x)
<1> DEFINE n == EVDEV_BUFFER_SIZE
           a == (x + n) \div n
           b == x \div n
<1>1. n \in Nat \ {0} /\ a \in Int /\ b \in Int /\ b + 1 \in Int
    BY BufferAssumption
<1>2. x = n * b + Masked(x) /\ Masked(x) \in 0 .. n - 1
    BY <1>1 DEF Masked
<1>3. x + n = n * a + Masked(x + n) /\ Masked(x + n) \in 0 .. n - 1
    BY <1>1 DEF Masked
<1>4. n * (b + 1) = n * b + n
    BY <1>1
<1> HIDE DEF n, a, b
<1>5. n * a + Masked(x + n) = n * (b + 1) + Masked(x)
    BY <1>1, <1>2, <1>3, <1>4
<1>6. Masked(x + n) = Masked(x)
    BY <1>1, <1>2, <1>3, <1>5, RemainderUnique
<1> QED
    BY <1>6 DEF n

-----------------------------------------------------------------------------
(***************************************************************************)
(* One ring.  Newest is RingHoldsNewest of it.  That the events received   *)
(* and not taken are never fewer than those in the buffer is what makes a  *)
(* multiple of the buffer's size, lost, a number of whole buffers.         *)
(***************************************************************************)
RingRecords ==
    [head : Slots, tail : Slots, received : Nat, taken : Nat, buffer : [Slots -> Nat]]

Unread(r) == Masked(r.head - r.tail)

Newest(r) ==
    /\ \A i \in 0 .. Unread(r) - 1 :
          r.buffer[Masked(r.tail + i)] = r.received - Unread(r) + 1 + i
    /\ Masked(r.received - r.taken - Unread(r)) = 0

RingOK(r) == r \in RingRecords /\ Newest(r) /\ r.received - r.taken >= Unread(r)

\* What evdev_fetch_next_event makes of a ring.
Fetched(r) == [r EXCEPT !.tail = Masked(@ + 1), !.taken = r.buffer[r.tail]]

LEMMA UnreadValue ==
    ASSUME NEW r \in RingRecords
    PROVE  /\ Unread(r) \in Slots
           /\ Unread(r) = IF r.head >= r.tail THEN r.head - r.tail
                          ELSE r.head - r.tail + EVDEV_BUFFER_SIZE
<1>1. r.head \in Slots /\ r.tail \in Slots
    BY DEF RingRecords
<1>2. Unread(r) = IF r.head >= r.tail THEN r.head - r.tail
                  ELSE r.head - r.tail + EVDEV_BUFFER_SIZE
    BY <1>1, MaskedDifference DEF Unread
<1> QED
    BY <1>1, <1>2, BufferAssumption DEF Slots

LEMMA MaskedNext ==
    ASSUME NEW x \in Slots
    PROVE  /\ Masked(x + 1) \in Slots
           /\ Masked(x + 1) = IF x + 1 = EVDEV_BUFFER_SIZE THEN 0 ELSE x + 1
<1>1. CASE x + 1 \in Slots
    BY <1>1, MaskedSlot, BufferAssumption DEF Slots
<1>2. CASE x + 1 = EVDEV_BUFFER_SIZE
    BY <1>2, MaskedOver, BufferAssumption DEF Slots
<1> QED
    BY <1>1, <1>2, BufferAssumption DEF Slots

LEMMA MaskedSum ==
    ASSUME NEW x \in Slots, NEW i \in Slots
    PROVE  /\ Masked(x + i) \in Slots
           /\ Masked(x + i) = IF x + i < EVDEV_BUFFER_SIZE THEN x + i ELSE x + i - EVDEV_BUFFER_SIZE
<1>1. CASE x + i \in Slots
    BY <1>1, MaskedSlot, BufferAssumption DEF Slots
<1>2. CASE x + i \in EVDEV_BUFFER_SIZE .. 2 * EVDEV_BUFFER_SIZE - 1
    BY <1>2, MaskedOver, BufferAssumption DEF Slots
<1> QED
    BY <1>1, <1>2, BufferAssumption DEF Slots

LEMMA EmptyRingOK == RingOK(EmptyRing) /\ EmptyRing.head = EmptyRing.tail
<1>1. EmptyRing \in RingRecords
    BY BufferAssumption DEF EmptyRing, RingRecords, Slots
<1>2. Unread(EmptyRing) = 0
    BY <1>1, UnreadValue DEF EmptyRing
<1>3. Masked(0) = 0
    BY MaskedSlot, BufferAssumption DEF Slots
<1>4. Newest(EmptyRing)
    BY <1>2, <1>3 DEF Newest, EmptyRing
<1> QED
    BY <1>1, <1>2, <1>4 DEF RingOK, EmptyRing

(***************************************************************************)
(* evdev_pass_event adds the newest event behind the others; with the last *)
(* free slot it makes the buffer look empty, a whole buffer behind.        *)
(***************************************************************************)
LEMMA PassEventOK ==
    ASSUME NEW r, RingOK(r)
    PROVE  RingOK(evdev_pass_event(r))
<1> DEFINE e == evdev_pass_event(r)
           N == EVDEV_BUFFER_SIZE
<1>1. r \in RingRecords
    BY DEF RingOK
<1>2. /\ e.head = Masked(r.head + 1) /\ e.tail = r.tail
      /\ e.received = r.received + 1 /\ e.taken = r.taken
      /\ e.buffer = [r.buffer EXCEPT ![r.head] = r.received + 1]
    BY <1>1 DEF evdev_pass_event, RingRecords
<1>3. e \in RingRecords
  <2>1. Masked(r.head + 1) \in Slots /\ r.received + 1 \in Nat
    BY <1>1, MaskedNext DEF RingRecords
  <2>2. [r.buffer EXCEPT ![r.head] = r.received + 1] \in [Slots -> Nat]
    BY <1>1, <2>1 DEF RingRecords
  <2> QED
    BY <1>1, <2>1, <2>2 DEF evdev_pass_event, RingRecords
<1> HIDE DEF e
<1>4. /\ Unread(r) \in Slots /\ Unread(e) \in Slots
      /\ Unread(e) = IF Unread(r) + 1 = N THEN 0 ELSE Unread(r) + 1
    <2>1. r.head \in Slots /\ r.tail \in Slots
        BY <1>1 DEF RingRecords
    <2> QED
        BY <1>1, <1>2, <1>3, <2>1, UnreadValue, MaskedNext, BufferAssumption DEF Slots
<1>5. r.received \in Nat /\ r.taken \in Nat /\ r.head \in Slots /\ r.tail \in Slots
    BY <1>1 DEF RingRecords
<1>6. e.received - e.taken >= Unread(e)
    BY <1>2, <1>4, <1>5, BufferAssumption DEF RingOK, Slots
<1>7. Masked(e.received - e.taken - Unread(e)) = 0
  <2> DEFINE x == r.received - r.taken - Unread(r)
  <2>1. x \in Int /\ Masked(x) = 0
    BY <1>4, <1>5 DEF RingOK, Newest, Slots
  <2>2. \/ e.received - e.taken - Unread(e) = x
        \/ e.received - e.taken - Unread(e) = x + N
    BY <1>2, <1>4, <1>5, BufferAssumption DEF Slots
  <2> QED
    BY <2>1, <2>2, MaskedLap
<1>8. ASSUME NEW i \in 0 .. Unread(e) - 1
      PROVE  e.buffer[Masked(e.tail + i)] = e.received - Unread(e) + 1 + i
  <2>1. Unread(e) = Unread(r) + 1 /\ i \in Slots /\ i <= Unread(r)
    BY <1>4, <1>8, BufferAssumption DEF Slots
  <2>2. /\ Masked(r.tail + i) \in Slots
        /\ Masked(r.tail + i) = IF r.tail + i < N THEN r.tail + i ELSE r.tail + i - N
    BY <1>5, <2>1, MaskedSum
  <2>3. Unread(r) = IF r.head >= r.tail THEN r.head - r.tail ELSE r.head - r.tail + N
    BY <1>1, UnreadValue
  <2>4. Masked(r.tail + i) = r.head <=> i = Unread(r)
    BY <1>5, <2>1, <2>2, <2>3, BufferAssumption DEF Slots
  <2>5. r.buffer \in [Slots -> Nat]
    BY <1>1 DEF RingRecords
  <2>6. CASE i = Unread(r)
    <3>1. e.buffer[Masked(e.tail + i)] = r.received + 1
        BY <1>2, <1>5, <2>4, <2>5, <2>6
    <3>2. e.received - Unread(e) + 1 + i = r.received + 1
        BY <1>2, <1>4, <1>5, <2>1, <2>6, BufferAssumption DEF Slots
    <3> QED
        BY <3>1, <3>2
  <2>7. CASE i < Unread(r)
    <3>1. r.buffer[Masked(r.tail + i)] = r.received - Unread(r) + 1 + i
        BY <1>4, <2>1, <2>7 DEF RingOK, Newest, Slots
    <3>2. e.buffer[Masked(e.tail + i)] = r.buffer[Masked(r.tail + i)]
        <4>1. Masked(r.tail + i) \in Slots /\ Masked(r.tail + i) # r.head
            BY <1>4, <2>1, <2>2, <2>4, <2>7 DEF Slots
        <4> QED
            BY <1>2, <2>5, <4>1
    <3>3. e.received - Unread(e) + 1 + i = r.received - Unread(r) + 1 + i
        BY <1>2, <1>4, <1>5, <2>1, BufferAssumption DEF Slots
    <3> QED
        BY <3>1, <3>2, <3>3
  <2> QED
    BY <1>4, <2>1, <2>6, <2>7 DEF Slots
<1>9. Newest(e)
    BY <1>7, <1>8 DEF Newest
<1> QED
    BY <1>3, <1>6, <1>9 DEF RingOK, e

(***************************************************************************)
(* evdev_fetch_next_event takes the oldest event in the buffer; then       *)
(* exactly the events that are left in it have not been taken.             *)
(***************************************************************************)
LEMMA FetchOK ==
    ASSUME NEW r, RingOK(r), r.head # r.tail
    PROVE  /\ RingOK(Fetched(r))
           /\ Fetched(r).received - Fetched(r).taken = Unread(Fetched(r))
           /\ Fetched(r).head # Fetched(r).tail => Unread(Fetched(r)) > 0
<1> DEFINE f == Fetched(r)
           N == EVDEV_BUFFER_SIZE
<1>1. r \in RingRecords
    BY DEF RingOK
<1>2. /\ f.head = r.head /\ f.tail = Masked(r.tail + 1)
      /\ f.received = r.received /\ f.taken = r.buffer[r.tail] /\ f.buffer = r.buffer
    BY <1>1 DEF Fetched, RingRecords
<1>3. f \in RingRecords
    BY <1>1, MaskedNext DEF Fetched, RingRecords
<1> HIDE DEF f
<1>4. r.received \in Nat /\ r.taken \in Nat /\ r.head \in Slots /\ r.tail \in Slots
    BY <1>1 DEF RingRecords
<1>5. /\ Unread(r) \in Slots /\ Unread(f) \in Slots /\ Unread(r) > 0
      /\ Unread(f) = Unread(r) - 1
    BY <1>1, <1>2, <1>3, <1>4, UnreadValue, MaskedNext, BufferAssumption DEF Slots
<1>6. f.taken = r.received - Unread(r) + 1
  <2>1. 0 \in 0 .. Unread(r) - 1
    BY <1>5 DEF Slots
  <2>2. Masked(r.tail + 0) = r.tail
    BY <1>4, MaskedSlot DEF Slots
  <2>3. r.buffer[Masked(r.tail + 0)] = r.received - Unread(r) + 1 + 0
    BY <2>1 DEF RingOK, Newest
  <2> QED
    BY <1>2, <1>4, <1>5, <2>2, <2>3 DEF Slots
<1>7. f.received - f.taken = Unread(f)
    BY <1>2, <1>4, <1>5, <1>6 DEF Slots
<1>8. Masked(f.received - f.taken - Unread(f)) = 0
    BY <1>5, <1>7, MaskedSlot, BufferAssumption DEF Slots
<1>9. ASSUME NEW i \in 0 .. Unread(f) - 1
      PROVE  f.buffer[Masked(f.tail + i)] = f.received - Unread(f) + 1 + i
  <2>1. i + 1 \in 0 .. Unread(r) - 1 /\ i \in Slots /\ i + 1 \in Slots
    BY <1>5, <1>9, BufferAssumption DEF Slots
  <2>2. Masked(f.tail + i) = Masked(r.tail + (i + 1))
    <3>1. f.tail \in Slots /\ f.tail = IF r.tail + 1 = N THEN 0 ELSE r.tail + 1
        BY <1>2, <1>4, MaskedNext
    <3>2. Masked(f.tail + i) = IF f.tail + i < N THEN f.tail + i ELSE f.tail + i - N
        BY <2>1, <3>1, MaskedSum
    <3>3. Masked(r.tail + (i + 1)) = IF r.tail + (i + 1) < N THEN r.tail + (i + 1)
                                     ELSE r.tail + (i + 1) - N
        BY <1>4, <2>1, MaskedSum
    <3> QED
        BY <1>4, <2>1, <3>1, <3>2, <3>3, BufferAssumption DEF Slots
  <2>3. r.buffer[Masked(r.tail + (i + 1))] = r.received - Unread(r) + 1 + (i + 1)
    BY <2>1 DEF RingOK, Newest
  <2> QED
    BY <1>2, <1>4, <1>5, <2>1, <2>2, <2>3 DEF Slots
<1>10. f.head # f.tail => Unread(f) > 0
    BY <1>2, <1>3, <1>4, UnreadValue, MaskedNext, BufferAssumption DEF Slots
<1>11. Newest(f)
    BY <1>8, <1>9 DEF Newest
<1>12. RingOK(f)
    BY <1>3, <1>5, <1>7, <1>11 DEF RingOK, Slots
<1> QED
    BY <1>7, <1>10, <1>12 DEF f

-----------------------------------------------------------------------------
(***************************************************************************)
(* The events of all files.  A wake lock that was taken and not given back *)
(* means that some event has not been taken.                               *)
(***************************************************************************)
LockStates == {"none", "off", "on", "expired"}

EventsInv ==
    /\ ring \in [Clients -> RingRecords]
    /\ wake_lock \in [Clients -> LockStates]
    /\ \A c \in Clients : RingOK(ring[c])
    /\ \A c \in evdev.client_list :
          /\ HasEvent(c) => wake_lock[c] \in {"on", "expired"}
          /\ wake_lock[c] \in {"on", "expired"} => ring[c].received > ring[c].taken

(***************************************************************************)
(* Steps that touch no ring and no lock and put no file on the list.       *)
(***************************************************************************)
LEMMA EventsUnchanged ==
    ASSUME EventsInv, UNCHANGED <<ring, wake_lock>>,
           evdev'.client_list \subseteq evdev.client_list
    PROVE  EventsInv'
BY DEF EventsInv, HasEvent

(***************************************************************************)
(* evdev_event, also when evdev_write calls it.                            *)
(***************************************************************************)
LEMMA EventEvents == ASSUME ListInv, EventsInv, evdev_event PROVE EventsInv'
<1>1. /\ ring' = [c \in Clients |-> IF c \in Receivers THEN evdev_pass_event(ring[c]) ELSE ring[c]]
      /\ wake_lock' = [c \in Clients |-> IF c \in Receivers THEN "on" ELSE wake_lock[c]]
      /\ evdev' = evdev
    BY DEF evdev_event, deviceVars
<1>2. evdev.client_list \subseteq Clients
    BY DEF ListInv, EvdevRecords
<1>3. \A c \in Clients : RingOK(ring'[c])
    BY <1>1, PassEventOK DEF EventsInv
<1>4. ring' \in [Clients -> RingRecords]
    BY <1>1, <1>3 DEF RingOK
<1>5. wake_lock' \in [Clients -> LockStates]
    BY <1>1 DEF EventsInv, LockStates
<1>6. ASSUME NEW c \in evdev.client_list
      PROVE  /\ HasEvent(c)' => wake_lock'[c] \in {"on", "expired"}
             /\ wake_lock'[c] \in {"on", "expired"} => ring'[c].received > ring'[c].taken
  <2>1. CASE c \in Receivers
    <3>1. wake_lock'[c] = "on" /\ ring'[c] = evdev_pass_event(ring[c])
        BY <1>1, <1>2, <1>6, <2>1
    <3>2. ring[c] \in RingRecords /\ Unread(ring[c]) \in Slots
          /\ ring[c].received - ring[c].taken >= Unread(ring[c])
        BY <1>2, <1>6, UnreadValue DEF EventsInv, RingOK
    <3>3. ring'[c].received = ring[c].received + 1 /\ ring'[c].taken = ring[c].taken
        BY <3>1, <3>2 DEF evdev_pass_event, RingRecords
    <3>4. ring[c].received \in Nat /\ ring[c].taken \in Nat
        BY <3>2 DEF RingRecords
    <3>5. ring'[c].received > ring'[c].taken
        BY <3>2, <3>3, <3>4, BufferAssumption DEF Slots
    <3> QED
        BY <3>1, <3>5
  <2>2. CASE c \notin Receivers
    <3>1. wake_lock'[c] = wake_lock[c] /\ ring'[c] = ring[c]
        BY <1>1, <1>2, <1>6, <2>2
    <3> QED
        BY <1>6, <3>1 DEF EventsInv, HasEvent
  <2> QED
    BY <2>1, <2>2
<1> QED
    BY <1>1, <1>3, <1>4, <1>5, <1>6 DEF EventsInv

(***************************************************************************)
(* A fetch that leaves the buffer empty gives the lock back; one that does *)
(* not leaves events that have not been taken.                             *)
(***************************************************************************)
LEMMA FetchEvents ==
    ASSUME ListInv, EventsInv, NEW c \in Clients, evdev_fetch_next_event(c)
    PROVE  EventsInv'
<1> DEFINE f == Fetched(ring[c])
<1>1. RingOK(ring[c]) /\ ring[c] \in RingRecords /\ ring[c].head # ring[c].tail
    BY DEF EventsInv, RingOK, evdev_fetch_next_event, HasEvent
<1>2. ring' = [ring EXCEPT ![c] = f] /\ evdev' = evdev
    BY DEF evdev_fetch_next_event, EventsInv, Fetched, RingRecords, deviceVars
<1>3. ring'[c] = f
    BY <1>2 DEF EventsInv
<1>4. RingOK(f) /\ f.received - f.taken = Unread(f) /\ (f.head # f.tail => Unread(f) > 0)
    BY <1>1, FetchOK
<1>5. wake_lock' = IF f.head = f.tail THEN [wake_lock EXCEPT ![c] = "off"] ELSE wake_lock
    BY <1>3 DEF evdev_fetch_next_event, Unlocks
<1> HIDE DEF f
<1>6. \A d \in Clients : RingOK(ring'[d])
    BY <1>2, <1>4 DEF EventsInv
<1>7. ring' \in [Clients -> RingRecords] /\ wake_lock' \in [Clients -> LockStates]
    BY <1>2, <1>4, <1>5 DEF EventsInv, RingOK, LockStates
<1>8. ASSUME NEW d \in evdev.client_list
      PROVE  /\ HasEvent(d)' => wake_lock'[d] \in {"on", "expired"}
             /\ wake_lock'[d] \in {"on", "expired"} => ring'[d].received > ring'[d].taken
  <2>1. d \in Clients
    BY <1>8 DEF ListInv, EvdevRecords
  <2>2. CASE d = c /\ f.head = f.tail
    <3>1. wake_lock'[d] = "off"
        BY <1>5, <2>2 DEF EventsInv
    <3> QED
        BY <1>3, <2>2, <3>1 DEF HasEvent
  <2>3. CASE d = c /\ f.head # f.tail
    <3>1. wake_lock'[d] = wake_lock[d] /\ HasEvent(d)
        BY <1>1, <1>5, <2>3 DEF HasEvent
    <3>2. f.received \in Nat /\ f.taken \in Nat
        BY <1>4 DEF RingOK, RingRecords
    <3>3. f.received > f.taken
        BY <1>4, <2>3, <3>2
    <3> QED
        BY <1>3, <1>8, <2>3, <3>1, <3>3 DEF EventsInv
  <2>4. CASE d # c
    <3>1. wake_lock'[d] = wake_lock[d] /\ ring'[d] = ring[d]
        BY <1>2, <1>5, <2>1, <2>4 DEF EventsInv
    <3> QED
        BY <1>8, <3>1 DEF EventsInv, HasEvent
  <2> QED
    BY <2>2, <2>3, <2>4
<1> QED
    BY <1>2, <1>6, <1>7, <1>8 DEF EventsInv

(***************************************************************************)
(* A file begins with an empty ring and a lock that is not held, and its   *)
(* lock is destroyed only when it is off the list.                         *)
(***************************************************************************)
LEMMA AttachEvents ==
    ASSUME ListInv, EventsInv, NEW c \in Clients, evdev_attach_client(c)
    PROVE  EventsInv'
<1>1. /\ ring' = [ring EXCEPT ![c] = EmptyRing] /\ wake_lock' = [wake_lock EXCEPT ![c] = "off"]
      /\ evdev'.client_list = evdev.client_list \cup {c}
    BY DEF evdev_attach_client, ListInv, EvdevRecords
<1>2. RingOK(EmptyRing) /\ EmptyRing \in RingRecords /\ EmptyRing.head = EmptyRing.tail
    BY EmptyRingOK DEF RingOK
<1>3. ring'[c] = EmptyRing /\ wake_lock'[c] = "off"
    BY <1>1 DEF EventsInv
<1>4. \A d \in Clients \ {c} : ring'[d] = ring[d] /\ wake_lock'[d] = wake_lock[d]
    BY <1>1 DEF EventsInv
<1>5. ring' \in [Clients -> RingRecords] /\ wake_lock' \in [Clients -> LockStates]
    BY <1>1, <1>2 DEF EventsInv, LockStates
<1>6. \A d \in Clients : RingOK(ring'[d])
    BY <1>2, <1>3, <1>4 DEF EventsInv
<1>7. ASSUME NEW d \in evdev'.client_list
      PROVE  /\ HasEvent(d)' => wake_lock'[d] \in {"on", "expired"}
             /\ wake_lock'[d] \in {"on", "expired"} => ring'[d].received > ring'[d].taken
  <2>1. CASE d = c
    BY <1>2, <1>3, <2>1 DEF HasEvent
  <2>2. CASE d # c
    <3>1. d \in evdev.client_list /\ d \in Clients
        BY <1>1, <1>7, <2>2 DEF ListInv, EvdevRecords
    <3> QED
        BY <1>4, <2>2, <3>1 DEF EventsInv, HasEvent
  <2> QED
    BY <2>1, <2>2
<1> QED
    BY <1>5, <1>6, <1>7 DEF EventsInv

LEMMA FreeEvents ==
    ASSUME ListInv, EventsInv, NEW c \in Clients, release_frees(c)
    PROVE  EventsInv'
<1>1. /\ wake_lock' = [wake_lock EXCEPT ![c] = "none"] /\ ring' = ring /\ evdev' = evdev
      /\ file[c] = "detached"
    BY DEF release_frees, Goes, deviceVars
<1>2. c \notin evdev.client_list
    BY <1>1 DEF ListInv, Listed
<1>3. wake_lock' \in [Clients -> LockStates]
    BY <1>1 DEF EventsInv, LockStates
<1>4. \A d \in evdev.client_list : wake_lock'[d] = wake_lock[d]
    BY <1>1, <1>2 DEF EventsInv, ListInv, EvdevRecords
<1> QED
    BY <1>1, <1>3, <1>4 DEF EventsInv, HasEvent

LEMMA ExpireEvents ==
    ASSUME ListInv, EventsInv, NEW c \in Clients, LockExpires(c)
    PROVE  EventsInv'
<1>1. /\ wake_lock' = [wake_lock EXCEPT ![c] = "expired"] /\ ring' = ring /\ evdev' = evdev
      /\ wake_lock[c] = "on"
    BY DEF LockExpires, deviceVars
<1>2. wake_lock' \in [Clients -> LockStates]
    BY <1>1 DEF EventsInv, LockStates
<1>3. \A d \in Clients : wake_lock'[d] \in {"on", "expired"} <=> wake_lock[d] \in {"on", "expired"}
    BY <1>1 DEF EventsInv
<1>4. evdev.client_list \subseteq Clients
    BY DEF ListInv, EvdevRecords
<1> QED
    BY <1>1, <1>2, <1>3, <1>4 DEF EventsInv, HasEvent

(***************************************************************************)
(* Every step preserves the invariant of the events.                       *)
(***************************************************************************)
LEMMA EventsStep == ListInv /\ EventsInv /\ [Next]_vars => EventsInv'
<1> SUFFICES ASSUME ListInv, EventsInv, [Next]_vars PROVE EventsInv'
    OBVIOUS
<1>1. CASE evdev_event
    BY <1>1, EventEvents
<1>2. CASE evdev_mark_dead
    BY <1>2, EventsUnchanged DEF evdev_mark_dead, clientVars, ListInv, EvdevRecords
<1>3. CASE RemovalStep
    BY <1>3, EventsUnchanged
    DEF RemovalStep, evdev_hangup, evdev_remove_chrdev, cleanup_closes, disconnect_puts,
        clientVars, ListInv, EvdevRecords
<1>4. ASSUME NEW c \in Clients, OpenStep(c) PROVE EventsInv'
  <2>1. CASE evdev_attach_client(c)
    BY <2>1, AttachEvents
  <2>2. CASE ~evdev_attach_client(c)
    <3>1. UNCHANGED <<ring, wake_lock>> /\ evdev'.client_list \subseteq evdev.client_list
        BY <1>4, <2>2
        DEF OpenStep, open_finds, open_out_of_memory, evdev_open_device, open_device_returns,
            open_device_refused, err_free_client, file_puts, get_device, put_device, deviceVars,
            ListInv, EvdevRecords
    <3> QED
        BY <3>1, EventsUnchanged
  <2> QED
    BY <2>1, <2>2
<1>5. ASSUME NEW c \in Clients, ReleaseStep(c) PROVE EventsInv'
  <2>1. CASE release_frees(c)
    BY <2>1, FreeEvents
  <2>2. CASE ~release_frees(c)
    <3>1. UNCHANGED <<ring, wake_lock>> /\ evdev'.client_list \subseteq evdev.client_list
        BY <1>5, <2>2
        DEF ReleaseStep, release_ungrabs, evdev_detach_client, evdev_close_device, GivesUpGrab,
            deviceVars, ListInv, EvdevRecords
    <3> QED
        BY <3>1, EventsUnchanged
  <2> QED
    BY <2>1, <2>2
<1>6. ASSUME NEW c \in Clients, ReadStep(c) PROVE EventsInv'
  <2>1. CASE evdev_fetch_next_event(c)
    BY <2>1, FetchEvents
  <2>2. CASE ~evdev_fetch_next_event(c)
    BY <1>6, <2>2, EventsUnchanged
    DEF ReadStep, ReadProceeds, ReaderGoes, read_begins, read_waits, read_interrupted,
        read_returns, deviceVars
  <2> QED
    BY <2>1, <2>2
<1>7. ASSUME NEW c \in Clients, evdev_write(c) PROVE EventsInv'
    BY <1>7, EventEvents DEF evdev_write
<1>8. ASSUME NEW c \in Clients, evdev_grab(c) PROVE EventsInv'
    BY <1>8, EventsUnchanged DEF evdev_grab, clientVars, ListInv, EvdevRecords
<1>9. ASSUME NEW c \in Clients, evdev_ungrab(c) PROVE EventsInv'
    BY <1>9, EventsUnchanged DEF evdev_ungrab, GivesUpGrab, clientVars, ListInv, EvdevRecords
<1>10. ASSUME NEW c \in Clients, LockExpires(c) PROVE EventsInv'
    BY <1>10, ExpireEvents
<1>11. CASE UNCHANGED vars
    BY <1>11, EventsUnchanged DEF vars, deviceVars, clientVars
<1> QED
    BY <1>1, <1>2, <1>3, <1>4, <1>5, <1>6, <1>7, <1>8, <1>9, <1>10, <1>11 DEF Next

-----------------------------------------------------------------------------
(***************************************************************************)
(* The counters of the device: references held by the files and by the     *)
(* removal, files that count as open, and users of the input device.  A    *)
(* task inside input_open_device holds the mutex, so it is the only file   *)
(* that counts, of a device that exists.                                   *)
(***************************************************************************)
CountedSteps == {"opening", "open", "ungrabbed", "detached", "freed"}

HandleRecords == [open : Int, users : Int, grabs : BOOLEAN]

One(condition) == IF condition THEN 1 ELSE 0

CountInv ==
    /\ handle \in HandleRecords
    /\ evdev.refs = Cardinality(Referring) + One(evdev.removal # "gone")
    /\ evdev.open \in Nat
    /\ evdev.exist <=> evdev.removal = "connected"
    /\ evdev.exist => evdev.open = Cardinality(Counted)
    /\ handle.users = One(evdev.open > 0 /\ evdev.removal \notin {"closed", "gone"})
    /\ \A c \in Clients : file[c] = "opening" => evdev.exist /\ evdev.open = 1

LEMMA HandleChange ==
    ASSUME handle \in HandleRecords, NEW o \in Int, NEW u \in Int
    PROVE  /\ handle.open \in Int /\ handle.users \in Int
           /\ [handle EXCEPT !.open = o, !.users = u] \in HandleRecords
           /\ [handle EXCEPT !.open = o, !.users = u].users = u
           /\ [open |-> o, users |-> u, grabs |-> FALSE] \in HandleRecords
<1>1. [handle EXCEPT !.open = o] \in HandleRecords
    BY DEF HandleRecords
<1> QED
    BY <1>1 DEF HandleRecords

(***************************************************************************)
(* What the step of one file does to the two counts.                       *)
(***************************************************************************)
LEMMA FileCounts ==
    ASSUME ListInv, NEW c \in Clients, NEW to \in FileSteps, file' = [file EXCEPT ![c] = to]
    PROVE  /\ Cardinality(Counted) \in Nat /\ Cardinality(Referring) \in Nat
           /\ file[c] \notin CountedSteps /\ to \in CountedSteps
                 => Cardinality(Counted)' = Cardinality(Counted) + 1
           /\ file[c] \in CountedSteps /\ to \notin CountedSteps
                 => Cardinality(Counted)' = Cardinality(Counted) - 1
           /\ (file[c] \in CountedSteps <=> to \in CountedSteps) => Counted' = Counted
           /\ file[c] = "closed" /\ to # "closed"
                 => Cardinality(Referring)' = Cardinality(Referring) + 1
           /\ file[c] # "closed" /\ to = "closed"
                 => Cardinality(Referring)' = Cardinality(Referring) - 1
           /\ (file[c] = "closed" <=> to = "closed") => Referring' = Referring
           /\ file[c] \in CountedSteps => Cardinality(Counted) > 0
<1>1. IsFiniteSet(Counted) /\ IsFiniteSet(Referring)
    BY FS_Subset, ClientsAssumption DEF Counted, Referring
<1>2. Cardinality(Counted) \in Nat /\ Cardinality(Referring) \in Nat
    BY <1>1, FS_CardinalityType
<1>3. \A d \in Clients : file'[d] = IF d = c THEN to ELSE file[d]
    BY DEF ListInv
<1>4. /\ c \in Counted <=> file[c] \in CountedSteps
      /\ c \in Referring <=> file[c] # "closed"
    BY DEF Counted, Referring, CountedSteps
<1>5. /\ Counted' = IF to \in CountedSteps THEN Counted \cup {c} ELSE Counted \ {c}
      /\ Referring' = IF to # "closed" THEN Referring \cup {c} ELSE Referring \ {c}
    BY <1>3 DEF Counted, Referring, CountedSteps
<1>6. /\ Cardinality(Counted \cup {c}) = IF c \in Counted THEN Cardinality(Counted)
                                         ELSE Cardinality(Counted) + 1
      /\ Cardinality(Referring \cup {c}) = IF c \in Referring THEN Cardinality(Referring)
                                           ELSE Cardinality(Referring) + 1
    BY <1>1, FS_AddElement
<1>7. /\ Cardinality(Counted \ {c}) = IF c \in Counted THEN Cardinality(Counted) - 1
                                      ELSE Cardinality(Counted)
      /\ Cardinality(Referring \ {c}) = IF c \in Referring THEN Cardinality(Referring) - 1
                                        ELSE Cardinality(Referring)
    BY <1>1, FS_RemoveElement
<1>8. c \in Counted => Cardinality(Counted) > 0
    BY <1>1, <1>2, FS_EmptySet
<1> QED
    BY <1>2, <1>4, <1>5, <1>6, <1>7, <1>8

(***************************************************************************)
(* A file moves between two steps that count the same, and the device is   *)
(* left as it is but for its list and its grab.                            *)
(***************************************************************************)
LEMMA FileCountsSame ==
    ASSUME ListInv, CountInv, NEW c \in Clients, NEW to \in FileSteps,
           file' = [file EXCEPT ![c] = to],
           file[c] \in CountedSteps <=> to \in CountedSteps,
           file[c] = "closed" <=> to = "closed", to # "opening",
           evdev'.refs = evdev.refs, evdev'.open = evdev.open,
           evdev'.exist = evdev.exist, evdev'.removal = evdev.removal,
           handle' \in HandleRecords, handle'.users = handle.users
    PROVE  CountInv'
<1>1. Counted' = Counted /\ Referring' = Referring
    BY FileCounts
<1>2. \A d \in Clients : file'[d] = "opening" => file[d] = "opening"
    BY DEF ListInv
<1> QED
    BY <1>1, <1>2 DEF CountInv

LEMMA OpenCounts ==
    ASSUME ListInv, CountInv, NEW c \in Clients, OpenStep(c) PROVE CountInv'
<1> USE DEF One
<1>1. CASE open_finds(c)
  <2>1. file[c] = "closed" /\ file' = [file EXCEPT ![c] = "found"] /\ handle' = handle
    BY <1>1 DEF open_finds, Goes
  <2>2. /\ evdev'.refs = evdev.refs + 1 /\ evdev'.open = evdev.open
        /\ evdev'.exist = evdev.exist /\ evdev'.removal = evdev.removal
    BY <1>1 DEF open_finds, get_device, ListInv, EvdevRecords
  <2>3. /\ Cardinality(Counted)' = Cardinality(Counted) /\ Cardinality(Referring) \in Nat
        /\ Cardinality(Referring)' = Cardinality(Referring) + 1
    BY <2>1, FileCounts DEF FileSteps, CountedSteps
  <2>4. \A d \in Clients : file'[d] = "opening" => file[d] = "opening"
    BY <2>1 DEF ListInv
  <2> QED
    BY <2>1, <2>2, <2>3, <2>4 DEF CountInv
<1>2. CASE evdev_attach_client(c) \/ open_out_of_memory(c) \/ open_device_refused(c)
           \/ err_free_client(c)
  <2>1. /\ file[c] \in {"found", "attached", "failed"} /\ handle' = handle
        /\ \E to \in {"attached", "put", "failed"} : file' = [file EXCEPT ![c] = to]
    BY <1>2 DEF evdev_attach_client, open_out_of_memory, open_device_refused, err_free_client,
                Goes, deviceVars
  <2>2. /\ evdev'.refs = evdev.refs /\ evdev'.open = evdev.open
        /\ evdev'.exist = evdev.exist /\ evdev'.removal = evdev.removal
    BY <1>2 DEF evdev_attach_client, open_out_of_memory, open_device_refused, err_free_client,
                deviceVars, ListInv, EvdevRecords
  <2>3. handle' \in HandleRecords /\ handle'.users = handle.users
    BY <2>1 DEF CountInv
  <2> QED
    BY <2>1, <2>2, <2>3, FileCountsSame DEF FileSteps, CountedSteps
<1>3. CASE evdev_open_device(c)
  <2>1. /\ MutexFree /\ evdev.exist /\ file[c] = "attached"
        /\ \/ evdev.open > 0 /\ file' = [file EXCEPT ![c] = "open"] /\ handle' = handle
           \/ /\ evdev.open = 0 /\ file' = [file EXCEPT ![c] = "opening"]
              /\ handle' = [handle EXCEPT !.open = @ + 1, !.users = @ + 1]
    BY <1>3 DEF evdev_open_device, Goes
  <2>2. /\ evdev'.refs = evdev.refs /\ evdev'.open = evdev.open + 1
        /\ evdev'.exist = evdev.exist /\ evdev'.removal = evdev.removal
    BY <1>3 DEF evdev_open_device, ListInv, EvdevRecords
  <2>3. /\ Cardinality(Counted)' = Cardinality(Counted) + 1 /\ Cardinality(Counted) \in Nat
        /\ Cardinality(Referring)' = Cardinality(Referring)
    <3>1. CASE file' = [file EXCEPT ![c] = "open"]
        BY <2>1, <3>1, FileCounts DEF FileSteps, CountedSteps
    <3>2. CASE file' = [file EXCEPT ![c] = "opening"]
        BY <2>1, <3>2, FileCounts DEF FileSteps, CountedSteps
    <3> QED
        BY <2>1, <3>1, <3>2
  <2>4. \A d \in Clients : file'[d] = "opening" => d = c /\ evdev.open = 0
    BY <2>1 DEF MutexFree, ListInv
  <2>5. /\ handle' \in HandleRecords
        /\ handle'.users = IF evdev.open = 0 THEN handle.users + 1 ELSE handle.users
    <3>1. handle \in HandleRecords /\ handle.open + 1 \in Int /\ handle.users + 1 \in Int
        BY DEF CountInv, HandleRecords
    <3>2. CASE evdev.open = 0
      <4>1. handle' = [handle EXCEPT !.open = handle.open + 1, !.users = handle.users + 1]
        BY <2>1, <3>2
      <4> QED
        BY <3>1, <3>2, <4>1, HandleChange
    <3>3. CASE evdev.open # 0
        BY <2>1, <3>1, <3>3
    <3> QED
        BY <3>2, <3>3
  <2> QED
    BY <2>1, <2>2, <2>3, <2>4, <2>5 DEF CountInv
<1>4. CASE open_device_returns(c)
  <2>1. file[c] = "opening" /\ evdev.exist /\ evdev.open = 1 /\ evdev.removal = "connected"
    BY <1>4 DEF open_device_returns, Goes, CountInv
  <2>2. CASE file' = [file EXCEPT ![c] = "open"] /\ UNCHANGED deviceVars
    BY <2>1, <2>2, FileCountsSame DEF FileSteps, CountedSteps, deviceVars, CountInv
  <2>3. CASE /\ file' = [file EXCEPT ![c] = "failed"]
             /\ evdev' = [evdev EXCEPT !.open = @ - 1]
             /\ handle' = [handle EXCEPT !.open = @ - 1, !.users = @ - 1]
    <3>1. /\ evdev'.refs = evdev.refs /\ evdev'.open = evdev.open - 1
          /\ evdev'.exist = evdev.exist /\ evdev'.removal = evdev.removal
        BY <2>3 DEF ListInv, EvdevRecords
    <3>2. /\ Cardinality(Counted)' = Cardinality(Counted) - 1 /\ Cardinality(Counted) \in Nat
          /\ Cardinality(Referring)' = Cardinality(Referring)
        BY <2>1, <2>3, FileCounts DEF FileSteps, CountedSteps
    <3>3. \A d \in Clients : file'[d] # "opening"
      <4>1. ASSUME NEW d \in Clients, d # c, file[d] = "opening" PROVE FALSE
        <5>1. {c, d} \subseteq Counted
            BY <2>1, <4>1 DEF Counted
        <5>2. Cardinality({c, d}) = 2
            <6>1. IsFiniteSet({c}) /\ Cardinality({c}) = 1
                BY FS_Singleton
            <6>2. Cardinality({c} \cup {d}) = 2
                BY <4>1, <6>1, FS_AddElement
            <6>3. {c} \cup {d} = {c, d}
                OBVIOUS
            <6> QED
                BY <6>2, <6>3
        <5>3. IsFiniteSet(Counted)
            BY FS_Subset, ClientsAssumption DEF Counted
        <5>4. Cardinality({c, d}) <= Cardinality(Counted)
            BY <5>1, <5>3, FS_Subset
        <5> QED
            BY <2>1, <3>2, <5>2, <5>4 DEF CountInv
      <4> QED
        BY <2>3, <4>1 DEF ListInv
    <3>4. handle' \in HandleRecords /\ handle'.users = handle.users - 1
        <4>1. handle \in HandleRecords /\ handle.open - 1 \in Int /\ handle.users - 1 \in Int
            BY DEF CountInv, HandleRecords
        <4> QED
            BY <2>3, <4>1, HandleChange
    <3> QED
        BY <2>1, <3>1, <3>2, <3>3, <3>4 DEF CountInv
  <2> QED
    BY <1>4, <2>2, <2>3 DEF open_device_returns, Goes
<1>5. CASE file_puts(c)
  <2>1. file[c] = "put" /\ file' = [file EXCEPT ![c] = "closed"] /\ handle' = handle
    BY <1>5 DEF file_puts, Goes
  <2>2. /\ evdev'.refs = evdev.refs - 1 /\ evdev'.open = evdev.open
        /\ evdev'.exist = evdev.exist /\ evdev'.removal = evdev.removal
    BY <1>5 DEF file_puts, put_device, ListInv, EvdevRecords
  <2>3. /\ Cardinality(Counted)' = Cardinality(Counted) /\ Cardinality(Referring) \in Nat
        /\ Cardinality(Referring)' = Cardinality(Referring) - 1
    BY <2>1, FileCounts DEF FileSteps, CountedSteps
  <2>4. \A d \in Clients : file'[d] = "opening" => file[d] = "opening"
    BY <2>1 DEF ListInv
  <2> QED
    BY <2>1, <2>2, <2>3, <2>4 DEF CountInv
<1> QED
    BY <1>1, <1>2, <1>3, <1>4, <1>5 DEF OpenStep

LEMMA ReleaseCounts ==
    ASSUME ListInv, CountInv, NEW c \in Clients, ReleaseStep(c) PROVE CountInv'
<1> USE DEF One
<1>1. CASE release_ungrabs(c) \/ evdev_detach_client(c) \/ release_frees(c)
  <2>1. /\ file[c] \in {"open", "ungrabbed", "detached"}
        /\ \E to \in {"ungrabbed", "detached", "freed"} : file' = [file EXCEPT ![c] = to]
    BY <1>1 DEF release_ungrabs, evdev_detach_client, release_frees, Goes
  <2>2. /\ evdev'.refs = evdev.refs /\ evdev'.open = evdev.open
        /\ evdev'.exist = evdev.exist /\ evdev'.removal = evdev.removal
    BY <1>1 DEF release_ungrabs, evdev_detach_client, release_frees, GivesUpGrab, deviceVars,
                ListInv, EvdevRecords
  <2>3. handle' \in HandleRecords /\ handle'.users = handle.users
    BY <1>1 DEF release_ungrabs, evdev_detach_client, release_frees, GivesUpGrab, deviceVars,
                CountInv, HandleRecords
  <2> QED
    BY <2>1, <2>2, <2>3, FileCountsSame DEF FileSteps, CountedSteps
<1>2. CASE evdev_close_device(c)
  <2>1. MutexFree /\ file[c] = "freed" /\ file' = [file EXCEPT ![c] = "put"]
    BY <1>2 DEF evdev_close_device, Goes
  <2>2. /\ Cardinality(Counted)' = Cardinality(Counted) - 1 /\ Cardinality(Counted) \in Nat
        /\ Cardinality(Referring)' = Cardinality(Referring) /\ Cardinality(Counted) > 0
    BY <2>1, FileCounts DEF FileSteps, CountedSteps
  <2>3. \A d \in Clients : file'[d] # "opening"
    BY <2>1 DEF MutexFree, ListInv
  <2>4. CASE evdev.exist
    <3>1. /\ evdev'.refs = evdev.refs /\ evdev'.open = evdev.open - 1
          /\ evdev'.exist = evdev.exist /\ evdev'.removal = evdev.removal
        BY <1>2, <2>4 DEF evdev_close_device, DropsOpen, ListInv, EvdevRecords
    <3>2. /\ handle' \in HandleRecords
          /\ handle'.users = IF evdev.open = 1 THEN handle.users - 1 ELSE handle.users
        <4>1. handle \in HandleRecords /\ handle.open - 1 \in Int /\ handle.users - 1 \in Int
            BY DEF CountInv, HandleRecords
        <4>2. InputClosed \in HandleRecords /\ InputClosed.users = handle.users - 1
            BY <4>1, HandleChange DEF InputClosed
        <4> QED
            BY <1>2, <2>4, <4>1, <4>2 DEF evdev_close_device, DropsOpen
    <3> QED
        BY <2>2, <2>3, <2>4, <3>1, <3>2 DEF CountInv
  <2>5. CASE ~evdev.exist
    <3>1. UNCHANGED deviceVars
        BY <1>2, <2>5 DEF evdev_close_device, DropsOpen
    <3> QED
        BY <2>2, <2>3, <2>5, <3>1 DEF CountInv, deviceVars
  <2> QED
    BY <2>4, <2>5
<1> QED
    BY <1>1, <1>2 DEF ReleaseStep

(***************************************************************************)
(* The removal gives up its reference last, and closes the input device if *)
(* the files that are still open have not.                                 *)
(***************************************************************************)
LEMMA RemovalCounts ==
    ASSUME ListInv, CountInv, evdev_mark_dead \/ RemovalStep PROVE CountInv'
<1> USE DEF One
<1>1. file' = file /\ Counted' = Counted /\ Referring' = Referring
    BY DEF evdev_mark_dead, RemovalStep, evdev_hangup, evdev_remove_chrdev, cleanup_closes,
           disconnect_puts, clientVars, Counted, Referring
<1>2. CASE evdev_mark_dead
  <2>1. /\ evdev'.refs = evdev.refs /\ evdev'.open = evdev.open /\ ~evdev'.exist
        /\ evdev'.removal = "dead" /\ evdev.removal = "connected" /\ MutexFree
    BY <1>2 DEF evdev_mark_dead, ListInv, EvdevRecords
  <2>2. handle' \in HandleRecords /\ handle'.users = handle.users
    BY <1>2 DEF evdev_mark_dead, CountInv, HandleRecords
  <2> QED
    BY <1>1, <2>1, <2>2 DEF CountInv, MutexFree
<1>3. CASE evdev_hangup \/ evdev_remove_chrdev
  <2>1. /\ evdev'.refs = evdev.refs /\ evdev'.open = evdev.open /\ evdev'.exist = evdev.exist
        /\ evdev.removal \in {"dead", "hungup"} /\ evdev'.removal \in {"hungup", "removed"}
        /\ handle' = handle
    BY <1>3 DEF evdev_hangup, evdev_remove_chrdev, ListInv, EvdevRecords
  <2> QED
    BY <1>1, <2>1 DEF CountInv
<1>4. CASE cleanup_closes
  <2>1. /\ evdev'.refs = evdev.refs /\ evdev'.open = evdev.open /\ evdev'.exist = evdev.exist
        /\ evdev.removal = "removed" /\ evdev'.removal = "closed"
    BY <1>4 DEF cleanup_closes, ListInv, EvdevRecords
  <2>2. /\ handle' \in HandleRecords
        /\ handle'.users = IF evdev.open > 0 THEN handle.users - 1 ELSE handle.users
    BY <1>4 DEF cleanup_closes, InputClosed, CountInv, HandleRecords
  <2> QED
    BY <1>1, <2>1, <2>2 DEF CountInv
<1>5. CASE disconnect_puts
  <2>1. /\ evdev'.refs = evdev.refs - 1 /\ evdev'.open = evdev.open
        /\ evdev'.exist = evdev.exist /\ evdev.removal = "closed" /\ evdev'.removal = "gone"
        /\ handle' = handle
    BY <1>5 DEF disconnect_puts, ListInv, EvdevRecords
  <2>2. Cardinality(Referring) \in Nat
    BY FS_Subset, FS_CardinalityType, ClientsAssumption DEF Referring
  <2> QED
    BY <1>1, <2>1, <2>2 DEF CountInv
<1> QED
    BY <1>2, <1>3, <1>4, <1>5 DEF RemovalStep

(***************************************************************************)
(* Every step keeps the counters right.                                    *)
(***************************************************************************)
LEMMA CountStep == ListInv /\ CountInv /\ [Next]_vars => CountInv'
<1> SUFFICES ASSUME ListInv, CountInv, [Next]_vars PROVE CountInv'
    OBVIOUS
<1>1. CASE UNCHANGED <<deviceVars, file>>
    BY <1>1 DEF deviceVars, CountInv, Counted, Referring
<1>2. CASE evdev_mark_dead \/ RemovalStep
    BY <1>2, RemovalCounts
<1>3. ASSUME NEW c \in Clients, OpenStep(c) PROVE CountInv'
    BY <1>3, OpenCounts
<1>4. ASSUME NEW c \in Clients, ReleaseStep(c) PROVE CountInv'
    BY <1>4, ReleaseCounts
<1>5. ASSUME NEW c \in Clients, evdev_grab(c) \/ evdev_ungrab(c) PROVE CountInv'
  <2>1. /\ file' = file /\ evdev'.refs = evdev.refs /\ evdev'.open = evdev.open
        /\ evdev'.exist = evdev.exist /\ evdev'.removal = evdev.removal
    BY <1>5 DEF evdev_grab, evdev_ungrab, GivesUpGrab, clientVars, ListInv, EvdevRecords
  <2>2. handle' \in HandleRecords /\ handle'.users = handle.users
    BY <1>5 DEF evdev_grab, evdev_ungrab, GivesUpGrab, CountInv, HandleRecords
  <2> QED
    BY <2>1, <2>2 DEF CountInv, Counted, Referring
<1>6. evdev_event => UNCHANGED <<deviceVars, file>>
    BY DEF evdev_event
<1>7. \A c \in Clients : ReadStep(c) \/ evdev_write(c) \/ LockExpires(c)
                         => UNCHANGED <<deviceVars, file>>
    BY <1>6 DEF ReadStep, ReadProceeds, ReaderGoes, read_begins, read_waits, read_interrupted,
                read_returns, evdev_fetch_next_event, evdev_write, LockExpires
<1>8. UNCHANGED vars => UNCHANGED <<deviceVars, file>>
    BY DEF vars, clientVars
<1> QED
    BY <1>1, <1>2, <1>3, <1>4, <1>5, <1>6, <1>7, <1>8 DEF Next

-----------------------------------------------------------------------------
(***************************************************************************)
(* Initially the lists, the rings and the counters are right.              *)
(***************************************************************************)
LEMMA EvdevInit == Init => ListInv /\ EventsInv /\ CountInv
<1> SUFFICES ASSUME Init PROVE ListInv /\ EventsInv /\ CountInv
    OBVIOUS
<1>1. ListInv
    BY DEF Init, ListInv, FileSteps, Listed, EvdevRecords, RemovalSteps
<1>2. EventsInv
    BY EmptyRingOK DEF Init, EventsInv, LockStates, RingOK
<1>3. Counted = {} /\ Referring = {}
    BY DEF Init, Counted, Referring
<1>4. CountInv
    BY <1>3, FS_EmptySet DEF Init, CountInv, One, HandleRecords
<1> QED
    BY <1>1, <1>2, <1>4

(***************************************************************************)
(* Events go only to clients whose memory is there: the one that grabbed   *)
(* the device, and all on the list, are between their attach and their     *)
(* detach.                                                                 *)
(***************************************************************************)
THEOREM ReceiversCorrect == Spec => []ReceiversAreAlive
<1>1. ListInv => ReceiversAreAlive
    BY DEF ListInv, ReceiversAreAlive, Listed, EvdevRecords
<1> QED
    BY <1>1, EvdevInit, ListStep, PTL DEF Spec

(***************************************************************************)
(* The ring buffer hands out the newest events, in order, for any size of  *)
(* the buffer and however often evdev_pass_event has lapped the reader.    *)
(***************************************************************************)
THEOREM RingCorrect == Spec => []RingHoldsNewest
<1>1. ListInv /\ EventsInv => RingHoldsNewest
  <2> SUFFICES ASSUME ListInv, EventsInv, NEW c \in evdev.client_list PROVE Newest(ring[c])
    BY DEF RingHoldsNewest, Newest, Unread
  <2>1. c \in Clients
    BY DEF ListInv, EvdevRecords
  <2> QED
    BY <2>1 DEF EventsInv, RingOK
<1> QED
    BY <1>1, EvdevInit, ListStep, EventsStep, PTL DEF Spec

(***************************************************************************)
(* Unread events keep the device awake for the five seconds of the lock,   *)
(* and a lock over a buffer that looks empty means a whole buffer was lost.*)
(***************************************************************************)
THEOREM AwakeCorrect == Spec => []UnreadKeepsAwake
<1>1. ListInv /\ EventsInv => UnreadKeepsAwake
  <2> SUFFICES ASSUME ListInv, EventsInv, NEW c \in evdev.client_list,
                      wake_lock[c] = "on", ~HasEvent(c)
               PROVE  ring[c].received - ring[c].taken >= EVDEV_BUFFER_SIZE
    BY DEF UnreadKeepsAwake, EventsInv
  <2>1. c \in Clients
    BY DEF ListInv, EvdevRecords
  <2>2. RingOK(ring[c]) /\ ring[c] \in RingRecords /\ ring[c].received > ring[c].taken
    BY <2>1 DEF EventsInv, RingOK
  <2>3. ring[c].received \in Nat /\ ring[c].taken \in Nat /\ ring[c].head = ring[c].tail
        /\ ring[c].tail \in Slots
    BY <2>2 DEF RingRecords, HasEvent
  <2>4. Unread(ring[c]) = 0
    BY <2>2, <2>3, UnreadValue DEF Slots
  <2>5. Masked(ring[c].received - ring[c].taken) = 0
    BY <2>2, <2>3, <2>4 DEF RingOK, Newest
  <2>6. ring[c].received - ring[c].taken \notin Slots
    BY <2>2, <2>3, <2>5, MaskedSlot
  <2> QED
    BY <2>2, <2>3, <2>6, BufferAssumption DEF Slots
<1> QED
    BY <1>1, EvdevInit, ListStep, EventsStep, PTL DEF Spec

(***************************************************************************)
(* The input device is opened for the first file and closed exactly once,  *)
(* though evdev_release and evdev_disconnect race for it.                  *)
(***************************************************************************)
THEOREM InputCloseCorrect == Spec => []InputClosedOnce
<1>1. CountInv => InputClosedOnce
    BY DEF CountInv, InputClosedOnce, One
<1> QED
    BY <1>1, EvdevInit, ListStep, CountStep, PTL DEF Spec

(***************************************************************************)
(* The reference count keeps the device structure while a file or the      *)
(* removal uses it, for any number of files.                               *)
(***************************************************************************)
THEOREM DeviceCorrect == Spec => []DeviceAliveWhileUsed
<1>1. CountInv => DeviceAliveWhileUsed
  <2> SUFFICES ASSUME CountInv, Referring # {} \/ evdev.removal # "gone" PROVE evdev.refs > 0
    BY DEF DeviceAliveWhileUsed
  <2>1. IsFiniteSet(Referring)
    BY FS_Subset, ClientsAssumption DEF Referring
  <2>2. Cardinality(Referring) \in Nat /\ (Referring # {} => Cardinality(Referring) > 0)
    BY <2>1, FS_CardinalityType, FS_EmptySet
  <2> QED
    BY <2>2 DEF CountInv, One
<1> QED
    BY <1>1, EvdevInit, ListStep, CountStep, PTL DEF Spec
=============================================================================
