---------------------------- MODULE LogChannel -----------------------------
(***************************************************************************)
(* What a log of drivers/staging/android/logger.c promises its readers:    *)
(* each gets whole entries, once and in the order written.  A reader loses *)
(* entries to a flush, or to a write for which the buffer has no room      *)
(* beside what it has not read yet: then it loses its oldest entries, as   *)
(* many as it takes to give up as many cells as the new entry has.  That   *)
(* is what get_next_entry does, and may be more than "the first entry      *)
(* after the new write head" (logger.c:315) would cost it.  A new reader   *)
(* starts with what the log still holds.                                   *)
(***************************************************************************)
EXTENDS Naturals, Sequences, SequencesExt

CONSTANTS
    Readers,
    Size        \* cells in the buffer, one of which always stays free

VARIABLES
    open,       \* the open readers
    unread,     \* of each reader, and, as start, of one that would open now:
    start,      \* the numbers of the entries' first cells, counted from the first write
    written,    \* cells of all entries written so far
    writing     \* cells of the entry that is being written, or 0

vars == <<open, unread, start, written, writing>>

Init ==
    /\ open = {} /\ unread = [r \in Readers |-> <<>>]
    /\ start = <<>> /\ written = 0 /\ writing = 0

-----------------------------------------------------------------------------
\* Is there room for len cells beside the entries of s, which end where the log does?
Fits(s, len) == s = <<>> \/ written + 1 - Head(s) + len < Size

\* The n oldest entries of s go, to make room for len cells.
Gives(s, len, n) ==
    IF Fits(s, len) THEN n = 0
    ELSE \A i \in 1 .. Len(s) : i <= n <=> s[i] < Head(s) + len

Without(s, n) == SubSeq(s, n + 1, Len(s))

-----------------------------------------------------------------------------
\* A write waits for its turn and makes room for a new reader...
Begin(len) ==
    /\ writing = 0 /\ writing' = len
    /\ \E n \in 0 .. Len(start) : Gives(start, len, n) /\ start' = Without(start, n)
    /\ UNCHANGED <<open, unread, written>>

\* ...then beside each open one...
Lose(r) ==
    /\ writing # 0 /\ r \in open
    /\ \E n \in 0 .. Len(unread[r]) :
          Gives(unread[r], writing, n) /\ unread' = [unread EXCEPT ![r] = Without(@, n)]
    /\ UNCHANGED <<open, start, written, writing>>

\* ...and when there is room beside all of them the entry is there, whole...
Write ==
    /\ writing # 0 /\ Fits(start, writing) /\ \A r \in open : Fits(unread[r], writing)
    /\ written' = written + writing /\ writing' = 0
    /\ unread' = [r \in Readers |-> IF r \in open THEN Append(unread[r], written + 1)
                                                  ELSE <<>>]
    /\ start' = Append(start, written + 1)
    /\ UNCHANGED open

\* ...or not at all.
Abort ==
    /\ writing # 0 /\ writing' = 0
    /\ UNCHANGED <<open, unread, start, written>>

Read(r) ==
    /\ writing = 0 /\ r \in open /\ unread[r] # <<>>
    /\ unread' = [unread EXCEPT ![r] = Tail(@)]
    /\ UNCHANGED <<open, start, written, writing>>

Flush ==
    /\ writing = 0
    /\ start' = <<>> /\ unread' = [r \in Readers |-> <<>>]
    /\ UNCHANGED <<open, written, writing>>

Open(r) ==
    /\ writing = 0 /\ r \notin open /\ open' = open \cup {r}
    /\ unread' = [unread EXCEPT ![r] = start]
    /\ UNCHANGED <<start, written, writing>>

\* A reader may go while an entry is being written.
Close(r) ==
    /\ r \in open /\ open' = open \ {r}
    /\ unread' = [unread EXCEPT ![r] = <<>>]
    /\ UNCHANGED <<start, written, writing>>

Next ==
    \/ \E len \in 1 .. Size - 1 : Begin(len)
    \/ Write \/ Abort \/ Flush
    \/ \E r \in Readers : Lose(r) \/ Read(r) \/ Open(r) \/ Close(r)

Spec == Init /\ [][Next]_vars
=============================================================================
