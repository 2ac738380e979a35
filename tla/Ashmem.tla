------------------------------- MODULE Ashmem -------------------------------
(***************************************************************************)
(* mm/ashmem.c: shared memory areas whose unpinned ranges of pages the     *)
(* kernel may purge.  Every area keeps a list of its unpinned ranges, from *)
(* the last page to the first; the ranges that are not purged are also on  *)
(* one LRU list.  An operation runs under ashmem_mutex and is one step,    *)
(* but for ASHMEM_SET_SIZE, which does not take it.                        *)
(*                                                                         *)
(* Left out: names, protection bits, reading and seeking, which do not     *)
(* touch the ranges, and sizes of no page.                                 *)
(***************************************************************************)
EXTENDS Integers, FiniteSets, SequencesExt

CONSTANTS
    Areas, Tasks,
    MaxPages,       \* bound: pages of the largest area
    Sizes,          \* the sizes, in pages, that users set for each area
    Ranges,         \* the range structures that kmem_cache_zalloc can hand out
    NrToScan,       \* pages that the shrinker is asked for
    None

Pages == 0 .. MaxPages - 1

\* struct ashmem_range.  An empty one begins after its end.
RangeRecords == [area : Areas, pgstart : 0 .. MaxPages, pgend : Pages, purged : BOOLEAN]

ASSUME SizesAssumption == MaxPages \in Nat /\ \A a \in Areas : Sizes[a] \subseteq 1 .. MaxPages
ASSUME ScanAssumption == NrToScan \subseteq Nat \ {0}
ASSUME NoneAssumption == None \notin RangeRecords

VARIABLES
    size, file,     \* size of each area in pages; the areas that have a backing file
    range,          \* what is in each range structure, or None
    unpinned_list, ashmem_lru_list, lru_count,
    setting,        \* the size that a task is about to set
    stuck,          \* a task waits for ashmem_mutex while it holds it
    gone,           \* history: pages whose content was truncated since they were pinned
    failed,         \* history: areas in which a range could not be allocated
    answer          \* history: what the last call returned

sizes == <<size, file, setting>>
lists == <<range, unpinned_list, ashmem_lru_list, lru_count>>
vars == <<sizes, lists, stuck, gone, failed, answer>>

-----------------------------------------------------------------------------
(***************************************************************************)
(* The ranges as a value: lists of range numbers and what they stand for.  *)
(***************************************************************************)
Lists == [range |-> range, unpinned |-> unpinned_list, lru |-> ashmem_lru_list, count |-> lru_count]

Becomes(m) ==
    /\ range' = m.range /\ unpinned_list' = m.unpinned
    /\ ashmem_lru_list' = m.lru /\ lru_count' = m.count

range_size(r) == r.pgend + 1 - r.pgstart
subsumes(r, s, e) == r.pgstart >= s /\ r.pgend <= e
subsumed_by(r, s, e) == r.pgstart <= s /\ r.pgend >= e
page_in_range(r, p) == r.pgstart <= p /\ r.pgend >= p
page_range_in_range_ends(r, s, e) == page_in_range(r, s) \/ page_in_range(r, e)

page_range_in_range(r, s, e) == page_in_range(r, s) \/ page_in_range(r, e) \/ subsumes(r, s, e)
range_before_page(r, p) == r.pgend < p

\* list_del, from one of the lists a range is on.
Unlink(q, k) ==
    IF Contains(q, k) THEN RemoveAt(q, CHOOSE i \in 1 .. Len(q) : q[i] = k) ELSE q

lru_del(m, k) == [lru |-> Unlink(m.lru, k), count |-> m.count - range_size(m.range[k])]

Free(m) == {k \in Ranges : m.range[k] = None}

\* Before the range at position i of the area's list, and last on the LRU list.
range_alloc(m, i, r) ==
    LET k == CHOOSE n \in Free(m) : TRUE
    IN [range |-> [m.range EXCEPT ![k] = r],
        unpinned |-> [m.unpinned EXCEPT ![r.area] = InsertAt(@, i, k)],
        lru |-> IF r.purged THEN m.lru ELSE Append(m.lru, k),
        count |-> IF r.purged THEN m.count ELSE m.count + range_size(r)]

range_del(m, k) ==
    LET r == m.range[k]
        off == IF r.purged THEN m ELSE lru_del(m, k)
    IN [range |-> [m.range EXCEPT ![k] = None],
        unpinned |-> [m.unpinned EXCEPT ![r.area] = Unlink(@, k)],
        lru |-> off.lru, count |-> off.count]

range_shrink_uncounted(m, k, s, e) ==
    [m EXCEPT !.range[k] = [@ EXCEPT !.pgstart = s, !.pgend = e]]

range_shrink(m, k, s, e) ==
    LET pre == m.range[k]
        r == [pre EXCEPT !.pgstart = s, !.pgend = e]
    IN [range |-> [m.range EXCEPT ![k] = r], unpinned |-> m.unpinned, lru |-> m.lru,
        count |-> IF r.purged THEN m.count ELSE m.count - (range_size(pre) - range_size(r))]

(***************************************************************************)
(* ashmem_pin: one range of the list after the other, in four cases.  mem  *)
(* says whether the allocation of the last one succeeds; it comes before   *)
(* the range shrinks, which makes no difference.                           *)
(***************************************************************************)
Position(m, a, k) == CHOOSE i \in 1 .. Len(m.unpinned[a]) : m.unpinned[a][i] = k

PinMet(m, k, s, e, mem) ==
    LET r == m.range[k]
        first == range_shrink(m, k, r.pgstart, s - 1)
    IN IF subsumes(r, s, e) THEN range_del(m, k)
       ELSE IF r.pgstart >= s THEN range_shrink(m, k, e + 1, r.pgend)
       ELSE IF r.pgend <= e \/ ~mem THEN first
       ELSE range_alloc(first, Position(m, r.area, k), [r EXCEPT !.pgstart = e + 1])

WasPurged_last(at, r) == r.purged

WasPurged(at, r) == at.purged \/ r.purged

PinRange(at, k, s, e, mem) ==
    LET r == at.m.range[k]
        hole == r.pgstart < s /\ r.pgend > e
        room == mem /\ Free(at.m) # {}
    IN IF at.done THEN at
       ELSE IF range_before_page(r, s) THEN [at EXCEPT !.done = TRUE]
       ELSE IF ~page_range_in_range(r, s, e) THEN at
       ELSE [m |-> PinMet(at.m, k, s, e, room), purged |-> WasPurged(at, r),
             done |-> hole, failed |-> hole /\ ~room]

PinWalk(m, a, s, e, mem) ==
    LET walk[i \in 0 .. Len(m.unpinned[a])] ==
          IF i = 0 THEN [m |-> m, purged |-> FALSE, done |-> FALSE, failed |-> FALSE]
          ELSE PinRange(walk[i - 1], m.unpinned[a][i], s, e, mem)
    IN walk

ashmem_pin(m, a, s, e, mem) == PinWalk(m, a, s, e, mem)[Len(m.unpinned[a])]

(***************************************************************************)
(* ashmem_unpin: the interval grows by every range it meets, and the       *)
(* search restarts.                                                        *)
(***************************************************************************)
First(S) == CHOOSE i \in S : \A j \in S : i <= j

Insertion_last(m, a, s) == Len(m.unpinned[a]) + 1

Insertion(m, a, s) ==
    LET before == {i \in 1 .. Len(m.unpinned[a]) : range_before_page(m.range[m.unpinned[a][i]], s)}
    IN IF before = {} THEN Len(m.unpinned[a]) + 1 ELSE First(before)

Met(m, a, s, e) ==
    {i \in 1 .. Insertion(m, a, s) - 1 : LET r == m.range[m.unpinned[a][i]]
                                         IN page_range_in_range(r, s, e) \/ subsumed_by(r, s, e)}

FirstMet(m, a, s, e) == m.unpinned[a][First(Met(m, a, s, e))]

Merges(at, a) ==
    /\ Met(at.m, a, at.s, at.e) # {}
    /\ ~subsumed_by(at.m.range[FirstMet(at.m, a, at.s, at.e)], at.s, at.e)

MergeRange(at, a) ==
    LET k == FirstMet(at.m, a, at.s, at.e)
        r == at.m.range[k]
    IN IF ~Merges(at, a) THEN at
       ELSE [m |-> range_del(at.m, k), purged |-> at.purged \/ r.purged,
             s |-> IF r.pgstart < at.s THEN r.pgstart ELSE at.s,
             e |-> IF r.pgend > at.e THEN r.pgend ELSE at.e]

\* Every restart has one range less to meet.
MergeWalk(m, a, s, e) ==
    LET walk[i \in 0 .. Len(m.unpinned[a])] ==
          IF i = 0 THEN [m |-> m, purged |-> FALSE, s |-> s, e |-> e] ELSE MergeRange(walk[i - 1], a)
    IN walk

ashmem_unpin(m, a, s, e, mem) ==
    LET at == MergeWalk(m, a, s, e)[Len(m.unpinned[a])]
        r == [area |-> a, pgstart |-> at.s, pgend |-> at.e, purged |-> at.purged]
    IN IF Met(at.m, a, at.s, at.e) # {} THEN [m |-> at.m, failed |-> FALSE]
       ELSE IF ~mem \/ Free(at.m) = {} THEN [m |-> at.m, failed |-> TRUE]
       ELSE [m |-> range_alloc(at.m, Insertion(at.m, a, at.s), r), failed |-> FALSE]

ashmem_get_pin_status(m, a, s, e) ==
    \E i \in 1 .. Insertion(m, a, s) - 1 : page_range_in_range(m.range[m.unpinned[a][i]], s, e)

(***************************************************************************)
(* ashmem_shrink: the LRU list from its head, until enough pages are free. *)
(***************************************************************************)
Purged(m, k) ==
    LET off == lru_del(m, k)
    IN [range |-> [m.range EXCEPT ![k] = [@ EXCEPT !.purged = TRUE]], unpinned |-> m.unpinned,
        lru |-> off.lru, count |-> off.count]

ShrinkRange(at, k) ==
    LET freed == range_size(at.m.range[k])
    IN IF at.left = 0 THEN at
       ELSE [m |-> Purged(at.m, k), keys |-> at.keys \cup {k},
             left |-> IF freed >= at.left THEN 0 ELSE at.left - freed]

ShrinkWalk(m, nr) ==
    LET walk[i \in 0 .. Len(m.lru)] ==
          IF i = 0 THEN [m |-> m, keys |-> {}, left |-> nr] ELSE ShrinkRange(walk[i - 1], m.lru[i])
    IN walk

\* ashmem_release deletes one range after the other.
ReleaseWalk(m, a) ==
    LET walk[i \in 0 .. Len(m.unpinned[a])] ==
          IF i = 0 THEN m ELSE range_del(walk[i - 1], m.unpinned[a][i])
    IN walk

RangePages(r) == {p \in Pages : page_in_range(r, p)}

-----------------------------------------------------------------------------
Ready == ~stuck

\* The intervals that pass the checks of ashmem_pin_unpin.  "Zero for len" means
\* everything onward, which at the end of the area is the empty interval.
IsInterval(a, s, e) ==
    /\ a \in file
    /\ (s <= e /\ e < size[a]) \/ (s = size[a] /\ e = s - 1)

\* A call that could not allocate a range is remembered with its area.
Fails(a, call) == failed' = IF call.failed THEN failed \cup {a} ELSE failed

ASHMEM_PIN(a, s, e, mem) ==
    /\ Ready /\ IsInterval(a, s, e)
    /\ LET call == ashmem_pin(Lists, a, s, e, mem)
       IN Becomes(call.m) /\ Fails(a, call) /\ answer' = call.purged
    /\ gone' = [gone EXCEPT ![a] = @ \ s .. e]
    /\ UNCHANGED <<sizes, stuck>>

ASHMEM_UNPIN(a, s, e, mem) ==
    /\ Ready /\ IsInterval(a, s, e)
    /\ LET call == ashmem_unpin(Lists, a, s, e, mem) IN Becomes(call.m) /\ Fails(a, call)
    /\ answer' = FALSE
    /\ UNCHANGED <<sizes, stuck, gone>>

ASHMEM_GET_PIN_STATUS(a, s, e) ==
    /\ Ready /\ IsInterval(a, s, e)
    /\ answer' = ashmem_get_pin_status(Lists, a, s, e)
    /\ UNCHANGED <<sizes, lists, stuck, gone, failed>>

(***************************************************************************)
(* range_alloc asks for memory with GFP_KERNEL under the mutex: when there *)
(* is little, the allocator calls ashmem_shrink, which takes the mutex,    *)
(* and nobody sees the ranges again.                                       *)
(***************************************************************************)
alloc_reclaims(a, s, e) ==
    /\ Ready /\ IsInterval(a, s, e)
    /\ \E call \in {ashmem_pin(Lists, a, s, e, FALSE), ashmem_unpin(Lists, a, s, e, FALSE)} :
          call.failed /\ call.m.lru # <<>>
    /\ stuck' = TRUE
    /\ UNCHANGED <<sizes, lists, gone, failed, answer>>

\* Called by the allocator of any task, or for ASHMEM_PURGE_ALL_CACHES.
ashmem_shrink(nr) ==
    /\ Ready /\ ashmem_lru_list # <<>>
    /\ LET s == ShrinkWalk(Lists, nr)[Len(ashmem_lru_list)]
       IN /\ Becomes(s.m)
          /\ gone' = [a \in Areas |-> gone[a] \cup
                        UNION {RangePages(range[k]) : k \in {x \in s.keys : range[x].area = a}}]
    /\ answer' = FALSE
    /\ UNCHANGED <<sizes, stuck, failed>>

-----------------------------------------------------------------------------
\* ASHMEM_SET_SIZE: the test and the assignment, without the mutex.
set_size_tests(t, a, n) ==
    /\ setting[t] = None /\ a \notin file
    /\ setting' = [setting EXCEPT ![t] = [area |-> a, size |-> n]]
    /\ UNCHANGED <<size, file, lists, stuck, gone, failed, answer>>

set_size_stores(t) ==
    /\ setting[t] # None
    /\ size' = [size EXCEPT ![setting[t].area] = setting[t].size]
    /\ setting' = [setting EXCEPT ![t] = None]
    /\ UNCHANGED <<file, lists, stuck, gone, failed, answer>>

\* The first ashmem_mmap makes the backing file.
ashmem_mmap(a) ==
    /\ Ready /\ size[a] # 0 /\ a \notin file
    /\ file' = file \cup {a}
    /\ UNCHANGED <<size, setting, lists, stuck, gone, failed, answer>>

\* A file is not released while a call uses it.
ashmem_release(a) ==
    /\ Ready /\ \A t \in Tasks : setting[t] # None => setting[t].area # a
    /\ Becomes(ReleaseWalk(Lists, a)[Len(unpinned_list[a])])
    /\ size' = [size EXCEPT ![a] = 0] /\ file' = file \ {a}
    /\ gone' = [gone EXCEPT ![a] = {}] /\ failed' = failed \ {a} /\ answer' = FALSE
    /\ UNCHANGED <<setting, stuck>>

-----------------------------------------------------------------------------
Init ==
    /\ size = [a \in Areas |-> 0] /\ file = {}
    /\ range = [k \in Ranges |-> None] /\ unpinned_list = [a \in Areas |-> <<>>]
    /\ ashmem_lru_list = <<>> /\ lru_count = 0
    /\ setting = [t \in Tasks |-> None] /\ stuck = FALSE
    /\ gone = [a \in Areas |-> {}] /\ failed = {} /\ answer = FALSE

Next ==
    \/ \E a \in Areas, s \in 0 .. MaxPages, e \in Pages :
          \/ \E mem \in BOOLEAN : ASHMEM_PIN(a, s, e, mem) \/ ASHMEM_UNPIN(a, s, e, mem)
          \/ ASHMEM_GET_PIN_STATUS(a, s, e)
          \/ alloc_reclaims(a, s, e)
    \/ \E nr \in NrToScan : ashmem_shrink(nr)
    \/ \E t \in Tasks : set_size_stores(t) \/ \E a \in Areas : \E n \in Sizes[a] : set_size_tests(t, a, n)
    \/ \E a \in Areas : ashmem_mmap(a) \/ ashmem_release(a)

Spec == Init /\ [][Next]_vars

-----------------------------------------------------------------------------
UnpinnedPages(a) == UNION {RangePages(range[k]) : k \in ToSet(unpinned_list[a])}

\* The pages that an empty range ends with: the last ones of their area.
TaintedPages(a) ==
    {range[k].pgend : k \in {x \in ToSet(unpinned_list[a]) : range_size(range[x]) = 0}}

(***************************************************************************)
(* A range in use is in the list of its area, once, and the ranges of an   *)
(* area lie apart, from the last to the first, whatever was pinned and     *)
(* unpinned: the loops break at the first range before their interval.     *)
(***************************************************************************)
RangesApart ==
    /\ \A k \in Ranges, a \in Areas :
          Contains(unpinned_list[a], k) <=> range[k] # None /\ range[k].area = a
    /\ \A a \in Areas : IsInjective(unpinned_list[a])
    /\ \A a \in Areas : \A i, j \in 1 .. Len(unpinned_list[a]) :
          i < j => range[unpinned_list[a][j]].pgend < range[unpinned_list[a][i]].pgstart

(***************************************************************************)
(* The shrinker is told how many pages it can free: the LRU list holds the *)
(* ranges that are not purged, each once, and lru_count is their pages.    *)
(***************************************************************************)
LruCounted ==
    /\ IsInjective(ashmem_lru_list)
    /\ ToSet(ashmem_lru_list) = {k \in Ranges : range[k] # None /\ ~range[k].purged}
    /\ lru_count = Cardinality({x \in ToSet(ashmem_lru_list) \X Pages : page_in_range(range[x[1]], x[2])})

(***************************************************************************)
(* ASHMEM_GET_PIN_STATUS finds an interval unpinned just when one of its   *)
(* pages is, or when an empty range ends in it: the search that breaks at  *)
(* the first range before the interval misses nothing, but after an unpin  *)
(* of no page at the end of the area, "ASHMEM_IS_UNPINNED if _any_ pages   *)
(* in the given interval are unpinned" (ashmem.c:558) is not all it says:  *)
(* the pinned last page counts as unpinned.                                *)
(***************************************************************************)
StatusExact ==
    \A a \in Areas : \A s, e \in Pages : s <= e =>
        (ashmem_get_pin_status(Lists, a, s, e) <=>
            s .. e \cap (UnpinnedPages(a) \cup TaintedPages(a)) # {})

(***************************************************************************)
(* The lists of ranges implement memory whose pages are pinned, unpinned   *)
(* and purged one by one: no pinned page is purged, and no answer is wrong *)
(* about a page of the interval but for what empty ranges add, in an area  *)
(* where every range could be allocated.                                   *)
(***************************************************************************)
Memory == INSTANCE PurgeableMemory WITH
    unpinned <- [a \in Areas |-> UnpinnedPages(a)],
    tainted <- [a \in Areas |-> TaintedPages(a)]

ImplementsMemory == Memory!Spec
=============================================================================
