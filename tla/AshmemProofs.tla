---------------------------- MODULE AshmemProofs ----------------------------
(***************************************************************************)
(* Theorems about ashmem, for any areas, tasks and range structures and    *)
(* areas of any size: the lists of ranges stay sorted, apart and counted,  *)
(* and implement memory that is pinned and purged page by page.  A range   *)
(* may be empty: it begins after its end, has no page, and counts as       *)
(* nothing, but the loops meet it where it ends.                           *)
(***************************************************************************)
EXTENDS Ashmem, FiniteSetTheorems, SequenceTheorems, WellFoundedInduction, TLAPS

\* Induction on the natural numbers, for a set.
LEMMA SetInduction ==
    ASSUME NEW S \in SUBSET Nat, 0 \in S, \A n \in S : n + 1 \in S
    PROVE  S = Nat
<1> DEFINE R == OpToRel(<, Nat)
           T == Nat \ S
<1>1. SUFFICES ASSUME T # {} PROVE FALSE
    OBVIOUS
<1>2. IsWellFoundedOn(R, Nat)
    BY NatLessThanWellFounded
<1>3. \A x, y \in Nat : <<y, x>> \in R <=> y < x
    BY DEF OpToRel
<1> HIDE DEF R
<1>4. T \subseteq Nat
    OBVIOUS
<1> HIDE DEF T
<1>5. PICK m \in T : \A x \in T : ~(<<x, m>> \in R)
    BY <1>1, <1>2, <1>4, WFMin
<1>6. m \in Nat /\ m # 0 /\ m - 1 \in Nat /\ m - 1 < m
    BY <1>5 DEF T
<1>7. m - 1 \notin T
    BY <1>3, <1>5, <1>6
<1>8. m - 1 \in S
    BY <1>6, <1>7 DEF T
<1>9. (m - 1) + 1 \in S
    BY <1>8
<1>10. m \in S
    BY <1>6, <1>9
<1>11. QED
    BY <1>5, <1>10 DEF T

\* A set of natural numbers has a first element.
LEMMA FirstExists ==
    ASSUME NEW S \in SUBSET Nat, S # {}
    PROVE  First(S) \in S /\ \A j \in S : First(S) <= j
<1> DEFINE R == OpToRel(<, Nat)
<1>1. IsWellFoundedOn(R, Nat)
    BY NatLessThanWellFounded
<1>2. \A x, y \in Nat : <<y, x>> \in R <=> y < x
    BY DEF OpToRel
<1> HIDE DEF R
<1>3. PICK i \in S : \A x \in S : ~(<<x, i>> \in R)
    BY <1>1, WFMin
<1>4. ASSUME NEW j \in S PROVE i <= j
    <2>1. i \in Nat /\ j \in Nat /\ ~(j < i)
        BY <1>2, <1>3
    <2>2. QED
        BY <2>1
<1>5. QED
    BY <1>3, <1>4 DEF First

-----------------------------------------------------------------------------
\* List r is list q without its entry at place p, or with k before that place.
Unlinked(q, r, p) ==
    /\ r \in Seq(Ranges) /\ Len(r) = Len(q) - 1
    /\ \A i \in 1 .. Len(q) - 1 : r[i] = IF i < p THEN q[i] ELSE q[i + 1]

Inserted(q, r, p, k) ==
    /\ r \in Seq(Ranges) /\ Len(r) = Len(q) + 1
    /\ \A i \in 1 .. Len(q) + 1 : r[i] = IF i < p THEN q[i] ELSE IF i = p THEN k ELSE q[i - 1]

\* list_del of one of the entries: the others keep their order.
LEMMA UnlinkPlaces ==
    ASSUME NEW q \in Seq(Ranges), NEW k, Contains(q, k)
    PROVE  \E p \in 1 .. Len(q) : q[p] = k /\ Unlinked(q, Unlink(q, k), p)
<1> DEFINE p == CHOOSE i \in 1 .. Len(q) : q[i] = k
           r == Unlink(q, k)
           front == SubSeq(q, 1, p - 1)
           back == SubSeq(q, p + 1, Len(q))
<1>1. p \in 1 .. Len(q) /\ q[p] = k
    BY DEF Contains
<1>2. r = front \o back
    BY DEF Unlink, RemoveAt
<1> HIDE DEF p, r
<1>3. Len(q) \in Nat /\ \A i \in 1 .. Len(q) : q[i] \in Ranges
    OBVIOUS
<1>4. front \in Seq(Ranges) /\ Len(front) = p - 1 /\ \A i \in 1 .. p - 1 : front[i] = q[i]
    BY <1>1, <1>3
<1>5. /\ back \in Seq(Ranges) /\ Len(back) = Len(q) - p
      /\ \A i \in 1 .. Len(q) - p : back[i] = q[p + i]
    BY <1>1, <1>3
<1> HIDE DEF front, back
<1>6. /\ r \in Seq(Ranges) /\ Len(r) = Len(front) + Len(back)
      /\ \A i \in 1 .. Len(front) + Len(back) :
            r[i] = IF i <= Len(front) THEN front[i] ELSE back[i - Len(front)]
    BY <1>2, <1>4, <1>5, ConcatProperties
<1>7. Len(r) = Len(q) - 1
    BY <1>1, <1>3, <1>4, <1>5, <1>6
<1>8. \A i \in 1 .. Len(r) : r[i] = IF i < p THEN front[i] ELSE back[i - (p - 1)]
    <2>1. p \in Int /\ Len(front) = p - 1
        BY <1>1, <1>4
    <2>2. \A i \in 1 .. Len(r) : i < p <=> i <= Len(front)
        BY <1>7, <2>1
    <2>3. QED
        BY <1>6, <2>1, <2>2
<1>9. \A i \in 1 .. Len(r) : r[i] = IF i < p THEN q[i] ELSE q[i + 1]
    BY <1>1, <1>3, <1>4, <1>5, <1>7, <1>8
<1>10. QED
    BY <1>1, <1>6, <1>7, <1>9 DEF r, Unlinked

\* list_add_tail before the entry at place p.
LEMMA InsertPlaces ==
    ASSUME NEW q \in Seq(Ranges), NEW k \in Ranges, NEW p \in 1 .. Len(q) + 1
    PROVE  Inserted(q, InsertAt(q, p, k), p, k)
<1> DEFINE r == InsertAt(q, p, k)
           front == SubSeq(q, 1, p - 1)
           back == SubSeq(q, p, Len(q))
           mid == front \o <<k>>
<1>1. r = mid \o back
    BY DEF InsertAt
<1> HIDE DEF r
<1>2. Len(q) \in Nat /\ \A i \in 1 .. Len(q) : q[i] \in Ranges
    OBVIOUS
<1>3. front \in Seq(Ranges) /\ Len(front) = p - 1 /\ \A i \in 1 .. p - 1 : front[i] = q[i]
    BY <1>2
<1>4. /\ back \in Seq(Ranges) /\ Len(back) = Len(q) + 1 - p
      /\ \A i \in 1 .. Len(q) + 1 - p : back[i] = q[(p - 1) + i]
    BY <1>2
<1> HIDE DEF front, back
<1>5. /\ mid \in Seq(Ranges) /\ Len(mid) = p
      /\ \A i \in 1 .. p : mid[i] = IF i < p THEN q[i] ELSE k
    BY <1>2, <1>3
<1> HIDE DEF mid
<1>6. /\ r \in Seq(Ranges) /\ Len(r) = Len(mid) + Len(back)
      /\ \A i \in 1 .. Len(mid) + Len(back) :
            r[i] = IF i <= Len(mid) THEN mid[i] ELSE back[i - Len(mid)]
    BY <1>1, <1>4, <1>5, ConcatProperties
<1>7. Len(r) = Len(q) + 1
    BY <1>2, <1>4, <1>5, <1>6
<1>8. \A i \in 1 .. Len(q) + 1 : r[i] = IF i <= p THEN mid[i] ELSE back[i - p]
    BY <1>5, <1>6, <1>7
<1>9. \A i \in 1 .. Len(q) + 1 : r[i] = IF i < p THEN q[i] ELSE IF i = p THEN k ELSE q[i - 1]
    <2>1. \A i \in 1 .. Len(q) + 1 :
             i > p => i - p \in 1 .. Len(q) + 1 - p /\ (p - 1) + (i - p) = i - 1
        BY <1>2
    <2>2. \A i \in 1 .. Len(q) + 1 : i > p => back[i - p] = q[i - 1]
        BY <1>4, <2>1
    <2>3. QED
        BY <1>2, <1>5, <1>8, <2>2
<1>10. QED
    BY <1>6, <1>7, <1>9 DEF r, Inserted

-----------------------------------------------------------------------------
(***************************************************************************)
(* The inductive invariant, of the lists as a value.                       *)
(***************************************************************************)
Starts == 0 .. MaxPages

RangesOK(R) ==
    /\ R \in [Ranges -> RangeRecords \cup {None}]
    /\ \A k \in Ranges : R[k] # None => R[k].pgstart <= R[k].pgend + 1

Sorted(R, q) == \A i, j \in 1 .. Len(q) : i < j => R[q[j]].pgend < R[q[i]].pgstart

Once(q) == \A i, j \in 1 .. Len(q) : q[i] = q[j] => i = j

Apart(R, U) ==
    /\ U \in [Areas -> Seq(Ranges)]
    /\ \A k \in Ranges, a \in Areas : Contains(U[a], k) <=> R[k] # None /\ R[k].area = a
    /\ \A a \in Areas : Sorted(R, U[a]) /\ Once(U[a])

OnLru(R) == {k \in Ranges : R[k] # None /\ ~R[k].purged}

Listed(R, q) == q \in Seq(Ranges) /\ IsInjective(q) /\ ToSet(q) = OnLru(R)

Evictable(R) == {x \in OnLru(R) \X Pages : page_in_range(R[x[1]], x[2])}

Counted(R, n) == IsFiniteSet(Evictable(R)) /\ n = Cardinality(Evictable(R))

Good(m) ==
    /\ RangesOK(m.range) /\ Apart(m.range, m.unpinned)
    /\ Listed(m.range, m.lru) /\ Counted(m.range, m.count)

-----------------------------------------------------------------------------
\* What a range adds to lru_count.
Weight(r) == IF r = None \/ r.purged THEN 0 ELSE range_size(r)

(***************************************************************************)
(* The pages that a range contributes to the LRU list are as many as its   *)
(* weight: its size, or none if it is purged or absent.                    *)
(***************************************************************************)
LEMMA WeightCounts ==
    ASSUME NEW k, NEW r \in RangeRecords \cup {None}, r # None => r.pgstart <= r.pgend + 1,
           NEW own, own = IF r = None \/ r.purged THEN {} ELSE {k} \X (r.pgstart .. r.pgend)
    PROVE  IsFiniteSet(own) /\ Cardinality(own) = Weight(r)
<1>1. CASE r = None \/ r.purged
    BY <1>1, FS_EmptySet DEF Weight
<1>2. CASE ~(r = None \/ r.purged)
    <2> DEFINE T == r.pgstart .. r.pgend
    <2>1. r.pgstart \in Int /\ r.pgend \in Int /\ r.pgstart <= r.pgend + 1
        BY <1>2, SizesAssumption DEF RangeRecords, Pages
    <2>2. IsFiniteSet(T) /\ Cardinality(T) = r.pgend - r.pgstart + 1
        <3>1. CASE r.pgstart <= r.pgend
            BY <2>1, <3>1, FS_Interval
        <3>2. CASE r.pgstart = r.pgend + 1
            <4>1. T = {} /\ r.pgend - r.pgstart + 1 = 0
                BY <2>1, <3>2
            <4>2. QED
                BY <4>1, FS_EmptySet
        <3>3. QED
            BY <2>1, <3>1, <3>2
    <2>3. IsFiniteSet({k}) /\ Cardinality({k}) = 1
        BY FS_Singleton
    <2> HIDE DEF T
    <2>4. IsFiniteSet({k} \X T) /\ Cardinality({k} \X T) = Cardinality({k}) * Cardinality(T)
        BY <2>2, <2>3, FS_Product
    <2>5. own = {k} \X T
        BY <1>2 DEF T
    <2>6. Weight(r) = r.pgend + 1 - r.pgstart
        BY <1>2 DEF Weight, range_size
    <2>7. Cardinality({k} \X T) = Cardinality(T)
        BY <2>1, <2>2, <2>3, <2>4
    <2>8. Weight(r) = r.pgend - r.pgstart + 1
        BY <2>1, <2>6
    <2>9. Cardinality(own) = Weight(r)
        BY <2>2, <2>5, <2>7, <2>8
    <2>10. QED
        BY <2>4, <2>5, <2>9
<1>3. QED
    BY <1>1, <1>2

\* One range structure changes: so much lru_count has to change.
LEMMA CountChange ==
    ASSUME NEW R, RangesOK(R), NEW k \in Ranges, NEW x \in RangeRecords \cup {None},
           x # None => x.pgstart <= x.pgend + 1, NEW n, Counted(R, n)
    PROVE  Counted([R EXCEPT ![k] = x], n - Weight(R[k]) + Weight(x)) /\ n \in Nat
<1> DEFINE Own(r) == IF r = None \/ r.purged THEN {} ELSE {k} \X (r.pgstart .. r.pgend)
           E == Evictable(R)
           old == Own(R[k])
           new == Own(x)
           rest == E \ old
           Q == [R EXCEPT ![k] = x]
<1>1. R[k] \in RangeRecords \cup {None} /\ (R[k] # None => R[k].pgstart <= R[k].pgend + 1)
    BY DEF RangesOK
<1>2. IsFiniteSet(old) /\ Cardinality(old) = Weight(R[k])
    BY <1>1, WeightCounts
<1>3. IsFiniteSet(new) /\ Cardinality(new) = Weight(x)
    BY WeightCounts
<1>4. IsFiniteSet(E) /\ n = Cardinality(E)
    BY DEF Counted
<1>5. ASSUME NEW y PROVE y \in Evictable(R) <=> /\ y \in Ranges \X Pages
                                                /\ R[y[1]] # None /\ ~R[y[1]].purged
                                                /\ R[y[1]].pgstart <= y[2] /\ y[2] <= R[y[1]].pgend
    BY SizesAssumption DEF Evictable, OnLru, page_in_range, RangesOK, RangeRecords, Pages
<1>6. ASSUME NEW y PROVE y \in Evictable(Q) <=> /\ y \in Ranges \X Pages
                                                /\ Q[y[1]] # None /\ ~Q[y[1]].purged
                                                /\ Q[y[1]].pgstart <= y[2] /\ y[2] <= Q[y[1]].pgend
    BY SizesAssumption DEF Evictable, OnLru, page_in_range, RangesOK, RangeRecords, Pages
<1>7. \A z \in Ranges : Q[z] = IF z = k THEN x ELSE R[z]
    BY DEF RangesOK
<1>8. ASSUME NEW r \in RangeRecords \cup {None}, NEW y
      PROVE  y \in Own(r) <=> /\ r # None /\ ~r.purged /\ y \in Ranges \X Pages /\ y[1] = k
                              /\ r.pgstart <= y[2] /\ y[2] <= r.pgend
    BY SizesAssumption DEF RangeRecords, Pages
<1> HIDE DEF Own, Q
<1>9. old \subseteq E /\ rest \cap new = {} /\ Evictable(Q) = rest \cup new
    BY <1>1, <1>5, <1>6, <1>7, <1>8
<1> HIDE DEF E, old, new
<1>10. IsFiniteSet(rest) /\ Cardinality(rest) = Cardinality(E) - Cardinality(old)
    <2>1. E \cap old = old
        BY <1>9
    <2>2. QED
        BY <1>4, <2>1, FS_Difference
<1> HIDE DEF rest
<1>11. /\ IsFiniteSet(rest \cup new)
       /\ Cardinality(rest \cup new) = Cardinality(rest) + Cardinality(new) - Cardinality(rest \cap new)
    BY <1>3, <1>10, FS_Union
<1>12. Cardinality(rest \cap new) = 0 /\ Cardinality(E) \in Nat /\ Cardinality(old) \in Nat
       /\ Cardinality(new) \in Nat
    BY <1>2, <1>3, <1>4, <1>9, FS_EmptySet, FS_CardinalityType
<1>13. Cardinality(Evictable(Q)) = n - Weight(R[k]) + Weight(x)
    BY <1>2, <1>3, <1>4, <1>9, <1>10, <1>11, <1>12
<1>14. QED
    BY <1>4, <1>9, <1>11, <1>12, <1>13 DEF Counted, Q

-----------------------------------------------------------------------------
\* The LRU list when one range structure changes: it stays, leaves or joins.
LEMMA LruStays ==
    ASSUME NEW R, RangesOK(R), NEW k \in Ranges, NEW x, NEW q, Listed(R, q),
           (R[k] # None /\ ~R[k].purged) <=> (x # None /\ ~x.purged)
    PROVE  Listed([R EXCEPT ![k] = x], q)
<1>1. OnLru([R EXCEPT ![k] = x]) = OnLru(R)
    BY DEF OnLru, RangesOK
<1>2. QED
    BY <1>1 DEF Listed

(***************************************************************************)
(* list_del takes exactly the range that is deleted or purged off the LRU  *)
(* list.                                                                   *)
(***************************************************************************)
LEMMA LruLeaves ==
    ASSUME NEW R, RangesOK(R), NEW k \in Ranges, NEW x, NEW q, Listed(R, q),
           R[k] # None, ~R[k].purged, x = None \/ x.purged
    PROVE  Listed([R EXCEPT ![k] = x], Unlink(q, k))
<1> DEFINE r == Unlink(q, k)
<1>1. OnLru([R EXCEPT ![k] = x]) = OnLru(R) \ {k}
    BY DEF OnLru, RangesOK
<1>2. q \in Seq(Ranges) /\ Len(q) \in Nat /\ DOMAIN q = 1 .. Len(q)
    BY DEF Listed
<1>3. k \in ToSet(q) /\ Contains(q, k)
    BY <1>2 DEF Listed, OnLru, ToSet, Contains
<1>4. PICK p \in 1 .. Len(q) :
          /\ q[p] = k /\ r \in Seq(Ranges) /\ Len(r) = Len(q) - 1
          /\ \A i \in 1 .. Len(q) - 1 : r[i] = IF i < p THEN q[i] ELSE q[i + 1]
    <2>1. \E p \in 1 .. Len(q) : q[p] = k /\ Unlinked(q, r, p)
        BY <1>2, <1>3, UnlinkPlaces
    <2>2. QED
        BY <2>1 DEF Unlinked
<1> HIDE DEF r
<1>5. \A i, j \in 1 .. Len(q) : q[i] = q[j] => i = j
    BY <1>2 DEF Listed, IsInjective
<1>6. IsInjective(r)
    BY <1>2, <1>4, <1>5 DEF IsInjective
<1>7. ToSet(r) = ToSet(q) \ {k}
    <2>1. ToSet(q) = {q[i] : i \in 1 .. Len(q)} /\ ToSet(r) = {r[i] : i \in 1 .. Len(q) - 1}
        BY <1>2, <1>4 DEF ToSet
    <2>2. ASSUME NEW i \in 1 .. Len(q) - 1 PROVE r[i] \in ToSet(q) /\ r[i] # k
        BY <1>2, <1>4, <1>5, <2>1
    <2>3. ASSUME NEW i \in 1 .. Len(q), q[i] # k PROVE q[i] \in ToSet(r)
        <3>1. CASE i < p
            BY <1>2, <1>4, <2>1, <3>1
        <3>2. CASE i > p
            <4>1. i - 1 \in 1 .. Len(q) - 1 /\ r[i - 1] = q[i]
                BY <1>2, <1>4, <3>2
            <4>2. QED
                BY <2>1, <4>1
        <3>3. QED
            BY <1>4, <2>3, <3>1, <3>2
    <2>4. QED
        BY <2>1, <2>2, <2>3
<1>8. QED
    BY <1>1, <1>4, <1>6, <1>7 DEF Listed, r

(***************************************************************************)
(* list_add_tail puts exactly the new range on the LRU list.               *)
(***************************************************************************)
LEMMA LruJoins ==
    ASSUME NEW R, RangesOK(R), NEW k \in Ranges, NEW x, NEW q, Listed(R, q),
           R[k] = None, x # None, ~x.purged
    PROVE  Listed([R EXCEPT ![k] = x], Append(q, k))
<1> DEFINE r == Append(q, k)
<1>1. OnLru([R EXCEPT ![k] = x]) = OnLru(R) \cup {k} /\ k \notin OnLru(R)
    BY DEF OnLru, RangesOK
<1>2. q \in Seq(Ranges) /\ Len(q) \in Nat /\ DOMAIN q = 1 .. Len(q)
    BY DEF Listed
<1>3. r \in Seq(Ranges) /\ Len(r) = Len(q) + 1 /\ r[Len(q) + 1] = k
      /\ \A i \in 1 .. Len(q) : r[i] = q[i]
    BY <1>2
<1> HIDE DEF r
<1>4. \A i \in 1 .. Len(q) : q[i] # k
    BY <1>1, <1>2 DEF Listed, ToSet
<1>5. IsInjective(r)
    BY <1>2, <1>3, <1>4 DEF Listed, IsInjective
<1>6. ToSet(r) = ToSet(q) \cup {k}
    <2>1. ToSet(q) = {q[i] : i \in 1 .. Len(q)} /\ ToSet(r) = {r[i] : i \in 1 .. Len(q) + 1}
        BY <1>2, <1>3 DEF ToSet
    <2>2. \A i \in 1 .. Len(q) + 1 : i \in 1 .. Len(q) \/ i = Len(q) + 1
        BY <1>2
    <2>3. Len(q) + 1 \in 1 .. Len(q) + 1 /\ \A i \in 1 .. Len(q) : i \in 1 .. Len(q) + 1
        BY <1>2
    <2>4. QED
        BY <1>3, <2>1, <2>2, <2>3
<1>7. QED
    BY <1>1, <1>3, <1>5, <1>6 DEF Listed, r

-----------------------------------------------------------------------------
\* What the list of an area holds.
AreaList(R, q, a) ==
    /\ q \in Seq(Ranges) /\ Len(q) \in Nat
    /\ \A i \in 1 .. Len(q) :
          /\ q[i] \in Ranges /\ R[q[i]] # None /\ R[q[i]].area = a /\ R[q[i]] \in RangeRecords
          /\ R[q[i]].pgstart \in Nat /\ R[q[i]].pgend \in Nat /\ R[q[i]].pgstart <= R[q[i]].pgend + 1
    /\ \A i, j \in 1 .. Len(q) : i < j => R[q[j]].pgend < R[q[i]].pgstart
    /\ \A i, j \in 1 .. Len(q) : q[i] = q[j] => i = j

(***************************************************************************)
(* What the list of an area holds when the ranges lie apart: ranges of     *)
(* that area, each once, with sane bounds.                                 *)
(***************************************************************************)
LEMMA Entries ==
    ASSUME NEW R, RangesOK(R), NEW U, Apart(R, U), NEW a \in Areas
    PROVE  AreaList(R, U[a], a)
<1>1. U[a] \in Seq(Ranges) /\ Len(U[a]) \in Nat
    BY DEF Apart
<1>2. ASSUME NEW i \in 1 .. Len(U[a])
      PROVE  /\ U[a][i] \in Ranges /\ R[U[a][i]] # None /\ R[U[a][i]].area = a
             /\ R[U[a][i]] \in RangeRecords
             /\ R[U[a][i]].pgstart \in Nat /\ R[U[a][i]].pgend \in Nat
             /\ R[U[a][i]].pgstart <= R[U[a][i]].pgend + 1
    <2>1. U[a][i] \in Ranges /\ Contains(U[a], U[a][i])
        BY <1>1 DEF Contains
    <2>2. R[U[a][i]] # None /\ R[U[a][i]].area = a
        BY <2>1 DEF Apart
    <2>3. R[U[a][i]] \in RangeRecords /\ R[U[a][i]].pgstart <= R[U[a][i]].pgend + 1
        BY <2>1, <2>2 DEF RangesOK
    <2>4. QED
        BY <2>1, <2>2, <2>3, SizesAssumption DEF RangeRecords, Pages
<1>3. \A i, j \in 1 .. Len(U[a]) : i < j => R[U[a][j]].pgend < R[U[a][i]].pgstart
    BY DEF Apart, Sorted
<1>4. \A i, j \in 1 .. Len(U[a]) : U[a][i] = U[a][j] => i = j
    BY DEF Apart, Once
<1>5. QED
    BY <1>1, <1>2, <1>3, <1>4 DEF AreaList

\* A range in use is an entry of its area's list.
LEMMA InList ==
    ASSUME NEW R, RangesOK(R), NEW U, Apart(R, U), NEW k \in Ranges, R[k] # None
    PROVE  /\ R[k] \in RangeRecords /\ R[k].area \in Areas /\ R[k].purged \in BOOLEAN
           /\ R[k].pgstart \in Starts /\ R[k].pgend \in Pages /\ R[k].pgstart <= R[k].pgend + 1
           /\ Contains(U[R[k].area], k) /\ \E i \in 1 .. Len(U[R[k].area]) : U[R[k].area][i] = k
<1>1. R[k] \in RangeRecords /\ R[k].pgstart <= R[k].pgend + 1
    BY DEF RangesOK
<1>2. R[k].area \in Areas
    BY <1>1 DEF RangeRecords
<1>3. Contains(U[R[k].area], k)
    BY <1>2 DEF Apart
<1>4. QED
    BY <1>1, <1>2, <1>3 DEF Contains, RangeRecords, Starts

\* A range keeps its place when it shrinks.
LEMMA ApartShrinks ==
    ASSUME NEW R, RangesOK(R), NEW U, Apart(R, U), NEW k \in Ranges, R[k] # None,
           NEW x \in RangeRecords, x.area = R[k].area,
           R[k].pgstart <= x.pgstart, x.pgend <= R[k].pgend, x.pgstart <= x.pgend + 1
    PROVE  RangesOK([R EXCEPT ![k] = x]) /\ Apart([R EXCEPT ![k] = x], U)
<1> DEFINE Q == [R EXCEPT ![k] = x]
<1>1. \A z \in Ranges : Q[z] = IF z = k THEN x ELSE R[z]
    BY DEF RangesOK
<1>2. x # None
    BY NoneAssumption
<1>3. RangesOK(Q)
    BY <1>2 DEF RangesOK
<1> HIDE DEF Q
<1>4. \A z \in Ranges, a \in Areas : Contains(U[a], z) <=> Q[z] # None /\ Q[z].area = a
    BY <1>1, <1>2 DEF Apart
<1>5. ASSUME NEW a \in Areas PROVE Sorted(Q, U[a])
    <2>1. \A i \in 1 .. Len(U[a]) :
             /\ U[a][i] \in Ranges
             /\ R[U[a][i]].pgstart \in Int /\ R[U[a][i]].pgend \in Int
             /\ Q[U[a][i]].pgstart \in Int /\ Q[U[a][i]].pgend \in Int
             /\ R[U[a][i]].pgstart <= Q[U[a][i]].pgstart /\ Q[U[a][i]].pgend <= R[U[a][i]].pgend
        <3>1. x.pgstart \in Int /\ x.pgend \in Int
            BY SizesAssumption DEF RangeRecords, Pages
        <3>2. AreaList(R, U[a], a)
            BY Entries
        <3>3. ASSUME NEW i \in 1 .. Len(U[a])
              PROVE  /\ U[a][i] \in Ranges
                     /\ R[U[a][i]].pgstart \in Int /\ R[U[a][i]].pgend \in Int
                     /\ Q[U[a][i]].pgstart \in Int /\ Q[U[a][i]].pgend \in Int
                     /\ R[U[a][i]].pgstart <= Q[U[a][i]].pgstart /\ Q[U[a][i]].pgend <= R[U[a][i]].pgend
            <4>1. PICK z : z = U[a][i]
                OBVIOUS
            <4>2. z \in Ranges /\ R[z].pgstart \in Int /\ R[z].pgend \in Int
                BY <3>2, <4>1 DEF AreaList
            <4>3. Q[z] = (IF z = k THEN x ELSE R[z])
                BY <1>1, <4>2
            <4>4. /\ Q[z].pgstart \in Int /\ Q[z].pgend \in Int
                  /\ R[z].pgstart <= Q[z].pgstart /\ Q[z].pgend <= R[z].pgend
                <5>1. CASE z = k
                    BY <3>1, <4>2, <4>3, <5>1
                <5>2. CASE z # k
                    BY <4>2, <4>3, <5>2
                <5>3. QED
                    BY <5>1, <5>2
            <4>5. QED
                BY <4>1, <4>2, <4>4
        <3>4. QED
            BY <3>3
    <2>2. \A i, j \in 1 .. Len(U[a]) : i < j => R[U[a][j]].pgend < R[U[a][i]].pgstart
        BY Entries DEF AreaList
    <2>3. ASSUME NEW i \in 1 .. Len(U[a]), NEW j \in 1 .. Len(U[a]), i < j
          PROVE  Q[U[a][j]].pgend < Q[U[a][i]].pgstart
        <3> DEFINE oldEnd == R[U[a][j]].pgend
                   oldStart == R[U[a][i]].pgstart
                   end == Q[U[a][j]].pgend
                   start == Q[U[a][i]].pgstart
        <3>1. oldEnd \in Int /\ end \in Int /\ end <= oldEnd
            BY <2>1
        <3>2. oldStart \in Int /\ start \in Int /\ oldStart <= start
            BY <2>1
        <3>3. oldEnd < oldStart
            BY <2>2, <2>3
        <3> HIDE DEF oldEnd, oldStart, end, start
        <3>4. end < start
            BY <3>1, <3>2, <3>3
        <3>5. QED
            BY <3>4 DEF end, start
    <2>4. QED
        BY <2>3 DEF Sorted
<1>6. QED
    BY <1>3, <1>4, <1>5 DEF Apart, Q

Without(R, U, k, a) ==
    /\ RangesOK([R EXCEPT ![k] = None])
    /\ Apart([R EXCEPT ![k] = None], [U EXCEPT ![a] = Unlink(U[a], k)])
    /\ Len(Unlink(U[a], k)) = Len(U[a]) - 1

\* A range is deleted.
LEMMA ApartDeleted ==
    ASSUME NEW R, RangesOK(R), NEW U, Apart(R, U), NEW k \in Ranges, R[k] # None,
           NEW a \in Areas, a = R[k].area
    PROVE  Without(R, U, k, a)
<1> DEFINE Q == [R EXCEPT ![k] = None]
           V == [U EXCEPT ![a] = Unlink(@, k)]
           q == U[a]
           r == V[a]
<1>1. \A z \in Ranges : Q[z] = IF z = k THEN None ELSE R[z]
    BY DEF RangesOK
<1>2. RangesOK(Q)
    BY DEF RangesOK
<1>3. Contains(q, k) /\ q \in Seq(Ranges) /\ Len(q) \in Nat
    BY InList, Entries DEF AreaList
<1>4. V[a] = Unlink(q, k) /\ \A b \in Areas : b # a => V[b] = U[b]
    BY DEF Apart
<1>5. PICK p \in 1 .. Len(q) :
          /\ q[p] = k /\ r \in Seq(Ranges) /\ Len(r) = Len(q) - 1
          /\ \A i \in 1 .. Len(q) - 1 : r[i] = IF i < p THEN q[i] ELSE q[i + 1]
    <2>1. r = Unlink(q, k)
        BY <1>4
    <2> HIDE DEF q, r, V
    <2>2. \E p \in 1 .. Len(q) : q[p] = k /\ Unlinked(q, r, p)
        BY <1>3, <2>1, UnlinkPlaces
    <2>3. QED
        BY <2>2 DEF Unlinked
<1>6. V \in [Areas -> Seq(Ranges)]
    BY <1>4, <1>5 DEF Apart
<1>7. /\ \A i, j \in 1 .. Len(q) : i < j => R[q[j]].pgend < R[q[i]].pgstart
      /\ \A i, j \in 1 .. Len(q) : q[i] = q[j] => i = j
      /\ \A i \in 1 .. Len(q) : q[i] \in Ranges
    BY SMTT(30), Entries DEF AreaList
<1> HIDE DEF Q, V
<1>8. ASSUME NEW z \in Ranges, z # k
      PROVE  Contains(r, z) <=> Contains(q, z)
    <2> HIDE DEF q, r
    <2>1. ASSUME NEW i \in 1 .. Len(q), q[i] = z PROVE Contains(r, z)
        <3>1. i # p
            BY <1>5, <1>8, <2>1
        <3>2. CASE i < p
            BY <1>3, <1>5, <2>1, <3>2 DEF Contains
        <3>3. CASE i > p
            <4>1. i - 1 \in 1 .. Len(q) - 1 /\ r[i - 1] = q[i]
                BY <1>3, <1>5, <3>3
            <4>2. QED
                BY <1>5, <2>1, <4>1 DEF Contains
        <3>4. QED
            BY <1>3, <3>1, <3>2, <3>3
    <2>2. ASSUME NEW i \in 1 .. Len(r), r[i] = z PROVE Contains(q, z)
        BY SMTT(30), <1>3, <1>5, <2>2 DEF Contains
    <2>3. QED
        BY <2>1, <2>2 DEF Contains
<1>9. ~Contains(r, k)
    <2> HIDE DEF q, r
    <2>1. QED
        BY <1>3, <1>5, <1>7 DEF Contains
<1>10. ASSUME NEW z \in Ranges, NEW b \in Areas
       PROVE  Contains(V[b], z) <=> Q[z] # None /\ Q[z].area = b
    <2>1. Contains(U[b], z) <=> R[z] # None /\ R[z].area = b
        BY DEF Apart
    <2>2. CASE b = a
        BY <1>1, <1>8, <1>9, <2>1, <2>2
    <2>3. CASE b # a
        BY <1>1, <1>4, <2>1, <2>3
    <2>4. QED
        BY <2>2, <2>3
<1>11. ASSUME NEW b \in Areas PROVE Sorted(Q, V[b])
    <2>1. CASE b = a
        <3>1. ASSUME NEW i \in 1 .. Len(r), NEW j \in 1 .. Len(r), i < j
              PROVE  Q[r[j]].pgend < Q[r[i]].pgstart
            <4> HIDE DEF q, r
            <4>1. r[i] # k /\ r[j] # k /\ r[i] \in Ranges /\ r[j] \in Ranges
                BY <1>5, <1>9 DEF Contains
            <4>2. R[r[j]].pgend < R[r[i]].pgstart
                BY SMTT(30), <1>3, <1>5, <1>7, <3>1
            <4>3. QED
                BY <1>1, <4>1, <4>2
        <3>2. QED
            BY <2>1, <3>1 DEF Sorted
    <2>2. CASE b # a
        <3>1. \A i \in 1 .. Len(U[b]) : U[b][i] \in Ranges /\ U[b][i] # k
            BY <2>2, Entries DEF AreaList
        <3>2. Sorted(R, U[b])
            BY DEF Apart
        <3>3. QED
            BY <1>1, <1>4, <2>2, <3>1, <3>2 DEF Sorted
    <2>3. QED
        BY <2>1, <2>2
<1>12. ASSUME NEW b \in Areas PROVE Once(V[b])
    <2>1. CASE b = a
        <3>1. ASSUME NEW i \in 1 .. Len(r), NEW j \in 1 .. Len(r), i < j PROVE r[i] # r[j]
            <4> HIDE DEF q, r
            <4> DEFINE c == IF i < p THEN i ELSE i + 1
                       d == IF j < p THEN j ELSE j + 1
            <4>1. c \in 1 .. Len(q) /\ d \in 1 .. Len(q) /\ c < d /\ r[i] = q[c] /\ r[j] = q[d]
                BY <1>3, <1>5, <3>1
            <4> HIDE DEF c, d
            <4>2. QED
                BY <1>3, <1>7, <4>1
        <3>2. Len(r) \in Nat
            BY <1>3, <1>5
        <3>3. QED
            BY <2>1, <3>1, <3>2 DEF Once
    <2>2. CASE b # a
        BY <1>4, <2>2 DEF Apart
    <2>3. QED
        BY <2>1, <2>2
<1>13. RangesOK(Q) /\ Apart(Q, V) /\ Len(Unlink(q, k)) = Len(q) - 1
    BY <1>2, <1>4, <1>5, <1>6, <1>10, <1>11, <1>12 DEF Apart
<1>14. QED
    BY <1>13 DEF Without, Q, V

\* A range is put into a gap of the list.
LEMMA ApartInserted ==
    ASSUME NEW R, RangesOK(R), NEW U, Apart(R, U), NEW k \in Ranges, R[k] = None,
           NEW x \in RangeRecords, x.pgstart <= x.pgend + 1, NEW a \in Areas, a = x.area,
           NEW p \in 1 .. Len(U[a]) + 1,
           \A i \in 1 .. p - 1 : x.pgend < R[U[a][i]].pgstart,
           \A i \in p .. Len(U[a]) : R[U[a][i]].pgend < x.pgstart
    PROVE  /\ RangesOK([R EXCEPT ![k] = x])
           /\ Apart([R EXCEPT ![k] = x], [U EXCEPT ![a] = InsertAt(U[a], p, k)])
<1> DEFINE Q == [R EXCEPT ![k] = x]
           V == [U EXCEPT ![a] = InsertAt(@, p, k)]
           q == U[a]
           r == V[a]
<1>1. \A z \in Ranges : Q[z] = IF z = k THEN x ELSE R[z]
    BY DEF RangesOK
<1>2. x # None
    BY NoneAssumption
<1>3. RangesOK(Q)
    BY <1>2 DEF RangesOK
<1>4. q \in Seq(Ranges) /\ Len(q) \in Nat
    BY Entries DEF AreaList
<1>5. V[a] = InsertAt(q, p, k) /\ \A b \in Areas : b # a => V[b] = U[b]
    BY DEF Apart
<1>6. /\ r \in Seq(Ranges) /\ Len(r) = Len(q) + 1
      /\ \A i \in 1 .. Len(q) + 1 : r[i] = IF i < p THEN q[i] ELSE IF i = p THEN k ELSE q[i - 1]
    <2>1. r = InsertAt(q, p, k)
        BY <1>5
    <2>2. p \in 1 .. Len(q) + 1
        OBVIOUS
    <2> HIDE DEF q, r, V
    <2>3. Inserted(q, r, p, k)
        BY <1>4, <2>1, <2>2, InsertPlaces
    <2>4. QED
        BY <2>3 DEF Inserted
<1>7. V \in [Areas -> Seq(Ranges)]
    BY <1>5, <1>6 DEF Apart
<1>8. /\ \A i, j \in 1 .. Len(q) : i < j => R[q[j]].pgend < R[q[i]].pgstart
      /\ \A i \in 1 .. Len(q) : q[i] \in Ranges /\ q[i] # k
      /\ \A i, j \in 1 .. Len(q) : q[i] = q[j] => i = j
      /\ p \in 1 .. Len(q) + 1
      /\ \A i \in 1 .. p - 1 : x.pgend < R[q[i]].pgstart
      /\ \A i \in p .. Len(q) : R[q[i]].pgend < x.pgstart
    BY SMTT(30), Entries DEF AreaList
<1> HIDE DEF Q, V
<1>9. ASSUME NEW z \in Ranges PROVE Contains(r, z) <=> Contains(q, z) \/ z = k
    <2> HIDE DEF q, r
    <2>1. ASSUME NEW i \in 1 .. Len(q), q[i] = z PROVE Contains(r, z)
        <3>1. CASE i < p
            BY SMTT(30), <1>4, <1>6, <2>1, <3>1 DEF Contains
        <3>2. CASE i >= p
            <4>1. i + 1 \in 1 .. Len(q) + 1 /\ (i + 1) - 1 = i /\ i + 1 > p
                BY <1>4, <1>8, <3>2
            <4>2. r[i + 1] = q[i]
                BY SMTT(30), <1>6, <1>8, <4>1
            <4>3. QED
                BY <1>6, <2>1, <4>1, <4>2 DEF Contains
        <3>3. QED
            BY <1>4, <1>8, <3>1, <3>2
    <2>2. Contains(r, k)
        BY <1>4, <1>6, <1>8 DEF Contains
    <2>3. ASSUME NEW i \in 1 .. Len(r), r[i] = z, z # k PROVE Contains(q, z)
        BY <1>4, <1>6, <1>8, <2>3 DEF Contains
    <2>4. QED
        BY <2>1, <2>2, <2>3 DEF Contains
<1>10. ASSUME NEW z \in Ranges, NEW b \in Areas
       PROVE  Contains(V[b], z) <=> Q[z] # None /\ Q[z].area = b
    <2>1. Contains(U[b], z) <=> R[z] # None /\ R[z].area = b
        BY DEF Apart
    <2>2. CASE b = a
        BY <1>1, <1>2, <1>9, <2>1, <2>2
    <2>3. CASE b # a
        BY <1>1, <1>2, <1>5, <2>1, <2>3
    <2>4. QED
        BY <2>2, <2>3
<1>11. ASSUME NEW b \in Areas PROVE Sorted(Q, V[b])
    <2>1. CASE b = a
        <3>1. ASSUME NEW i \in 1 .. Len(r), NEW j \in 1 .. Len(r), i < j
              PROVE  Q[r[j]].pgend < Q[r[i]].pgstart
            <4> HIDE DEF q, r
            <4>1. CASE i = p
                <5>1. j - 1 \in p .. Len(q) /\ r[j] = q[j - 1] /\ r[i] = k /\ j - 1 \in 1 .. Len(q)
                    BY <1>4, <1>6, <1>8, <3>1, <4>1
                <5>2. QED
                    BY <1>1, <1>8, <5>1
            <4>2. CASE j = p
                <5>1. i \in 1 .. p - 1 /\ r[i] = q[i] /\ r[j] = k /\ i \in 1 .. Len(q)
                    BY <1>4, <1>6, <1>8, <3>1, <4>2
                <5>2. QED
                    BY <1>1, <1>8, <5>1
            <4>3. CASE i # p /\ j # p
                <5> DEFINE c == IF i < p THEN i ELSE i - 1
                           d == IF j < p THEN j ELSE j - 1
                <5>1. c \in 1 .. Len(q) /\ d \in 1 .. Len(q) /\ c < d /\ r[i] = q[c] /\ r[j] = q[d]
                    BY <1>4, <1>6, <1>8, <3>1, <4>3
                <5> HIDE DEF c, d
                <5>2. QED
                    BY SMTT(30), <1>1, <1>8, <5>1
            <4>4. QED
                BY <4>1, <4>2, <4>3
        <3>2. QED
            BY <2>1, <3>1 DEF Sorted
    <2>2. CASE b # a
        <3>1. \A i \in 1 .. Len(U[b]) : U[b][i] \in Ranges /\ U[b][i] # k
            BY Entries DEF AreaList
        <3>2. Sorted(R, U[b])
            BY DEF Apart
        <3>3. QED
            BY <1>1, <1>5, <2>2, <3>1, <3>2 DEF Sorted
    <2>3. QED
        BY <2>1, <2>2
<1>12. ASSUME NEW b \in Areas PROVE Once(V[b])
    <2>1. CASE b = a
        <3>1. ASSUME NEW i \in 1 .. Len(r), NEW j \in 1 .. Len(r), i < j PROVE r[i] # r[j]
            <4> HIDE DEF q, r
            <4>1. CASE i = p
                <5>1. r[j] = q[j - 1] /\ r[i] = k /\ j - 1 \in 1 .. Len(q)
                    BY <1>4, <1>6, <1>8, <3>1, <4>1
                <5>2. QED
                    BY <1>8, <5>1
            <4>2. CASE j = p
                <5>1. r[i] = q[i] /\ r[j] = k /\ i \in 1 .. Len(q)
                    BY <1>4, <1>6, <1>8, <3>1, <4>2
                <5>2. QED
                    BY <1>8, <5>1
            <4>3. CASE i # p /\ j # p
                <5> DEFINE c == IF i < p THEN i ELSE i - 1
                           d == IF j < p THEN j ELSE j - 1
                <5>1. c \in 1 .. Len(q) /\ d \in 1 .. Len(q) /\ c < d /\ r[i] = q[c] /\ r[j] = q[d]
                    BY <1>4, <1>6, <1>8, <3>1, <4>3
                <5> HIDE DEF c, d
                <5>2. QED
                    BY <1>4, <1>8, <5>1
            <4>4. QED
                BY <4>1, <4>2, <4>3
        <3>2. Len(r) \in Nat
            BY <1>4, <1>6
        <3>3. QED
            BY <2>1, <3>1, <3>2 DEF Once
    <2>2. CASE b # a
        BY <1>5, <2>2 DEF Apart
    <2>3. QED
        BY <2>1, <2>2
<1>13. QED
    BY <1>3, <1>7, <1>10, <1>11, <1>12 DEF Apart, Q, V

-----------------------------------------------------------------------------
(***************************************************************************)
(* The four operations on a range.                                         *)
(***************************************************************************)
Deleted(m, n, k) ==
    /\ Good(n) /\ n.range = [m.range EXCEPT ![k] = None]
    /\ n.unpinned = [m.unpinned EXCEPT ![m.range[k].area] = Unlink(@, k)]
    /\ Len(n.unpinned[m.range[k].area]) = Len(m.unpinned[m.range[k].area]) - 1

\* The range k with the interval s .. e, and the range after ashmem_shrink has taken it.
Cut(r, s, e) == [r EXCEPT !.pgstart = s, !.pgend = e]
Lost(r) == [r EXCEPT !.purged = TRUE]

(***************************************************************************)
(* The fields of a range.                                                  *)
(***************************************************************************)
LEMMA RecordTypes ==
    ASSUME NEW r \in RangeRecords
    PROVE  /\ r.area \in Areas /\ r.purged \in BOOLEAN /\ r.pgstart \in Starts /\ r.pgend \in Pages
           /\ r.pgstart \in Int /\ r.pgend \in Int
    BY SizesAssumption DEF RangeRecords, Pages, Starts

(***************************************************************************)
(* What range_shrink makes of a range: the bounds change and nothing else. *)
(***************************************************************************)
LEMMA CutFacts ==
    ASSUME NEW r \in RangeRecords, NEW s \in Starts, NEW e \in Pages
    PROVE  /\ Cut(r, s, e) \in RangeRecords /\ Cut(r, s, e).area = r.area
           /\ Cut(r, s, e).purged = r.purged /\ Cut(r, s, e).pgstart = s /\ Cut(r, s, e).pgend = e
<1>1. Cut(r, s, e) \in [area : Areas, pgstart : 0 .. MaxPages, pgend : Pages, purged : BOOLEAN]
    BY DEF Cut, RangeRecords, Starts
<1>2. /\ Cut(r, s, e).area = r.area
      /\ Cut(r, s, e).purged = r.purged /\ Cut(r, s, e).pgstart = s /\ Cut(r, s, e).pgend = e
    BY DEF Cut, RangeRecords
<1>3. QED
    BY <1>1, <1>2 DEF RangeRecords

(***************************************************************************)
(* What the shrinker makes of a range: the mark changes and nothing else.  *)
(***************************************************************************)
LEMMA LostFacts ==
    ASSUME NEW r \in RangeRecords
    PROVE  /\ Lost(r) \in RangeRecords /\ Lost(r).area = r.area /\ Lost(r).purged = TRUE
           /\ Lost(r).pgstart = r.pgstart /\ Lost(r).pgend = r.pgend
<1>1. Lost(r) \in [area : Areas, pgstart : 0 .. MaxPages, pgend : Pages, purged : BOOLEAN]
    BY DEF Lost, RangeRecords
<1>2. /\ Lost(r).area = r.area /\ Lost(r).purged = TRUE
      /\ Lost(r).pgstart = r.pgstart /\ Lost(r).pgend = r.pgend
    BY DEF Lost, RangeRecords
<1>3. QED
    BY <1>1, <1>2 DEF RangeRecords

(***************************************************************************)
(* range_del keeps the lists good, and takes its range off them.           *)
(***************************************************************************)
LEMMA DelFacts ==
    ASSUME NEW m, Good(m), NEW k \in Ranges, m.range[k] # None
    PROVE  Deleted(m, range_del(m, k), k)
<1> DEFINE R == m.range
           r == m.range[k]
           U == m.unpinned
           n == range_del(m, k)
           lru == IF r.purged THEN m.lru ELSE Unlink(m.lru, k)
           count == IF r.purged THEN m.count ELSE m.count - range_size(r)
<1>1. /\ n.range = [R EXCEPT ![k] = None] /\ n.unpinned = [U EXCEPT ![r.area] = Unlink(@, k)]
      /\ n.lru = lru /\ n.count = count
    BY DEF range_del, lru_del
<1>2. RangesOK(R) /\ Apart(R, U) /\ Listed(R, m.lru) /\ Counted(R, m.count) /\ R[k] # None
    BY DEF Good
<1>3. r \in RangeRecords /\ r.area \in Areas /\ r.purged \in BOOLEAN /\ r.pgstart <= r.pgend + 1
    BY <1>2, InList
<1>4. r.pgstart \in Int /\ r.pgend \in Int
    BY <1>3, SizesAssumption DEF RangeRecords, Pages
<1> HIDE DEF n, U, R
<1>5. /\ RangesOK(n.range) /\ Apart(n.range, n.unpinned)
      /\ Len(n.unpinned[r.area]) = Len(U[r.area]) - 1
    <2> DEFINE a == r.area
    <2>1. a \in Areas /\ a = R[k].area /\ n.unpinned = [U EXCEPT ![a] = Unlink(@, k)]
        BY <1>1, <1>3 DEF R
    <2> HIDE DEF a
    <2>2. Without(R, U, k, a)
        BY <1>2, <2>1, ApartDeleted
    <2>3. n.unpinned[a] = Unlink(U[a], k)
        BY <1>2, <2>1 DEF Apart
    <2>4. RangesOK(n.range) /\ Apart(n.range, n.unpinned) /\ Len(n.unpinned[a]) = Len(U[a]) - 1
        BY <1>1, <2>1, <2>2, <2>3 DEF Without
    <2>5. QED
        BY <2>4 DEF a
<1>6. Listed(n.range, lru)
    <2>1. CASE r.purged
        BY <1>1, <1>2, <2>1, LruStays DEF R
    <2>2. CASE ~r.purged
        BY <1>1, <1>2, <2>2, LruLeaves DEF R
    <2>3. QED
        BY <2>1, <2>2
<1>7. Counted(n.range, count)
    <2>1. Counted(n.range, m.count - Weight(r) + Weight(None)) /\ m.count \in Nat
        <3> DEFINE x == None
        <3>1. x \in RangeRecords \cup {None} /\ (x # None => x.pgstart <= x.pgend + 1)
            OBVIOUS
        <3> HIDE DEF x
        <3>2. Counted([R EXCEPT ![k] = x], m.count - Weight(R[k]) + Weight(x)) /\ m.count \in Nat
            BY <1>2, <3>1, CountChange
        <3>3. QED
            BY <1>1, <3>2 DEF R, x
    <2>2. Weight(None) = 0 /\ Weight(r) = IF r.purged THEN 0 ELSE range_size(r)
        BY <1>2 DEF Weight, R
    <2>3. range_size(r) \in Int
        BY <1>4 DEF range_size
    <2>4. m.count - Weight(r) + Weight(None) = count
        BY <2>1, <2>2, <2>3
    <2>5. QED
        BY <2>1, <2>4
<1>8. QED
    BY <1>1, <1>5, <1>6, <1>7 DEF Deleted, Good, R, U, n

ShrunkTo(m, n, k, x) ==
    /\ Good(n) /\ n.range = [m.range EXCEPT ![k] = x] /\ n.unpinned = m.unpinned

(***************************************************************************)
(* range_shrink keeps the lists good if the new bounds lie within the old  *)
(* ones.                                                                   *)
(***************************************************************************)
LEMMA ShrinkFacts ==
    ASSUME NEW m, Good(m), NEW k \in Ranges, m.range[k] # None, NEW s \in Starts, NEW e \in Pages,
           m.range[k].pgstart <= s, s <= e, e <= m.range[k].pgend
    PROVE  /\ ShrunkTo(m, range_shrink(m, k, s, e), k, Cut(m.range[k], s, e))
           /\ Cut(m.range[k], s, e) \in RangeRecords /\ Cut(m.range[k], s, e).area = m.range[k].area
           /\ Cut(m.range[k], s, e).purged = m.range[k].purged
           /\ Cut(m.range[k], s, e).pgstart = s /\ Cut(m.range[k], s, e).pgend = e
<1> DEFINE R == m.range
           r == m.range[k]
           x == Cut(r, s, e)
           n == range_shrink(m, k, s, e)
           count == IF x.purged THEN m.count ELSE m.count - (range_size(r) - range_size(x))
<1>1. n.range = [R EXCEPT ![k] = x] /\ n.unpinned = m.unpinned /\ n.lru = m.lru /\ n.count = count
    BY DEF range_shrink, Cut
<1>2. RangesOK(R) /\ Apart(R, m.unpinned) /\ Listed(R, m.lru) /\ Counted(R, m.count) /\ R[k] # None
    BY DEF Good
<1>3. r \in RangeRecords /\ r.purged \in BOOLEAN
    BY <1>2, InList
<1>4. /\ x \in RangeRecords /\ x.area = r.area /\ x.purged = r.purged /\ x.pgstart = s /\ x.pgend = e
      /\ r.pgstart \in Int /\ r.pgend \in Int /\ s \in Int /\ e \in Int
    <2>1. s \in Int /\ e \in Int
        BY SizesAssumption DEF Pages, Starts
    <2>2. /\ x \in RangeRecords /\ x.area = r.area /\ x.purged = r.purged
          /\ x.pgstart = s /\ x.pgend = e
        BY <1>3, CutFacts
    <2>3. QED
        BY <1>3, <2>1, <2>2, RecordTypes
<1>5. x # None
    BY <1>4, NoneAssumption
<1> HIDE DEF n, R, x
<1>6. RangesOK(n.range) /\ Apart(n.range, n.unpinned)
    BY <1>1, <1>2, <1>4, ApartShrinks DEF R
<1>7. Listed(n.range, m.lru)
    BY <1>1, <1>2, <1>4, <1>5, LruStays DEF R
<1>8. Counted(n.range, count)
    <2>1. Counted(n.range, m.count - Weight(r) + Weight(x)) /\ m.count \in Nat
        <3>1. x \in RangeRecords \cup {None} /\ (x # None => x.pgstart <= x.pgend + 1)
            BY <1>4
        <3>2. Counted([R EXCEPT ![k] = x], m.count - Weight(R[k]) + Weight(x)) /\ m.count \in Nat
            BY <1>2, <3>1, CountChange
        <3>3. QED
            BY <1>1, <3>2 DEF R
    <2>2. /\ Weight(x) = IF r.purged THEN 0 ELSE range_size(x)
          /\ Weight(r) = IF r.purged THEN 0 ELSE range_size(r)
        BY <1>2, <1>4, <1>5 DEF Weight, R
    <2>3. range_size(r) \in Int /\ range_size(x) \in Int
        BY <1>4 DEF range_size
    <2>4. m.count - Weight(r) + Weight(x) = count
        BY <1>4, <2>1, <2>2, <2>3
    <2>5. QED
        BY <2>1, <2>4
<1>9. QED
    BY <1>1, <1>4, <1>6, <1>7, <1>8 DEF ShrunkTo, Good, R, n, x

Allocated(m, n, x, p) ==
    /\ Good(n)
    /\ \E k \in Ranges : /\ m.range[k] = None /\ n.range = [m.range EXCEPT ![k] = x]
                         /\ n.unpinned = [m.unpinned EXCEPT ![x.area] = InsertAt(@, p, k)]

(***************************************************************************)
(* range_alloc keeps the lists good if the place it is given lies between  *)
(* the ranges after the new one and those before it.                       *)
(***************************************************************************)
LEMMA AllocFacts ==
    ASSUME NEW m, Good(m), Free(m) # {}, NEW x \in RangeRecords, x.pgstart <= x.pgend + 1,
           NEW p \in 1 .. Len(m.unpinned[x.area]) + 1,
           \A i \in 1 .. p - 1 : x.pgend < m.range[m.unpinned[x.area][i]].pgstart,
           \A i \in p .. Len(m.unpinned[x.area]) : m.range[m.unpinned[x.area][i]].pgend < x.pgstart
    PROVE  Allocated(m, range_alloc(m, p, x), x, p)
<1> DEFINE R == m.range
           U == m.unpinned
           k == CHOOSE z \in Free(m) : TRUE
           n == range_alloc(m, p, x)
           lru == IF x.purged THEN m.lru ELSE Append(m.lru, k)
           count == IF x.purged THEN m.count ELSE m.count + range_size(x)
<1>1. k \in Ranges /\ R[k] = None
    BY DEF Free
<1>2. /\ n.range = [R EXCEPT ![k] = x] /\ n.unpinned = [U EXCEPT ![x.area] = InsertAt(@, p, k)]
      /\ n.lru = lru /\ n.count = count
    BY DEF range_alloc
<1>3. RangesOK(R) /\ Apart(R, U) /\ Listed(R, m.lru) /\ Counted(R, m.count)
    BY DEF Good
<1>4. /\ x.area \in Areas /\ x.purged \in BOOLEAN /\ x # None
      /\ x.pgstart \in Int /\ x.pgend \in Int
    BY NoneAssumption, SizesAssumption DEF RangeRecords, Pages
<1>5. /\ p \in 1 .. Len(U[x.area]) + 1
      /\ \A i \in 1 .. p - 1 : x.pgend < R[U[x.area][i]].pgstart
      /\ \A i \in p .. Len(U[x.area]) : R[U[x.area][i]].pgend < x.pgstart
    OBVIOUS
<1> HIDE DEF n, U, R, k
<1>6. RangesOK(n.range) /\ Apart(n.range, n.unpinned)
    <2> DEFINE a == x.area
    <2>1. /\ a \in Areas /\ a = x.area /\ p \in 1 .. Len(U[a]) + 1
          /\ \A i \in 1 .. p - 1 : x.pgend < R[U[a][i]].pgstart
          /\ \A i \in p .. Len(U[a]) : R[U[a][i]].pgend < x.pgstart
          /\ n.unpinned = [U EXCEPT ![a] = InsertAt(U[a], p, k)]
        BY <1>2, <1>4, <1>5
    <2> HIDE DEF a
    <2>2. /\ RangesOK([R EXCEPT ![k] = x])
          /\ Apart([R EXCEPT ![k] = x], [U EXCEPT ![a] = InsertAt(U[a], p, k)])
        BY <1>1, <1>3, <2>1, ApartInserted
    <2>3. QED
        BY <1>2, <2>1, <2>2
<1>7. Listed(n.range, lru)
    <2>1. CASE x.purged
        BY <1>1, <1>2, <1>3, <2>1, LruStays
    <2>2. CASE ~x.purged
        BY <1>1, <1>2, <1>3, <1>4, <2>2, LruJoins
    <2>3. QED
        BY <2>1, <2>2
<1>8. Counted(n.range, count)
    <2>1. Counted(n.range, m.count - Weight(R[k]) + Weight(x)) /\ m.count \in Nat
        <3>1. x \in RangeRecords \cup {None} /\ (x # None => x.pgstart <= x.pgend + 1)
            OBVIOUS
        <3>2. Counted([R EXCEPT ![k] = x], m.count - Weight(R[k]) + Weight(x)) /\ m.count \in Nat
            BY <1>1, <1>3, <3>1, CountChange
        <3>3. QED
            BY <1>2, <3>2
    <2>2. Weight(R[k]) = 0 /\ Weight(x) = IF x.purged THEN 0 ELSE range_size(x)
        BY <1>1, <1>4 DEF Weight
    <2>3. range_size(x) \in Int
        BY <1>4 DEF range_size
    <2>4. m.count - Weight(R[k]) + Weight(x) = count
        BY <2>1, <2>2, <2>3
    <2>5. QED
        BY <2>1, <2>4
<1>9. Good(n)
    BY <1>2, <1>6, <1>7, <1>8 DEF Good
<1>10. QED
    BY <1>1, <1>2, <1>9 DEF Allocated, R, U, n

(***************************************************************************)
(* Purging a range keeps the lists good: it leaves the LRU list with its   *)
(* pages and stays in the list of its area.                                *)
(***************************************************************************)
LEMMA PurgeFacts ==
    ASSUME NEW m, Good(m), NEW k \in Ranges, m.range[k] # None, ~m.range[k].purged
    PROVE  /\ Good(Purged(m, k)) /\ Purged(m, k).range = [m.range EXCEPT ![k] = Lost(m.range[k])]
           /\ Purged(m, k).unpinned = m.unpinned
<1> DEFINE R == m.range
           r == m.range[k]
           x == Lost(r)
           n == Purged(m, k)
<1>1. /\ n.range = [R EXCEPT ![k] = x] /\ n.unpinned = m.unpinned
      /\ n.lru = Unlink(m.lru, k) /\ n.count = m.count - range_size(r)
    BY DEF Purged, lru_del, Lost
<1>2. RangesOK(R) /\ Apart(R, m.unpinned) /\ Listed(R, m.lru) /\ Counted(R, m.count)
      /\ R[k] # None /\ ~R[k].purged
    BY DEF Good
<1>3. r \in RangeRecords /\ r.purged \in BOOLEAN /\ r.pgstart <= r.pgend + 1
    BY <1>2, InList
<1>4. /\ x \in RangeRecords /\ x.area = r.area /\ x.purged
      /\ x.pgstart = r.pgstart /\ x.pgend = r.pgend /\ r.pgstart \in Int /\ r.pgend \in Int
    BY <1>3, RecordTypes, LostFacts
<1>5. x # None
    BY <1>4, NoneAssumption
<1> HIDE DEF n, R, x
<1>6. RangesOK(n.range) /\ Apart(n.range, n.unpinned)
    <2>1. R[k].pgstart <= x.pgstart /\ x.pgend <= R[k].pgend /\ x.pgstart <= x.pgend + 1
        BY <1>3, <1>4 DEF R
    <2>2. x.area = R[k].area
        BY <1>4 DEF R
    <2>3. QED
        BY <1>1, <1>2, <1>4, <2>1, <2>2, ApartShrinks
<1>7. Listed(n.range, n.lru)
    BY <1>1, <1>2, <1>4, LruLeaves
<1>8. Counted(n.range, n.count)
    <2>1. Counted(n.range, m.count - Weight(r) + Weight(x)) /\ m.count \in Nat
        <3>1. x \in RangeRecords \cup {None} /\ (x # None => x.pgstart <= x.pgend + 1)
            BY <1>3, <1>4
        <3>2. Counted([R EXCEPT ![k] = x], m.count - Weight(R[k]) + Weight(x)) /\ m.count \in Nat
            BY <1>2, <3>1, CountChange
        <3>3. QED
            BY <1>1, <3>2 DEF R
    <2>2. Weight(x) = 0 /\ Weight(r) = range_size(r)
        BY <1>2, <1>4 DEF Weight, R
    <2>3. range_size(r) \in Int
        BY <1>4 DEF range_size
    <2>4. m.count - Weight(r) + Weight(x) = n.count
        BY <1>1, <2>1, <2>2, <2>3
    <2>5. QED
        BY <2>1, <2>4
<1>9. QED
    BY <1>1, <1>6, <1>7, <1>8 DEF Good, R, n, x

-----------------------------------------------------------------------------
(***************************************************************************)
(* The pages of the ranges of a kind, and the ends of the empty ones.  The *)
(* ranges of an area, and those of them that are purged, are two kinds.    *)
(***************************************************************************)
PagesOf(R, S) == {p \in Pages : \E k \in Ranges : R[k] \in S /\ page_in_range(R[k], p)}

Empty(r) == r.pgend < r.pgstart

EndsOf(R, S) == {p \in Pages : \E k \in Ranges : R[k] \in S /\ Empty(R[k]) /\ R[k].pgend = p}

OfArea(a) == {r \in RangeRecords : r.area = a}
PurgedOf(a) == {r \in OfArea(a) : r.purged}

Kind(S, a) ==
    /\ S \subseteq OfArea(a)
    /\ \A x, y \in OfArea(a) : (x.purged <=> y.purged) => (x \in S <=> y \in S)

\* What a call for area a leaves alone.
Elsewhere(Q, R, a) == \A S : S \subseteq RangeRecords /\ S \cap OfArea(a) = {} =>
                               PagesOf(Q, S) = PagesOf(R, S) /\ EndsOf(Q, S) = EndsOf(R, S)

\* The ranges of Q that are empty are those of R, or some of them.
NoNewEmpty(R, Q) == \A k \in Ranges : Q[k] # None /\ Empty(Q[k]) => Q[k] = R[k]

(***************************************************************************)
(* All ranges of an area, and those that are purged, are kinds.            *)
(***************************************************************************)
LEMMA Kinds ==
    ASSUME NEW a
    PROVE  Kind(OfArea(a), a) /\ Kind(PurgedOf(a), a)
BY DEF Kind, PurgedOf

\* Two ranges of an area have no page in common.
LEMMA Disjoint ==
    ASSUME NEW R, RangesOK(R), NEW U, Apart(R, U), NEW a, NEW p \in Pages,
           NEW k \in Ranges, R[k] \in OfArea(a), page_in_range(R[k], p),
           NEW l \in Ranges, R[l] \in OfArea(a), page_in_range(R[l], p)
    PROVE  k = l
<1>1. R[k] # None /\ R[l] # None /\ R[k].area = a /\ R[l].area = a /\ p \in Int
    BY NoneAssumption, SizesAssumption DEF OfArea, Pages
<1>2. /\ a \in Areas /\ R[k] \in RangeRecords /\ R[l] \in RangeRecords
      /\ (\E i \in 1 .. Len(U[a]) : U[a][i] = k) /\ \E i \in 1 .. Len(U[a]) : U[a][i] = l
    BY <1>1, InList
<1>3. PICK i \in 1 .. Len(U[a]), j \in 1 .. Len(U[a]) : U[a][i] = k /\ U[a][j] = l
    BY <1>2
<1>4. /\ Len(U[a]) \in Nat
      /\ R[k].pgstart <= p /\ p <= R[k].pgend /\ R[l].pgstart <= p /\ p <= R[l].pgend
      /\ R[k].pgstart \in Int /\ R[k].pgend \in Int /\ R[l].pgstart \in Int /\ R[l].pgend \in Int
    BY <1>1, <1>2, RecordTypes, Entries DEF page_in_range, AreaList
<1>5. (i < j => R[l].pgend < R[k].pgstart) /\ (j < i => R[k].pgend < R[l].pgstart)
    BY <1>2, <1>3, Entries DEF AreaList
<1>6. ~(i < j) /\ ~(j < i)
    BY <1>1, <1>4, <1>5
<1>7. i \in Int /\ j \in Int
    BY <1>4
<1>8. i = j
    BY <1>6, <1>7
<1>9. QED
    BY <1>3, <1>8

\* One range shrinks, to x, which nobody else looks into.
LEMMA PagesShrink ==
    ASSUME NEW R, RangesOK(R), NEW U, Apart(R, U), NEW a, NEW k \in Ranges, R[k] \in OfArea(a),
           NEW x \in OfArea(a), x.purged <=> R[k].purged,
           \A p \in Pages : page_in_range(x, p) => page_in_range(R[k], p)
    PROVE  /\ \A S : Kind(S, a) => \A p \in Pages :
                 p \in PagesOf([R EXCEPT ![k] = x], S)
                 <=> p \in PagesOf(R, S) /\ (page_in_range(R[k], p) => page_in_range(x, p))
           /\ Elsewhere([R EXCEPT ![k] = x], R, a)
<1> DEFINE Q == [R EXCEPT ![k] = x]
<1>1. \A z \in Ranges : Q[z] = IF z = k THEN x ELSE R[z]
    BY DEF RangesOK
<1> HIDE DEF Q
<1>2. ASSUME NEW S, Kind(S, a), NEW p \in Pages
      PROVE  p \in PagesOf(Q, S) <=>
               p \in PagesOf(R, S) /\ (page_in_range(R[k], p) => page_in_range(x, p))
    <2>1. S \subseteq OfArea(a) /\ (x \in S <=> R[k] \in S)
        BY <1>2 DEF Kind
    <2>2. ASSUME p \in PagesOf(Q, S)
          PROVE  p \in PagesOf(R, S) /\ (page_in_range(R[k], p) => page_in_range(x, p))
        <3>1. PICK l \in Ranges : Q[l] \in S /\ page_in_range(Q[l], p)
            BY <2>2 DEF PagesOf
        <3>2. CASE l = k
            BY <1>1, <2>1, <3>1, <3>2 DEF PagesOf
        <3>3. CASE l # k
            <4>1. R[l] \in S /\ R[l] \in OfArea(a) /\ page_in_range(R[l], p)
                BY <1>1, <2>1, <3>1, <3>3
            <4>2. ~page_in_range(R[k], p)
                BY <3>3, <4>1, Disjoint
            <4>3. QED
                BY <4>1, <4>2 DEF PagesOf
        <3>4. QED
            BY <3>2, <3>3
    <2>3. ASSUME p \in PagesOf(R, S), page_in_range(R[k], p) => page_in_range(x, p)
          PROVE  p \in PagesOf(Q, S)
        <3>1. PICK l \in Ranges : R[l] \in S /\ page_in_range(R[l], p)
            BY <2>3 DEF PagesOf
        <3>2. Q[l] \in S /\ page_in_range(Q[l], p)
            BY <1>1, <2>1, <2>3, <3>1
        <3>3. QED
            BY <3>2 DEF PagesOf
    <2>4. QED
        BY <2>2, <2>3
<1>3. Elsewhere(Q, R, a)
    BY <1>1 DEF Elsewhere, PagesOf, EndsOf
<1>4. QED
    BY <1>2, <1>3 DEF Q

\* A range is deleted.
LEMMA PagesDelete ==
    ASSUME NEW R, RangesOK(R), NEW U, Apart(R, U), NEW a, NEW k \in Ranges, R[k] \in OfArea(a)
    PROVE  /\ \A S : Kind(S, a) => \A p \in Pages :
                 p \in PagesOf([R EXCEPT ![k] = None], S) <=> p \in PagesOf(R, S) /\
                   ~page_in_range(R[k], p)
           /\ Elsewhere([R EXCEPT ![k] = None], R, a)
<1> DEFINE Q == [R EXCEPT ![k] = None]
<1>1. \A z \in Ranges : Q[z] = IF z = k THEN None ELSE R[z]
    BY DEF RangesOK
<1> HIDE DEF Q
<1>2. ASSUME NEW S, Kind(S, a), NEW p \in Pages
      PROVE  p \in PagesOf(Q, S) <=> p \in PagesOf(R, S) /\ ~page_in_range(R[k], p)
    <2>1. S \subseteq OfArea(a) /\ None \notin S
        BY <1>2, NoneAssumption DEF Kind, OfArea
    <2>2. ASSUME p \in PagesOf(Q, S)
          PROVE  p \in PagesOf(R, S) /\ ~page_in_range(R[k], p)
        <3>1. PICK l \in Ranges : Q[l] \in S /\ page_in_range(Q[l], p)
            BY <2>2 DEF PagesOf
        <3>2. l # k /\ R[l] \in S /\ R[l] \in OfArea(a) /\ page_in_range(R[l], p)
            BY <1>1, <2>1, <3>1
        <3>3. ~page_in_range(R[k], p)
            BY <3>2, Disjoint
        <3>4. QED
            BY <3>2, <3>3 DEF PagesOf
    <2>3. ASSUME p \in PagesOf(R, S), ~page_in_range(R[k], p)
          PROVE  p \in PagesOf(Q, S)
        BY <1>1, <2>3 DEF PagesOf
    <2>4. QED
        BY <2>2, <2>3
<1>3. Elsewhere(Q, R, a)
    BY <1>1, NoneAssumption DEF Elsewhere, PagesOf, EndsOf
<1>4. QED
    BY <1>2, <1>3 DEF Q

\* A range is allocated.
LEMMA PagesAlloc ==
    ASSUME NEW R, RangesOK(R), NEW a, NEW k \in Ranges, R[k] = None, NEW x \in OfArea(a)
    PROVE  /\ \A S : Kind(S, a) => \A p \in Pages :
                 p \in PagesOf([R EXCEPT ![k] = x], S)
                 <=> p \in PagesOf(R, S) \/ (x \in S /\ page_in_range(x, p))
           /\ Elsewhere([R EXCEPT ![k] = x], R, a)
<1> DEFINE Q == [R EXCEPT ![k] = x]
<1>1. \A z \in Ranges : Q[z] = IF z = k THEN x ELSE R[z]
    BY DEF RangesOK
<1> HIDE DEF Q
<1>2. ASSUME NEW S, Kind(S, a), NEW p \in Pages
      PROVE  p \in PagesOf(Q, S) <=> p \in PagesOf(R, S) \/ (x \in S /\ page_in_range(x, p))
    <2>1. None \notin S
        BY <1>2, NoneAssumption DEF Kind, OfArea
    <2>2. QED
        BY <1>1, <2>1 DEF PagesOf
<1>3. Elsewhere(Q, R, a)
    BY <1>1, NoneAssumption DEF Elsewhere, PagesOf, EndsOf
<1>4. QED
    BY <1>2, <1>3 DEF Q

(***************************************************************************)
(* What two steps leave alone, both together leave alone.                  *)
(***************************************************************************)
LEMMA ElsewhereTrans ==
    ASSUME NEW P, NEW Q, NEW R, NEW a, Elsewhere(P, Q, a), Elsewhere(Q, R, a)
    PROVE  Elsewhere(P, R, a)
BY DEF Elsewhere

(***************************************************************************)
(* One range is deleted or becomes one that is not empty: no range became  *)
(* empty.                                                                  *)
(***************************************************************************)
LEMMA NoneEmptied ==
    ASSUME NEW R, RangesOK(R), NEW k \in Ranges, NEW x, x # None => ~Empty(x)
    PROVE  NoNewEmpty(R, [R EXCEPT ![k] = x])
BY DEF NoNewEmpty, RangesOK

(***************************************************************************)
(* No range becomes empty in two steps in which none does.                 *)
(***************************************************************************)
LEMMA NoNewEmptyTrans ==
    ASSUME NEW P, NEW Q, NEW R, NoNewEmpty(P, Q), NoNewEmpty(Q, R)
    PROVE  NoNewEmpty(P, R)
BY DEF NoNewEmpty

-----------------------------------------------------------------------------
(***************************************************************************)
(* ashmem_pin meets a range: the pages that the range and the interval     *)
(* have in common are no longer unpinned.                                  *)
(***************************************************************************)
InHole(r, s, e) == r.pgstart < s /\ r.pgend > e

Meets(m, n, a, k, s, e) ==
    \A S : Kind(S, a) => \A p \in Pages :
        p \in PagesOf(n.range, S) <=> p \in PagesOf(m.range, S) /\
          ~(page_in_range(m.range[k], p) /\ p \in s .. e)

Pinned(m, n, a, k, s, e) ==
    /\ Good(n) /\ Elsewhere(n.range, m.range, a) /\ Meets(m, n, a, k, s, e)
    /\ NoNewEmpty(m.range, n.range) /\ (Empty(m.range[k]) => n.range[k] # m.range[k])
    /\ InHole(m.range[k], s, e) \/ \A l \in Ranges : l # k => n.range[l] = m.range[l]

\* The part of a range after the interval.
LEMMA TailFacts ==
    ASSUME NEW r \in RangeRecords, NEW s \in Starts, NEW x, x = [r EXCEPT !.pgstart = s]
    PROVE  /\ x \in RangeRecords /\ x.area = r.area /\ x.purged = r.purged
           /\ x.pgstart = s /\ x.pgend = r.pgend
<1>1. x \in [area : Areas, pgstart : 0 .. MaxPages, pgend : Pages, purged : BOOLEAN]
    BY DEF RangeRecords, Starts
<1>2. x.area = r.area /\ x.purged = r.purged /\ x.pgstart = s /\ x.pgend = r.pgend
    BY DEF RangeRecords
<1>3. QED
    BY <1>1, <1>2 DEF RangeRecords

\* The pages between two pages of an area are pages.
LEMMA PageBounds ==
    /\ \A p \in Starts : p \in Int
    /\ \A p \in Pages : p \in Int /\ p \in Starts
    /\ \A p \in Starts, q \in Pages : p <= q => p \in Pages
    /\ \A p \in Starts, q \in Pages : p < q => p + 1 \in Pages /\ p + 1 \in Starts
    /\ \A p \in Starts, q \in Starts : p < q => p \in Pages /\ q - 1 \in Pages
BY SizesAssumption DEF Pages, Starts

(***************************************************************************)
(* Case 1 of ashmem_pin, the range is deleted: of its pages the interval's *)
(* are gone.                                                               *)
(***************************************************************************)
LEMMA PinDeletes ==
    ASSUME NEW m, Good(m), NEW a, NEW k \in Ranges, m.range[k] \in OfArea(a),
           NEW s \in Starts, NEW e \in Pages, subsumes(m.range[k], s, e)
    PROVE  Pinned(m, range_del(m, k), a, k, s, e)
<1> DEFINE R == m.range
           n == range_del(m, k)
<1>1. R[k] \in RangeRecords /\ R[k] # None /\ R[k].area = a
    BY NoneAssumption DEF OfArea
<1>2. Good(n) /\ n.range = [R EXCEPT ![k] = None]
    BY <1>1, DelFacts DEF Deleted
<1>3. RangesOK(R) /\ Apart(R, m.unpinned)
    BY DEF Good
<1>4. R[k].pgstart >= s /\ R[k].pgend <= e /\ R[k].pgstart \in Int /\ R[k].pgend \in Int
    BY <1>1, RecordTypes DEF subsumes
<1> HIDE DEF n, R
<1>5. /\ \A S : Kind(S, a) => \A p \in Pages :
            p \in PagesOf(n.range, S) <=> p \in PagesOf(R, S) /\ ~page_in_range(R[k], p)
      /\ Elsewhere(n.range, R, a)
    BY <1>2, <1>3, PagesDelete DEF R
<1>6. \A p \in Pages : page_in_range(R[k], p) <=> page_in_range(R[k], p) /\ p \in s .. e
    BY <1>4, PageBounds DEF page_in_range
<1>7. \A l \in Ranges : l # k => n.range[l] = R[l]
    BY <1>2, <1>3 DEF RangesOK
<1>8. Meets(m, n, a, k, s, e)
    BY <1>5, <1>6 DEF Meets, R
<1>9. n.range[k] = None
    BY <1>2, <1>3 DEF RangesOK
<1>10. NoNewEmpty(R, n.range)
    BY <1>7, <1>9 DEF NoNewEmpty
<1>11. QED
    BY <1>1, <1>2, <1>5, <1>7, <1>8, <1>9, <1>10 DEF Pinned, n, R

(***************************************************************************)
(* What range_shrink does to the pages of each kind: those of the range    *)
(* outside its new bounds leave.                                           *)
(***************************************************************************)
LEMMA PinCuts ==
    ASSUME NEW m, Good(m), NEW a, NEW k \in Ranges, m.range[k] \in OfArea(a),
           NEW f \in Starts, NEW t \in Pages, f <= t,
           m.range[k].pgstart <= f, t <= m.range[k].pgend
    PROVE  LET n == range_shrink(m, k, f, t)
           IN  /\ ShrunkTo(m, n, k, Cut(m.range[k], f, t)) /\ Elsewhere(n.range, m.range, a)
               /\ NoNewEmpty(m.range, n.range) /\ ~Empty(m.range[k])
               /\ \A S : Kind(S, a) => \A p \in Pages :
                     p \in PagesOf(n.range, S)
                     <=> p \in PagesOf(m.range, S) /\ (page_in_range(m.range[k], p) => p \in f .. t)
<1> DEFINE R == m.range
           n == range_shrink(m, k, f, t)
           x == Cut(R[k], f, t)
<1>1. R[k] \in RangeRecords /\ R[k] # None /\ R[k].area = a
    BY NoneAssumption DEF OfArea
<1>2. ShrunkTo(m, n, k, x) /\ x \in RangeRecords /\ x.area = a /\ x.purged = R[k].purged
      /\ x.pgstart = f /\ x.pgend = t
    BY <1>1, ShrinkFacts
<1>3. RangesOK(R) /\ Apart(R, m.unpinned)
    BY DEF Good
<1>4. R[k].pgstart \in Int /\ R[k].pgend \in Int /\ f \in Int /\ t \in Int
      /\ R[k].pgstart <= f /\ t <= R[k].pgend
    BY <1>1, RecordTypes, PageBounds
<1>5. n.range = [R EXCEPT ![k] = x]
    BY <1>2 DEF ShrunkTo
<1>6. R[k] \in OfArea(a)
    OBVIOUS
<1> HIDE DEF n, R, x
<1>7. \A p \in Pages : page_in_range(x, p) <=> p \in f .. t
    BY <1>2, <1>4, PageBounds DEF page_in_range
<1>8. \A p \in Pages : page_in_range(x, p) => page_in_range(R[k], p)
    BY <1>2, <1>4, PageBounds DEF page_in_range
<1>9. x \in OfArea(a) /\ (x.purged <=> R[k].purged)
    BY <1>2 DEF OfArea
<1>10. /\ \A S : Kind(S, a) => \A p \in Pages :
             p \in PagesOf([R EXCEPT ![k] = x], S)
             <=> p \in PagesOf(R, S) /\ (page_in_range(R[k], p) => page_in_range(x, p))
       /\ Elsewhere([R EXCEPT ![k] = x], R, a)
    BY <1>3, <1>6, <1>8, <1>9, PagesShrink
<1>11. ~Empty(x) /\ ~Empty(R[k])
    BY <1>2, <1>4 DEF Empty
<1>12. NoNewEmpty(R, n.range)
    BY <1>3, <1>5, <1>11, NoneEmptied
<1>13. QED
    BY <1>2, <1>5, <1>7, <1>10, <1>11, <1>12 DEF R, n, x

(***************************************************************************)
(* Cases 2 and 3 of ashmem_pin, the range loses its start or its end: of   *)
(* its pages the interval's are gone.                                      *)
(***************************************************************************)
LEMMA PinShrinks ==
    ASSUME NEW m, Good(m), NEW a, NEW k \in Ranges, m.range[k] \in OfArea(a),
           NEW s \in Starts, NEW e \in Pages, s <= e + 1,
           NEW f \in Starts, NEW t \in Pages, f <= t,
           \/ f = e + 1 /\ t = m.range[k].pgend /\ s <= m.range[k].pgstart /\ m.range[k].pgstart <= f
           \/ f = m.range[k].pgstart /\ t = s - 1 /\ s <= m.range[k].pgend /\ m.range[k].pgend <= e
    PROVE  Pinned(m, range_shrink(m, k, f, t), a, k, s, e)
<1> DEFINE R == m.range
           n == range_shrink(m, k, f, t)
<1>1. R[k] \in RangeRecords /\ R[k].pgstart \in Int /\ R[k].pgend \in Int
      /\ s \in Int /\ e \in Int /\ f \in Int /\ t \in Int
    BY RecordTypes, PageBounds DEF OfArea
<1>2. R[k].pgstart <= f /\ t <= R[k].pgend
    BY <1>1
<1>3. /\ Good(n) /\ n.range = [R EXCEPT ![k] = Cut(R[k], f, t)] /\ Elsewhere(n.range, R, a)
      /\ NoNewEmpty(R, n.range) /\ ~Empty(R[k])
      /\ \A S : Kind(S, a) => \A p \in Pages :
            p \in PagesOf(n.range, S) <=> p \in PagesOf(R, S) /\ (page_in_range(R[k], p) => p \in f .. t)
    BY <1>2, PinCuts DEF ShrunkTo
<1>4. ASSUME NEW p \in Pages, page_in_range(R[k], p)
      PROVE  p \in f .. t <=> ~(p \in s .. e)
    <2>1. p \in Int /\ R[k].pgstart <= p /\ p <= R[k].pgend
        BY <1>1, <1>4, PageBounds DEF page_in_range
    <2>2. CASE f = e + 1 /\ t = R[k].pgend /\ s <= R[k].pgstart /\ R[k].pgstart <= f
        BY <1>1, <2>1, <2>2
    <2>3. CASE f = R[k].pgstart /\ t = s - 1 /\ s <= R[k].pgend /\ R[k].pgend <= e
        BY <1>1, <2>1, <2>3
    <2>4. QED
        BY <2>2, <2>3
<1> HIDE DEF n, R
<1>5. \A l \in Ranges : l # k => n.range[l] = R[l]
    BY <1>3 DEF R, Good, RangesOK
<1>6. Meets(m, n, a, k, s, e)
    BY <1>3, <1>4 DEF Meets, R
<1>7. QED
    BY <1>3, <1>5, <1>6 DEF Pinned, R, n

\* The interval lies inside the range: one more range is needed.
LEMMA PinSplits ==
    ASSUME NEW m, Good(m), Free(m) # {}, NEW a, NEW k \in Ranges, m.range[k] \in OfArea(a),
           NEW s \in Starts, NEW e \in Pages, s <= e + 1, InHole(m.range[k], s, e)
    PROVE  Pinned(m, range_alloc(range_shrink(m, k, m.range[k].pgstart, s - 1),
                                 Position(m, m.range[k].area, k),
                                 [m.range[k] EXCEPT !.pgstart = e + 1]), a, k, s, e)
<1> DEFINE R == m.range
           r == R[k]
           q == m.unpinned[a]
           first == range_shrink(m, k, r.pgstart, s - 1)
           p == Position(m, r.area, k)
           y == [r EXCEPT !.pgstart = e + 1]
           n == range_alloc(first, p, y)
<1>1. r \in RangeRecords /\ r # None /\ r.area = a
    BY NoneAssumption DEF OfArea
<1>2. /\ r.pgstart < s /\ r.pgend > e /\ a \in Areas /\ r.pgstart \in Pages /\ r.pgend \in Pages
      /\ s \in Int /\ e \in Int /\ r.pgstart \in Int /\ r.pgend \in Int
    BY <1>1, RecordTypes, PageBounds DEF InHole
<1>3. s - 1 \in Pages /\ e + 1 \in Starts /\ r.pgstart <= s - 1 /\ e + 1 <= r.pgend /\ s - 1 <= r.pgend
    BY <1>2, PageBounds
<1>4. /\ ShrunkTo(m, first, k, Cut(r, r.pgstart, s - 1)) /\ Elsewhere(first.range, R, a)
      /\ NoNewEmpty(R, first.range) /\ ~Empty(r)
      /\ \A S : Kind(S, a) => \A z \in Pages :
            z \in PagesOf(first.range, S)
            <=> z \in PagesOf(R, S) /\ (page_in_range(r, z) => z \in r.pgstart .. s - 1)
    <2> DEFINE f == r.pgstart
               t == s - 1
    <2>1. f \in Starts /\ t \in Pages /\ f <= t /\ r.pgstart <= f /\ t <= r.pgend
        BY <1>2, <1>3, PageBounds
    <2> HIDE DEF f, t
    <2>2. LET x == range_shrink(m, k, f, t)
          IN  /\ ShrunkTo(m, x, k, Cut(r, f, t)) /\ Elsewhere(x.range, R, a)
              /\ NoNewEmpty(R, x.range) /\ ~Empty(r)
              /\ \A S : Kind(S, a) => \A z \in Pages :
                    z \in PagesOf(x.range, S)
                    <=> z \in PagesOf(R, S) /\ (page_in_range(r, z) => z \in f .. t)
        BY <2>1, PinCuts
    <2>3. QED
        BY <2>2 DEF f, t
<1>5. Good(first) /\ first.range = [R EXCEPT ![k] = Cut(r, r.pgstart, s - 1)] /\
        first.unpinned = m.unpinned
    BY <1>4 DEF ShrunkTo
<1>6. /\ Cut(r, r.pgstart, s - 1) \in RangeRecords /\ Cut(r, r.pgstart, s - 1).pgend = s - 1
      /\ Cut(r, r.pgstart, s - 1) # None
    <2> DEFINE f == r.pgstart
               t == s - 1
    <2>1. f \in Starts /\ t \in Pages
        BY <1>2, <1>3, PageBounds
    <2> HIDE DEF f, t, r
    <2>2. Cut(r, f, t) \in RangeRecords /\ Cut(r, f, t).pgend = t
        BY <1>1, <2>1, CutFacts
    <2>3. QED
        BY <2>2, NoneAssumption DEF f, t
<1>7. y \in RangeRecords /\ y.area = a /\ y.purged = r.purged /\ y.pgstart = e + 1 /\ y.pgend = r.pgend
    BY <1>1, <1>3, TailFacts
<1>8. RangesOK(R) /\ Apart(R, m.unpinned)
    BY DEF Good
<1>9. p \in 1 .. Len(q) /\ q[p] = k
    <2>1. \E i \in 1 .. Len(q) : q[i] = k
        BY <1>1, <1>8, InList
    <2>2. QED
        BY <1>1, <2>1 DEF Position
<1>10. \A z \in Ranges : first.range[z] = IF z = k THEN Cut(r, r.pgstart, s - 1) ELSE R[z]
    BY <1>5, <1>8 DEF RangesOK
<1>11. Free(first) # {}
    BY <1>1, <1>6, <1>10 DEF Free
<1>12. r = R[k]
    OBVIOUS
<1>13. n = range_alloc(first, p, y)
    OBVIOUS
<1> HIDE DEF first, p, y, n, r, q, R
<1>14. AreaList(R, q, a)
    BY <1>2, <1>8, Entries DEF q
<1>15. p \in 1 .. Len(first.unpinned[y.area]) + 1
    BY <1>5, <1>7, <1>9, <1>14 DEF q, AreaList
<1>16. \A i \in 1 .. p - 1 : y.pgend < first.range[first.unpinned[y.area][i]].pgstart
    <2>1. ASSUME NEW i \in 1 .. p - 1 PROVE y.pgend < first.range[q[i]].pgstart
        <3>1. i \in 1 .. Len(q) /\ i < p /\ i # p
            BY <1>9, <1>14 DEF AreaList
        <3>2. q[i] \in Ranges /\ q[i] # k /\ R[k].pgend < R[q[i]].pgstart
            BY <1>9, <1>14, <3>1 DEF AreaList
        <3>3. QED
            BY <1>7, <1>10, <1>12, <3>2
    <2>2. QED
        BY <1>5, <1>7, <2>1 DEF q
<1>17. \A i \in p .. Len(first.unpinned[y.area]) :
           first.range[first.unpinned[y.area][i]].pgend < y.pgstart
    <2>1. ASSUME NEW i \in p .. Len(q) PROVE first.range[q[i]].pgend < e + 1
        <3>1. i \in 1 .. Len(q) /\ q[i] \in Ranges /\ R[q[i]].pgend \in Int
            BY <1>9, <1>14 DEF AreaList
        <3>2. CASE q[i] = k
            BY <1>2, <1>3, <1>6, <1>10, <3>2
        <3>3. CASE q[i] # k
            <4>1. p < i
                BY <1>9, <1>14, <3>3 DEF AreaList
            <4>2. R[q[i]].pgend < R[k].pgstart
                BY <1>9, <1>14, <3>1, <4>1 DEF AreaList
            <4>3. QED
                BY <1>2, <1>10, <1>12, <3>1, <3>3, <4>2
        <3>4. QED
            BY <3>2, <3>3
    <2>2. QED
        BY <1>5, <1>7, <2>1 DEF q
<1>18. y.pgstart <= y.pgend + 1 /\ ~Empty(y)
    BY <1>2, <1>3, <1>7 DEF Empty
<1>19. Allocated(first, n, y, p)
    BY <1>5, <1>7, <1>11, <1>13, <1>15, <1>16, <1>17, <1>18, AllocFacts
<1>20. Good(n) /\ \E l \in Ranges : first.range[l] = None /\ n.range = [first.range EXCEPT ![l] = y]
    BY <1>19 DEF Allocated
<1>21. PICK l \in Ranges : first.range[l] = None /\ n.range = [first.range EXCEPT ![l] = y]
    BY <1>20
<1>22. y \in OfArea(a) /\ r \in OfArea(a)
    BY <1>1, <1>7 DEF OfArea
<1>23. /\ \A S : Kind(S, a) => \A z \in Pages :
             z \in PagesOf(n.range, S)
             <=> z \in PagesOf(first.range, S) \/ (y \in S /\ page_in_range(y, z))
       /\ Elsewhere(n.range, first.range, a)
    <2>1. RangesOK(first.range)
        BY <1>5 DEF Good
    <2>2. QED
        BY <1>21, <1>22, <2>1, PagesAlloc
<1>24. Elsewhere(n.range, R, a)
    BY <1>4, <1>23, ElsewhereTrans
<1>25. Meets(m, n, a, k, s, e)
    <2>1. SUFFICES ASSUME NEW S, Kind(S, a), NEW z \in Pages
                   PROVE  z \in PagesOf(n.range, S)
                          <=> z \in PagesOf(R, S) /\ ~(page_in_range(r, z) /\ z \in s .. e)
        BY <1>12 DEF Meets, R
    <2>2. y \in S <=> r \in S
        BY <1>7, <1>22, <2>1 DEF Kind
    <2>3. page_in_range(y, z) => page_in_range(r, z)
        BY <1>2, <1>7, PageBounds DEF page_in_range
    <2>4. page_in_range(r, z) =>
              (z \in r.pgstart .. s - 1 \/ page_in_range(y, z) <=> ~(z \in s .. e))
        BY <1>2, <1>7, PageBounds DEF page_in_range
    <2>5. page_in_range(r, z) => (z \in PagesOf(R, S) <=> r \in S)
        <3>1. r \in S /\ page_in_range(r, z) => z \in PagesOf(R, S)
            BY <1>12 DEF PagesOf
        <3>2. ASSUME z \in PagesOf(R, S), page_in_range(r, z) PROVE r \in S
            <4>1. PICK j \in Ranges : R[j] \in S /\ page_in_range(R[j], z)
                BY <3>2 DEF PagesOf
            <4>2. R[j] \in OfArea(a) /\ R[k] \in OfArea(a)
                BY <1>12, <1>22, <2>1, <4>1 DEF Kind
            <4>3. j = k
                BY <1>8, <1>12, <3>2, <4>1, <4>2, Disjoint
            <4>4. QED
                BY <1>12, <4>1, <4>3
        <3>3. QED
            BY <3>1, <3>2
    <2>6. z \in PagesOf(first.range, S)
          <=> z \in PagesOf(R, S) /\ (page_in_range(r, z) => z \in r.pgstart .. s - 1)
        BY <1>4, <2>1
    <2>7. z \in PagesOf(n.range, S) <=> z \in PagesOf(first.range, S) \/ (y \in S /\ page_in_range(y, z))
        BY <1>23, <2>1
    <2>8. QED
        BY <2>2, <2>3, <2>4, <2>5, <2>6, <2>7
<1>26. InHole(R[k], s, e)
    BY DEF R
<1>27. NoNewEmpty(R, n.range)
    <2>1. RangesOK(first.range)
        BY <1>5 DEF Good
    <2>2. NoNewEmpty(first.range, n.range)
        BY <1>18, <1>21, <2>1, NoneEmptied
    <2>3. QED
        BY <1>4, <2>2, NoNewEmptyTrans
<1>28. ~Empty(R[k])
    BY <1>4, <1>12
<1>29. QED
    BY <1>20, <1>24, <1>25, <1>26, <1>27, <1>28 DEF Pinned, R, r, n, first, p, y

\* The range for the second part cannot be allocated.
LEMMA PinFails ==
    ASSUME NEW m, Good(m), NEW a, NEW k \in Ranges, m.range[k] \in OfArea(a),
           NEW s \in Starts, NEW e \in Pages, s <= e + 1, InHole(m.range[k], s, e)
    PROVE  LET n == range_shrink(m, k, m.range[k].pgstart, s - 1)
           IN  Good(n) /\ Elsewhere(n.range, m.range, a)
<1> DEFINE R == m.range
           r == m.range[k]
<1>1. r \in RangeRecords
    BY DEF OfArea
<1>2. /\ r.pgstart < s /\ r.pgend > e /\ r.pgstart \in Starts
      /\ s \in Int /\ e \in Int /\ r.pgstart \in Int /\ r.pgend \in Int
    BY <1>1, RecordTypes, PageBounds DEF InHole
<1> DEFINE f == r.pgstart
           t == s - 1
<1>3. f \in Starts /\ t \in Pages /\ f <= t /\ r.pgstart <= f /\ t <= r.pgend
    BY <1>2, PageBounds
<1> HIDE DEF f, t
<1>4. LET n == range_shrink(m, k, f, t)
      IN  ShrunkTo(m, n, k, Cut(r, f, t)) /\ Elsewhere(n.range, R, a)
    BY <1>3, PinCuts
<1>5. QED
    BY <1>4 DEF f, t, ShrunkTo

\* A range that the loops do not pass over.
Meeting(r, s, e) == ~range_before_page(r, s) /\ page_range_in_range(r, s, e)

(***************************************************************************)
(* What the tests of the code say of a range that may be empty and of an   *)
(* interval that may be: a range that is passed over has no page in the    *)
(* interval and does not end in it, and an empty one that is not passed    *)
(* over lies within it.                                                    *)
(***************************************************************************)
LEMMA MeetTests ==
    ASSUME NEW r \in RangeRecords, r.pgstart <= r.pgend + 1,
           NEW s \in Starts, NEW e \in Pages, s <= e + 1
    PROVE  /\ ~Meeting(r, s, e) => /\ \A p \in s .. e : ~page_in_range(r, p)
                                   /\ Empty(r) => r.pgend \notin s .. e
           /\ Meeting(r, s, e) => s <= r.pgend /\ r.pgstart <= e + 1
           /\ Meeting(r, s, e) /\ Empty(r) => subsumes(r, s, e)
<1>1. r.pgstart \in Int /\ r.pgend \in Int /\ s \in Int /\ e \in Int
    BY RecordTypes, PageBounds
<1> USE DEF Meeting, page_range_in_range, page_in_range, subsumes, range_before_page
<1>2. ~Meeting(r, s, e) => \A p \in s .. e : ~page_in_range(r, p)
    BY <1>1
<1>3. ~Meeting(r, s, e) /\ Empty(r) => r.pgend \notin s .. e
    BY <1>1 DEF Empty
<1>4. Meeting(r, s, e) => s <= r.pgend /\ r.pgstart <= e + 1
    BY <1>1
<1>5. Meeting(r, s, e) /\ Empty(r) => subsumes(r, s, e)
    BY <1>1 DEF Empty
<1>6. QED
    BY <1>2, <1>3, <1>4, <1>5

(***************************************************************************)
(* For an interval with a page, the loops stop at exactly the ranges that  *)
(* have a page of it or, if they are empty, end in it.  A range that lies  *)
(* around it is one of them.                                               *)
(***************************************************************************)
LEMMA MeetPages ==
    ASSUME NEW r \in RangeRecords, r.pgstart <= r.pgend + 1,
           NEW s \in Pages, NEW e \in Pages, s <= e
    PROVE  /\ Meeting(r, s, e)
              <=> \/ \E p \in s .. e : p \in Pages /\ page_in_range(r, p)
                  \/ Empty(r) /\ r.pgend \in s .. e
           /\ subsumed_by(r, s, e) => Meeting(r, s, e) /\ ~Empty(r)
<1>1. /\ r.pgstart \in Starts /\ r.pgend \in Pages
      /\ r.pgstart \in Int /\ r.pgend \in Int /\ s \in Int /\ e \in Int /\ s \in Starts /\ s <= e + 1
    BY RecordTypes, PageBounds
<1>2. /\ ~Meeting(r, s, e) => /\ \A p \in s .. e : ~page_in_range(r, p)
                              /\ Empty(r) => r.pgend \notin s .. e
      /\ Meeting(r, s, e) => s <= r.pgend /\ r.pgstart <= e + 1
      /\ Meeting(r, s, e) /\ Empty(r) => subsumes(r, s, e)
    BY <1>1, MeetTests
<1>3. ASSUME Meeting(r, s, e), Empty(r) PROVE r.pgend \in s .. e
    BY <1>1, <1>2, <1>3 DEF subsumes
<1>4. ASSUME Meeting(r, s, e), ~Empty(r) PROVE \E p \in s .. e : p \in Pages /\ page_in_range(r, p)
    <2> DEFINE p == IF s <= r.pgstart THEN r.pgstart ELSE s
    <2>1. r.pgstart <= r.pgend /\ s <= r.pgend
        BY <1>1, <1>2, <1>4 DEF Empty
    <2>2. r.pgstart <= e
        BY <1>1, <1>4, <2>1
           DEF Meeting, page_range_in_range, page_in_range, subsumes, range_before_page
    <2>3. p \in Int /\ s <= p /\ p <= e /\ r.pgstart <= p /\ p <= r.pgend
        BY <1>1, <2>1, <2>2
    <2>4. p \in Pages
        BY <1>1, <2>2, PageBounds
    <2> HIDE DEF p
    <2>5. p \in s .. e /\ page_in_range(r, p)
        BY <1>1, <2>3 DEF page_in_range
    <2>6. QED
        BY <2>4, <2>5
<1>5. subsumed_by(r, s, e) => Meeting(r, s, e) /\ ~Empty(r)
    BY <1>1 DEF Meeting, page_range_in_range, page_in_range, subsumed_by, range_before_page, Empty
<1>6. QED
    BY <1>2, <1>3, <1>4, <1>5

\* The four cases of ashmem_pin.
PinnedOrFailed(m, n, a, k, s, e, ok) ==
    /\ Good(n) /\ Elsewhere(n.range, m.range, a)
    /\ ok => Pinned(m, n, a, k, s, e)

(***************************************************************************)
(* Every case of ashmem_pin: of the range's pages those of the interval    *)
(* leave, or the second half too when it cannot be allocated.              *)
(***************************************************************************)
LEMMA PinMetFacts ==
    ASSUME NEW m, Good(m), NEW a, NEW k \in Ranges, m.range[k] \in OfArea(a),
           NEW s \in Starts, NEW e \in Pages, s <= e + 1, Meeting(m.range[k], s, e),
           NEW mem \in BOOLEAN, mem => Free(m) # {}
    PROVE  PinnedOrFailed(m, PinMet(m, k, s, e, mem), a, k, s, e, ~(InHole(m.range[k], s, e) /\ ~mem))
<1> DEFINE r == m.range[k]
           n == PinMet(m, k, s, e, mem)
<1>1. r \in RangeRecords
    BY DEF OfArea
<1>2. /\ r.pgstart \in Starts /\ r.pgend \in Pages /\ r.pgstart \in Int /\ r.pgend \in Int
      /\ s \in Int /\ e \in Int
    BY <1>1, RecordTypes, PageBounds
<1>3. r.pgstart <= e + 1 /\ s <= r.pgend
    <2>1. r.pgstart <= r.pgend + 1
        BY NoneAssumption, <1>1 DEF Good, RangesOK
    <2>2. QED
        BY <1>1, <2>1, MeetTests
<1>4. CASE subsumes(r, s, e)
    <2>1. n = range_del(m, k)
        BY <1>4 DEF PinMet
    <2>2. Pinned(m, n, a, k, s, e)
        BY <1>4, <2>1, PinDeletes
    <2>3. QED
        BY <2>2 DEF Pinned, PinnedOrFailed
<1>5. CASE ~subsumes(r, s, e) /\ r.pgstart >= s
    <2> DEFINE f == e + 1
               t == r.pgend
    <2>1. n = range_shrink(m, k, f, t)
        BY <1>5 DEF PinMet
    <2>2. f \in Starts /\ t \in Pages /\ f <= t /\ f = e + 1 /\ t = r.pgend /\ s <= r.pgstart
          /\ r.pgstart <= f
        <3>1. e < r.pgend
            BY <1>2, <1>5 DEF subsumes
        <3>2. e + 1 \in Starts /\ e + 1 <= r.pgend
            BY <1>2, <3>1, PageBounds
        <3>3. QED
            BY <1>2, <1>3, <1>5, <3>2
    <2> HIDE DEF f, t, n
    <2>3. Pinned(m, n, a, k, s, e)
        BY <1>3, <2>1, <2>2, PinShrinks
    <2>4. QED
        BY <2>3 DEF Pinned, PinnedOrFailed, n
<1>6. CASE ~subsumes(r, s, e) /\ r.pgstart < s /\ r.pgend <= e
    <2> DEFINE f == r.pgstart
               t == s - 1
    <2>1. n = range_shrink(m, k, f, t)
        BY <1>2, <1>6 DEF PinMet
    <2>2. f \in Starts /\ t \in Pages /\ f <= t /\ f = r.pgstart /\ t = s - 1 /\ r.pgend <= e
        <3>1. r.pgstart < s
            BY <1>6
        <3>2. s - 1 \in Pages
            BY <1>2, <3>1, PageBounds
        <3>3. r.pgstart <= s - 1
            BY <1>2, <3>1
        <3>4. QED
            BY <1>2, <1>6, <3>2, <3>3
    <2> HIDE DEF f, t, n
    <2>3. Pinned(m, n, a, k, s, e)
        BY <1>3, <2>1, <2>2, PinShrinks
    <2>4. QED
        BY <2>3 DEF Pinned, PinnedOrFailed, n
<1>7. CASE InHole(r, s, e) /\ ~mem
    <2>1. ~subsumes(r, s, e) /\ ~(r.pgstart >= s)
        BY <1>2, <1>7 DEF subsumes, InHole
    <2>2. n = range_shrink(m, k, r.pgstart, s - 1)
        BY <1>7, <2>1 DEF PinMet
    <2>3. Good(n) /\ Elsewhere(n.range, m.range, a)
        BY <1>7, <2>2, PinFails
    <2>4. QED
        BY <1>7, <2>3 DEF PinnedOrFailed
<1>8. CASE InHole(r, s, e) /\ mem
    <2>1. ~subsumes(r, s, e) /\ ~(r.pgstart >= s) /\ ~(r.pgend <= e)
        BY <1>2, <1>8 DEF subsumes, InHole
    <2>2. n = range_alloc(range_shrink(m, k, r.pgstart, s - 1), Position(m, r.area, k),
                          [r EXCEPT !.pgstart = e + 1])
        BY <1>8, <2>1 DEF PinMet
    <2>3. Pinned(m, n, a, k, s, e)
        BY <1>8, <2>2, PinSplits
    <2>4. QED
        BY <2>3 DEF Pinned, PinnedOrFailed
<1>9. QED
    BY <1>2, <1>4, <1>5, <1>6, <1>7, <1>8 DEF InHole

-----------------------------------------------------------------------------
(***************************************************************************)
(* The walk of ashmem_pin over the list q that it started from.            *)
(***************************************************************************)
Reached(R, q, i, p) == \E j \in 1 .. i : page_in_range(R[q[j]], p)

ReachedPurged(R, q, i, s, e) == \E j \in 1 .. i : R[q[j]].purged /\ Meeting(R[q[j]], s, e)

EndsTaken(R, Q, q, s, e, i) ==
    /\ NoNewEmpty(R, Q)
    /\ \A j \in 1 .. i : Empty(R[q[j]]) /\ R[q[j]].pgend \in s .. e => Q[q[j]] # R[q[j]]

PinPages(R, Q, q, a, s, e, i) ==
    \A S : Kind(S, a) => \A p \in Pages :
        p \in PagesOf(Q, S) <=> p \in PagesOf(R, S) /\ ~(p \in s .. e /\ Reached(R, q, i, p))

PinEffect(R, Q, q, a, s, e, i) == PinPages(R, Q, q, a, s, e, i) /\ EndsTaken(R, Q, q, s, e, i)

PinInv(at, m, a, s, e, i) ==
    /\ at = [m |-> at.m, purged |-> at.purged, done |-> at.done, failed |-> at.failed]
    /\ at.purged \in BOOLEAN /\ at.done \in BOOLEAN /\ at.failed \in BOOLEAN
    /\ Good(at.m) /\ Elsewhere(at.m.range, m.range, a)
    /\ at.done => \A j \in i + 1 .. Len(m.unpinned[a]) : m.range[m.unpinned[a][j]].pgend < s
    /\ ~at.done => /\ ~at.failed
                   /\ \A j \in i + 1 .. Len(m.unpinned[a]) :
                         at.m.range[m.unpinned[a][j]] = m.range[m.unpinned[a][j]]
    /\ ~at.failed => PinEffect(m.range, at.m.range, m.unpinned[a], a, s, e, i)
    /\ at.purged <=> ReachedPurged(m.range, m.unpinned[a], i, s, e)

\* One more range.
LEMMA ReachedStep ==
    ASSUME NEW R, NEW q, NEW i \in Nat, NEW p, NEW s, NEW e
    PROVE  /\ Reached(R, q, i + 1, p) <=> Reached(R, q, i, p) \/ page_in_range(R[q[i + 1]], p)
           /\ ReachedPurged(R, q, i + 1, s, e)
              <=> ReachedPurged(R, q, i, s, e) \/ (R[q[i + 1]].purged /\ Meeting(R[q[i + 1]], s, e))
<1>1. \A j : j \in 1 .. i + 1 <=> j \in 1 .. i \/ j = i + 1
    OBVIOUS
<1>2. QED
    BY <1>1 DEF Reached, ReachedPurged

\* A range that has no page of the interval makes no difference.
LEMMA PinSkips ==
    ASSUME NEW R, NEW Q, NEW q, NEW a, NEW s \in Starts, NEW e \in Pages, s <= e + 1, NEW i \in Nat,
           R[q[i + 1]] \in RangeRecords, R[q[i + 1]].pgstart <= R[q[i + 1]].pgend + 1,
           ~Meeting(R[q[i + 1]], s, e)
    PROVE  /\ PinEffect(R, Q, q, a, s, e, i) => PinEffect(R, Q, q, a, s, e, i + 1)
           /\ ReachedPurged(R, q, i + 1, s, e) <=> ReachedPurged(R, q, i, s, e)
<1> DEFINE r == R[q[i + 1]]
<1>1. /\ \A p \in s .. e : ~page_in_range(r, p)
      /\ Empty(r) => r.pgend \notin s .. e
    BY MeetTests
<1>2. \A j : j \in 1 .. i + 1 <=> j \in 1 .. i \/ j = i + 1
    OBVIOUS
<1> HIDE DEF r
<1>3. \A p \in Pages : p \in s .. e => (Reached(R, q, i + 1, p) <=> Reached(R, q, i, p))
    BY <1>1, ReachedStep DEF r
<1>4. ReachedPurged(R, q, i + 1, s, e) <=> ReachedPurged(R, q, i, s, e)
    BY ReachedStep
<1>5. EndsTaken(R, Q, q, s, e, i) => EndsTaken(R, Q, q, s, e, i + 1)
    BY <1>1, <1>2 DEF EndsTaken, r
<1>6. QED
    BY <1>3, <1>4, <1>5 DEF PinPages, PinEffect

\* One step of the walk.
LEMMA PinStep ==
    ASSUME NEW m, Good(m), NEW a \in Areas, NEW s \in Starts, NEW e \in Pages, s <= e + 1,
           NEW mem \in BOOLEAN, NEW i \in Nat, i + 1 <= Len(m.unpinned[a]),
           NEW at, PinInv(at, m, a, s, e, i)
    PROVE  PinInv(PinRange(at, m.unpinned[a][i + 1], s, e, mem), m, a, s, e, i + 1)
<1> DEFINE R == m.range
           q == m.unpinned[a]
           k == q[i + 1]
           r == R[k]
           next == PinRange(at, k, s, e, mem)
<1>1. AreaList(R, q, a) /\ RangesOK(R) /\ Apart(R, m.unpinned)
    BY Entries DEF Good
<1>2. /\ i + 1 \in 1 .. Len(q) /\ k \in Ranges /\ r \in RangeRecords /\ r \in OfArea(a) /\ Len(q) \in Nat
      /\ r.pgstart <= r.pgend + 1 /\ r.pgstart \in Int /\ r.pgend \in Int /\ s \in Int /\ e \in Int
      /\ r.purged \in BOOLEAN
    <2>1. i + 1 \in 1 .. Len(q) /\ Len(q) \in Nat
        BY <1>1 DEF AreaList
    <2>2. k \in Ranges /\ r \in RangeRecords /\ r.area = a /\ r.pgstart <= r.pgend + 1
        BY <1>1, <2>1 DEF AreaList
    <2>3. QED
        BY <2>1, <2>2, RecordTypes, PageBounds DEF OfArea
<1>3. \A j \in i + 2 .. Len(q) : R[q[j]].pgend < r.pgstart /\ R[q[j]].pgend \in Int /\ q[j] # k /\
                                   q[j] \in Ranges
    <2>1. ASSUME NEW j \in i + 2 .. Len(q)
          PROVE  R[q[j]].pgend < r.pgstart /\ R[q[j]].pgend \in Int /\ q[j] # k /\ q[j] \in Ranges
        <3>1. j \in 1 .. Len(q) /\ i + 1 < j /\ i + 1 # j
            BY <1>2
        <3>2. q[j] \in Ranges /\ R[q[j]] \in RangeRecords
            BY <1>1, <3>1 DEF AreaList
        <3>3. R[q[j]].pgend < r.pgstart
            BY <1>1, <1>2, <3>1 DEF AreaList
        <3>4. R[q[j]].pgend \in Int
            BY <3>2, RecordTypes
        <3>5. q[j] # k
            BY <1>1, <1>2, <3>1 DEF AreaList
        <3>6. QED
            BY <3>2, <3>3, <3>4, <3>5
    <2>2. QED
        BY <2>1
<1>4. (i + 1) + 1 = i + 2 /\ \A j \in i + 2 .. Len(q) : j \in i + 1 .. Len(q)
    <2> DEFINE N == Len(q)
    <2>1. N \in Nat
        BY <1>2
    <2> HIDE DEF N
    <2>2. (i + 1) + 1 = i + 2 /\ \A j \in i + 2 .. N : j \in i + 1 .. N
        BY <2>1
    <2>3. QED
        BY <2>2 DEF N
<1>5. i + 1 \in i + 1 .. Len(q)
    BY <1>2
<1>6. /\ at = [m |-> at.m, purged |-> at.purged, done |-> at.done, failed |-> at.failed]
      /\ at.purged \in BOOLEAN /\ at.done \in BOOLEAN /\ at.failed \in BOOLEAN
      /\ Good(at.m) /\ Elsewhere(at.m.range, R, a)
      /\ at.done => \A j \in i + 1 .. Len(q) : R[q[j]].pgend < s
      /\ ~at.done => ~at.failed /\ \A j \in i + 1 .. Len(q) : at.m.range[q[j]] = R[q[j]]
      /\ ~at.failed => PinEffect(R, at.m.range, q, a, s, e, i)
      /\ at.purged <=> ReachedPurged(R, q, i, s, e)
    BY DEF PinInv
<1>7. next = PinRange(at, k, s, e, mem) /\ k = q[i + 1] /\ r = R[k]
    OBVIOUS
<1>8. SUFFICES
      /\ next = [m |-> next.m, purged |-> next.purged, done |-> next.done, failed |-> next.failed]
      /\ next.purged \in BOOLEAN /\ next.done \in BOOLEAN /\ next.failed \in BOOLEAN
      /\ Good(next.m) /\ Elsewhere(next.m.range, R, a)
      /\ next.done => \A j \in i + 2 .. Len(q) : R[q[j]].pgend < s
      /\ ~next.done => ~next.failed /\ \A j \in i + 2 .. Len(q) : next.m.range[q[j]] = R[q[j]]
      /\ ~next.failed => PinEffect(R, next.m.range, q, a, s, e, i + 1)
      /\ next.purged <=> ReachedPurged(R, q, i + 1, s, e)
    BY <1>4 DEF PinInv
<1> HIDE DEF R, q, k, r, next
<1>9. ASSUME ~Meeting(r, s, e)
      PROVE  /\ \A Q : PinEffect(R, Q, q, a, s, e, i) => PinEffect(R, Q, q, a, s, e, i + 1)
             /\ ReachedPurged(R, q, i + 1, s, e) <=> ReachedPurged(R, q, i, s, e)
    BY <1>2, <1>7, <1>9, PinSkips
<1>10. CASE at.done
    <2>1. next = at
        BY <1>7, <1>10 DEF PinRange
    <2>2. ~Meeting(r, s, e)
        BY <1>2, <1>5, <1>6, <1>7, <1>10 DEF Meeting, range_before_page
    <2>3. QED
        BY <1>4, <1>6, <1>9, <1>10, <2>1, <2>2
<1>11. CASE ~at.done
    <2>1. at.m.range[k] = r /\ ~at.failed
        BY <1>5, <1>6, <1>7, <1>11
    <2>2. CASE range_before_page(r, s)
        <3>1. next = [at EXCEPT !.done = TRUE]
            BY <1>7, <1>11, <2>1, <2>2 DEF PinRange
        <3>2. /\ next = [m |-> next.m, purged |-> next.purged, done |-> next.done, failed |-> next.failed]
              /\ next.m = at.m /\ next.purged = at.purged /\ next.failed = at.failed /\ next.done = TRUE
            BY <1>6, <3>1
        <3>3. ~Meeting(r, s, e)
            BY <2>2 DEF Meeting
        <3>4. ASSUME NEW j \in i + 2 .. Len(q) PROVE R[q[j]].pgend < s
            <4>1. r.pgend < s
                BY <2>2 DEF range_before_page
            <4>2. PICK x : x = R[q[j]].pgend
                OBVIOUS
            <4>3. x \in Int /\ x < r.pgstart
                BY <1>3, <4>2
            <4>4. x < s
                BY <1>2, <4>1, <4>3
            <4>5. QED
                BY <4>2, <4>4
        <3>5. QED
            BY <1>6, <1>9, <2>1, <3>2, <3>3, <3>4
    <2>3. CASE ~range_before_page(r, s) /\ ~page_range_in_range(r, s, e)
        <3>1. next = at
            BY <1>7, <1>11, <2>1, <2>3 DEF PinRange
        <3>2. ~Meeting(r, s, e)
            BY <2>3 DEF Meeting
        <3>3. QED
            BY <1>4, <1>6, <1>9, <1>11, <2>1, <3>1, <3>2
    <2>4. CASE ~range_before_page(r, s) /\ page_range_in_range(r, s, e)
        <3> DEFINE room == mem /\ Free(at.m) # {}
                   n == PinMet(at.m, k, s, e, room)
        <3>1. /\ next = [m |-> n, purged |-> WasPurged(at, r), done |-> InHole(r, s, e),
                         failed |-> InHole(r, s, e) /\ ~room]
            BY <1>7, <1>11, <2>1, <2>4 DEF PinRange, InHole
        <3>2. room \in BOOLEAN /\ (room => Free(at.m) # {})
            OBVIOUS
        <3>3. n = PinMet(at.m, k, s, e, room)
            OBVIOUS
        <3> HIDE DEF room, n
        <3>4. Meeting(r, s, e)
            BY <2>4 DEF Meeting
        <3>5. PinnedOrFailed(at.m, n, a, k, s, e, ~(InHole(r, s, e) /\ ~room))
            BY <1>2, <1>6, <2>1, <3>2, <3>3, <3>4, PinMetFacts
        <3>6. Good(n) /\ Elsewhere(n.range, R, a)
            BY <1>6, <3>5, ElsewhereTrans DEF PinnedOrFailed
        <3>7. InHole(r, s, e) \in BOOLEAN /\ WasPurged(at, r) \in BOOLEAN
              /\ (WasPurged(at, r) <=> at.purged \/ r.purged)
            BY <1>2, <1>6 DEF InHole, WasPurged
        <3>8. /\ next.m = n /\ next.purged = WasPurged(at, r) /\ next.done = InHole(r, s, e)
              /\ next.failed = (InHole(r, s, e) /\ ~room)
              /\ next = [m |-> next.m, purged |-> next.purged, done |-> next.done, failed |-> next.failed]
            BY <3>1
        <3>9. next.purged <=> ReachedPurged(R, q, i + 1, s, e)
            BY <1>6, <1>7, <3>4, <3>7, <3>8, ReachedStep
        <3>10. ASSUME InHole(r, s, e), NEW j \in i + 2 .. Len(q) PROVE R[q[j]].pgend < s
            <4>1. r.pgstart < s
                BY <3>10 DEF InHole
            <4>2. PICK x : x = R[q[j]].pgend
                OBVIOUS
            <4>3. x \in Int /\ x < r.pgstart
                BY <1>3, <4>2
            <4>4. x < s
                BY <1>2, <4>1, <4>3
            <4>5. QED
                BY <4>2, <4>4
        <3>11. ASSUME ~InHole(r, s, e), NEW j \in i + 2 .. Len(q) PROVE n.range[q[j]] = R[q[j]]
            <4>1. \A l \in Ranges : l # k => n.range[l] = at.m.range[l]
                BY <2>1, <3>5, <3>11 DEF PinnedOrFailed, Pinned
            <4>2. QED
                BY <1>3, <1>4, <1>6, <1>11, <4>1
        <3>12. ASSUME ~(InHole(r, s, e) /\ ~room) PROVE PinPages(R, n.range, q, a, s, e, i + 1)
            <4>1. Meets(at.m, n, a, k, s, e)
                BY <3>5, <3>12 DEF PinnedOrFailed, Pinned
            <4>2. \A p \in Pages : Reached(R, q, i + 1, p) <=> Reached(R, q, i, p) \/ page_in_range(r, p)
                BY <1>7, ReachedStep
            <4>3. PinPages(R, at.m.range, q, a, s, e, i)
                BY <1>6, <2>1 DEF PinEffect
            <4>4. QED
                BY <2>1, <4>1, <4>2, <4>3 DEF Meets, PinPages
        <3>13. ASSUME ~(InHole(r, s, e) /\ ~room) PROVE EndsTaken(R, n.range, q, s, e, i + 1)
            <4>1. NoNewEmpty(at.m.range, n.range) /\ (Empty(r) => n.range[k] # r)
                BY <2>1, <3>5, <3>13 DEF PinnedOrFailed, Pinned
            <4>2. EndsTaken(R, at.m.range, q, s, e, i)
                BY <1>6, <2>1 DEF PinEffect
            <4>3. NoNewEmpty(R, n.range)
                BY <4>1, <4>2, NoNewEmptyTrans DEF EndsTaken
            <4>4. ASSUME NEW j \in 1 .. i, Empty(R[q[j]]), R[q[j]].pgend \in s .. e
                  PROVE  n.range[q[j]] # R[q[j]]
                <5>1. j \in 1 .. Len(q) /\ at.m.range[q[j]] # R[q[j]]
                    BY <1>2, <4>2, <4>4 DEF EndsTaken
                <5>2. q[j] \in Ranges /\ R[q[j]] # None
                    BY <1>1, <5>1 DEF AreaList
                <5>3. QED
                    BY <4>1, <4>4, <5>1, <5>2 DEF NoNewEmpty
            <4>5. \A j : j \in 1 .. i + 1 <=> j \in 1 .. i \/ j = i + 1
                OBVIOUS
            <4>6. QED
                BY <1>7, <4>1, <4>3, <4>4, <4>5 DEF EndsTaken
        <3>14. QED
            BY <3>2, <3>6, <3>7, <3>8, <3>9, <3>10, <3>11, <3>12, <3>13 DEF PinEffect
    <2>5. QED
        BY <2>2, <2>3, <2>4
<1>12. QED
    BY <1>6, <1>10, <1>11

-----------------------------------------------------------------------------
(***************************************************************************)
(* The recursive functions of the four walks exist.                        *)
(***************************************************************************)
Step(op, a, s, e, mem, at, k) ==
    IF op = 1 THEN PinRange(at, k, s, e, mem)
    ELSE IF op = 2 THEN MergeRange(at, a)
    ELSE IF op = 3 THEN ShrinkRange(at, k)
    ELSE range_del(at, k)

Steps(op, a, s, e, mem, begin, q, n, w) ==
    w = [i \in 0 .. n |-> IF i = 0 THEN begin ELSE Step(op, a, s, e, mem, w[i - 1], q[i])]

(***************************************************************************)
(* A walk over any number of ranges is a function: by induction on their   *)
(* number, since the walks are recursive functions.                        *)
(***************************************************************************)
LEMMA WalksExist ==
    ASSUME NEW op, NEW a, NEW s, NEW e, NEW mem, NEW begin, NEW q
    PROVE  \A n \in Nat : \E w : Steps(op, a, s, e, mem, begin, q, n, w)
<1> DEFINE F(at, k) == Step(op, a, s, e, mem, at, k)
           S == {n \in Nat : \E w : Steps(op, a, s, e, mem, begin, q, n, w)}
<1>1. 0 \in S
    <2> DEFINE w == [i \in 0 .. 0 |-> begin]
    <2>1. Steps(op, a, s, e, mem, begin, q, 0, w)
        BY DEF Steps
    <2>2. QED
        BY <2>1
<1>2. ASSUME NEW n \in S PROVE n + 1 \in S
    <2>1. PICK w : Steps(op, a, s, e, mem, begin, q, n, w)
        OBVIOUS
    <2> DEFINE v == [i \in 0 .. n + 1 |-> IF i <= n THEN w[i] ELSE F(w[n], q[n + 1])]
    <2>2. \A i \in 0 .. n : w[i] = IF i = 0 THEN begin ELSE F(w[i - 1], q[i])
        BY <2>1 DEF Steps
    <2> HIDE DEF F
    <2>3. \A i \in 0 .. n + 1 : i # 0 => i - 1 \in 0 .. n /\ v[i - 1] = w[i - 1]
        OBVIOUS
    <2>4. \A i \in 0 .. n + 1 : v[i] = IF i = 0 THEN begin ELSE F(v[i - 1], q[i])
        <3>1. ASSUME NEW i \in 0 .. n PROVE v[i] = IF i = 0 THEN begin ELSE F(v[i - 1], q[i])
            BY <2>2, <2>3
        <3>2. ASSUME NEW i \in 0 .. n + 1, i = n + 1
              PROVE  v[i] = IF i = 0 THEN begin ELSE F(v[i - 1], q[i])
            <4>1. v[i] = F(w[n], q[i]) /\ i # 0 /\ i - 1 = n /\ n \in 0 .. n
                BY <3>2
            <4>2. v[i - 1] = w[n]
                BY <4>1
            <4>3. QED
                BY <4>1, <4>2
        <3>3. \A i \in 0 .. n + 1 : i \in 0 .. n \/ i = n + 1
            OBVIOUS
        <3> HIDE DEF v
        <3>4. QED
            BY <3>1, <3>2, <3>3
    <2>5. Steps(op, a, s, e, mem, begin, q, n + 1, v)
        BY <2>4 DEF Steps, F
    <2>6. QED
        BY <2>5
<1>3. S = Nat
    BY <1>1, <1>2, SetInduction
<1>4. QED
    BY <1>3

(***************************************************************************)
(* The walk of ashmem_pin, unrolled.                                       *)
(***************************************************************************)
LEMMA PinWalkSteps ==
    ASSUME NEW m, NEW a, NEW s, NEW e, NEW mem, Len(m.unpinned[a]) \in Nat
    PROVE  LET w == PinWalk(m, a, s, e, mem)
           IN  /\ w[0] = [m |-> m, purged |-> FALSE, done |-> FALSE, failed |-> FALSE]
               /\ \A i \in 1 .. Len(m.unpinned[a]) :
                     w[i] = PinRange(w[i - 1], m.unpinned[a][i], s, e, mem)
<1> DEFINE begin == [m |-> m, purged |-> FALSE, done |-> FALSE, failed |-> FALSE]
           q == m.unpinned[a]
           W(w) == w = [i \in 0 .. Len(q) |-> IF i = 0 THEN begin ELSE PinRange(w[i - 1], q[i], s, e, mem)]
<1>1. \E w : Steps(1, a, s, e, mem, begin, q, Len(q), w)
    BY WalksExist
<1>2. \A w : Steps(1, a, s, e, mem, begin, q, Len(q), w) <=> W(w)
    BY DEF Steps, Step
<1>3. PinWalk(m, a, s, e, mem) = CHOOSE w : W(w)
    BY DEF PinWalk
<1>4. W(PinWalk(m, a, s, e, mem))
    BY <1>1, <1>2, <1>3
<1> DEFINE walk == PinWalk(m, a, s, e, mem)
<1> HIDE DEF begin, walk
<1>5. walk = [i \in 0 .. Len(q) |-> IF i = 0 THEN begin ELSE PinRange(walk[i - 1], q[i], s, e, mem)]
    BY <1>4 DEF walk
<1>6. walk[0] = begin
    BY <1>5
<1>7. ASSUME NEW i \in 1 .. Len(q) PROVE walk[i] = PinRange(walk[i - 1], q[i], s, e, mem)
  <2>1. i \in 0 .. Len(q) /\ i # 0
    OBVIOUS
  <2>2. QED
    BY <1>5, <2>1
<1>8. QED
    BY <1>6, <1>7 DEF begin, walk

\* The ranges of an area are the entries of its list.
LEMMA PagesListed ==
    ASSUME NEW R, RangesOK(R), NEW U, Apart(R, U), NEW a \in Areas, NEW p \in Pages, NEW S, Kind(S, a)
    PROVE  p \in PagesOf(R, S) <=> \E j \in 1 .. Len(U[a]) : R[U[a][j]] \in S /\
             page_in_range(R[U[a][j]], p)
<1>1. AreaList(R, U[a], a)
    BY Entries
<1>2. ASSUME NEW k \in Ranges, R[k] \in S PROVE \E j \in 1 .. Len(U[a]) : U[a][j] = k
    <2>1. R[k] # None /\ R[k].area = a
        BY <1>2, NoneAssumption DEF Kind, OfArea
    <2>2. QED
        BY <2>1, InList
<1>3. QED
    BY <1>1, <1>2 DEF PagesOf, AreaList

\* What a call of ashmem_pin does.
PinResult(m, a, s, e, call) ==
    /\ Good(call.m) /\ Elsewhere(call.m.range, m.range, a)
    /\ call.failed \in BOOLEAN /\ call.purged \in BOOLEAN
    /\ ~call.failed =>
          /\ \A S : Kind(S, a) => PagesOf(call.m.range, S) = PagesOf(m.range, S) \ s .. e
          /\ EndsOf(call.m.range, OfArea(a)) \subseteq EndsOf(m.range, OfArea(a)) \ s .. e
    /\ (s .. e) \cap PagesOf(m.range, PurgedOf(a)) # {} => call.purged
    /\ call.purged /\ s <= e =>
          (s .. e) \cap (PagesOf(m.range, OfArea(a)) \cup EndsOf(m.range, OfArea(a))) # {}

(***************************************************************************)
(* What ashmem_pin does: it keeps the lists good, unpins nothing, and      *)
(* answers for every purged range that it met.                             *)
(***************************************************************************)
LEMMA PinFacts ==
    ASSUME NEW m, Good(m), NEW a \in Areas, NEW s \in Starts, NEW e \in Pages, s <= e + 1,
           NEW mem \in BOOLEAN
    PROVE  PinResult(m, a, s, e, ashmem_pin(m, a, s, e, mem))
<1> DEFINE R == m.range
           q == m.unpinned[a]
           w == PinWalk(m, a, s, e, mem)
           call == ashmem_pin(m, a, s, e, mem)
<1>1. AreaList(R, q, a) /\ RangesOK(R) /\ Apart(R, m.unpinned)
    BY Entries DEF Good
<1>2. Len(q) \in Nat
    BY <1>1 DEF AreaList
<1>3. /\ w[0] = [m |-> m, purged |-> FALSE, done |-> FALSE, failed |-> FALSE]
      /\ \A i \in 1 .. Len(q) : w[i] = PinRange(w[i - 1], q[i], s, e, mem)
    BY <1>2, PinWalkSteps
<1>4. call = w[Len(q)]
    BY DEF ashmem_pin
<1> HIDE DEF w, call
<1> DEFINE T == {i \in Nat : i <= Len(q) => PinInv(w[i], m, a, s, e, i)}
<1>5. 0 \in T
    <2>1. ~ReachedPurged(R, q, 0, s, e) /\ \A p : ~Reached(R, q, 0, p)
        BY DEF ReachedPurged, Reached
    <2>2. PinPages(R, R, q, a, s, e, 0)
        BY <2>1 DEF PinPages
    <2>3. Elsewhere(R, R, a)
        BY DEF Elsewhere
    <2>4. EndsTaken(R, R, q, s, e, 0)
        BY DEF EndsTaken, NoNewEmpty
    <2>5. PinInv(w[0], m, a, s, e, 0)
        BY <1>3, <2>1, <2>2, <2>3, <2>4 DEF PinInv, PinEffect
    <2>6. QED
        BY <2>5
<1>6. ASSUME NEW i \in T PROVE i + 1 \in T
    <2>1. SUFFICES ASSUME i + 1 <= Len(q) PROVE PinInv(w[i + 1], m, a, s, e, i + 1)
        OBVIOUS
    <2>2. i \in Nat /\ i <= Len(q) /\ i + 1 \in 1 .. Len(q) /\ (i + 1) - 1 = i
        BY <1>2, <2>1
    <2>3. w[i + 1] = PinRange(w[i], q[i + 1], s, e, mem)
        BY <1>3, <2>2
    <2>4. PinInv(w[i], m, a, s, e, i)
        BY <2>2
    <2>5. QED
        BY <2>1, <2>2, <2>3, <2>4, PinStep
<1>7. T = Nat
    BY <1>5, <1>6, SetInduction
<1>8. PinInv(call, m, a, s, e, Len(q))
    BY <1>2, <1>4, <1>7
<1>9. /\ Good(call.m) /\ Elsewhere(call.m.range, R, a)
      /\ call.failed \in BOOLEAN /\ call.purged \in BOOLEAN
      /\ ~call.failed => PinPages(R, call.m.range, q, a, s, e, Len(q))
      /\ ~call.failed => EndsTaken(R, call.m.range, q, s, e, Len(q))
      /\ call.purged <=> ReachedPurged(R, q, Len(q), s, e)
    BY <1>8 DEF PinInv, PinEffect
<1>10. ASSUME ~call.failed, NEW S, Kind(S, a) PROVE PagesOf(call.m.range, S) = PagesOf(R, S) \ s .. e
    <2>1. \A p \in Pages : p \in PagesOf(R, S) => Reached(R, q, Len(q), p)
        BY <1>1, <1>10, PagesListed DEF Reached
    <2>2. \A p \in Pages : p \in PagesOf(call.m.range, S) <=> p \in PagesOf(R, S) /\ p \notin s .. e
        BY <1>9, <1>10, <2>1 DEF PinPages
    <2>3. QED
        BY <2>2 DEF PagesOf
<1>11. ASSUME ~call.failed
       PROVE  EndsOf(call.m.range, OfArea(a)) \subseteq EndsOf(R, OfArea(a)) \ s .. e
    <2> DEFINE Q == call.m.range
    <2>1. EndsTaken(R, Q, q, s, e, Len(q))
        BY <1>9, <1>11
    <2> HIDE DEF Q
    <2>2. ASSUME NEW k \in Ranges, Q[k] \in OfArea(a), Empty(Q[k])
          PROVE  Q[k] = R[k] /\ Q[k].pgend \notin s .. e
        <3>1. Q[k] # None /\ Q[k].area = a
            BY <2>2, NoneAssumption DEF OfArea
        <3>2. Q[k] = R[k]
            BY <2>1, <2>2, <3>1 DEF EndsTaken, NoNewEmpty
        <3>3. PICK j \in 1 .. Len(q) : q[j] = k
            BY <1>1, <3>1, <3>2, InList
        <3>4. QED
            BY <2>1, <2>2, <3>2, <3>3 DEF EndsTaken
    <2>3. QED
        BY <2>2 DEF EndsOf, Q
<1>12. ASSUME call.purged, s <= e
       PROVE  (s .. e) \cap (PagesOf(R, OfArea(a)) \cup EndsOf(R, OfArea(a))) # {}
    <2>1. PICK j \in 1 .. Len(q) : R[q[j]].purged /\ Meeting(R[q[j]], s, e)
        BY <1>9, <1>12 DEF ReachedPurged
    <2>2. /\ q[j] \in Ranges /\ R[q[j]] \in RangeRecords /\ R[q[j]].area = a
          /\ R[q[j]].pgstart <= R[q[j]].pgend + 1
        BY <1>1 DEF AreaList
    <2>3. R[q[j]] \in OfArea(a) /\ s \in Pages /\ R[q[j]].pgend \in Pages
        BY <1>12, <2>2, PageBounds, RecordTypes DEF OfArea
    <2>4. \/ \E p \in s .. e : p \in Pages /\ page_in_range(R[q[j]], p)
          \/ Empty(R[q[j]]) /\ R[q[j]].pgend \in s .. e
        BY <1>12, <2>1, <2>2, <2>3, MeetPages
    <2>5. QED
        BY <2>2, <2>3, <2>4 DEF PagesOf, EndsOf
<1>13. ASSUME NEW p \in s .. e, p \in PagesOf(R, PurgedOf(a)) PROVE call.purged
    <2>1. p \in Pages /\ Kind(PurgedOf(a), a)
        BY <1>13, Kinds DEF PagesOf
    <2>2. PICK j \in 1 .. Len(q) : R[q[j]] \in PurgedOf(a) /\ page_in_range(R[q[j]], p)
        BY <1>1, <1>13, <2>1, PagesListed
    <2>3. /\ R[q[j]].purged /\ R[q[j]] \in RangeRecords /\ R[q[j]].pgstart <= R[q[j]].pgend + 1
        BY <1>1, <2>2 DEF PurgedOf, OfArea, AreaList
    <2>4. Meeting(R[q[j]], s, e)
        BY <2>2, <2>3, MeetTests
    <2>5. QED
        BY <1>9, <2>3, <2>4 DEF ReachedPurged
<1>14. QED
    BY <1>9, <1>10, <1>11, <1>12, <1>13 DEF PinResult, call

-----------------------------------------------------------------------------
(***************************************************************************)
(* ashmem_shrink changes nothing of a range but that it is purged.         *)
(***************************************************************************)
LEMMA ShrinkWalkSteps ==
    ASSUME NEW m, NEW nr, Len(m.lru) \in Nat
    PROVE  LET w == ShrinkWalk(m, nr)
           IN  /\ w[0] = [m |-> m, keys |-> {}, left |-> nr]
               /\ \A i \in 1 .. Len(m.lru) : w[i] = ShrinkRange(w[i - 1], m.lru[i])
<1> DEFINE begin == [m |-> m, keys |-> {}, left |-> nr]
           q == m.lru
           W(w) == w = [i \in 0 .. Len(q) |-> IF i = 0 THEN begin ELSE ShrinkRange(w[i - 1], q[i])]
<1>1. \E w : Steps(3, 0, 0, 0, 0, begin, q, Len(q), w)
    BY WalksExist
<1>2. \A w : Steps(3, 0, 0, 0, 0, begin, q, Len(q), w) <=> W(w)
    BY DEF Steps, Step
<1>3. ShrinkWalk(m, nr) = CHOOSE w : W(w)
    BY DEF ShrinkWalk
<1>4. W(ShrinkWalk(m, nr))
    BY <1>1, <1>2, <1>3
<1> DEFINE walk == ShrinkWalk(m, nr)
<1> HIDE DEF begin, walk
<1>5. walk = [i \in 0 .. Len(q) |-> IF i = 0 THEN begin ELSE ShrinkRange(walk[i - 1], q[i])]
    BY <1>4 DEF walk
<1>6. walk[0] = begin
    BY <1>5
<1>7. ASSUME NEW i \in 1 .. Len(q) PROVE walk[i] = ShrinkRange(walk[i - 1], q[i])
  <2>1. i \in 0 .. Len(q) /\ i # 0
    OBVIOUS
  <2>2. QED
    BY <1>5, <2>1
<1>8. QED
    BY <1>6, <1>7 DEF begin, walk

ShrinkInv(at, m, i) ==
    /\ Good(at.m) /\ at.m.unpinned = m.unpinned
    /\ at.keys \subseteq OnLru(m.range) /\ \A j \in i + 1 .. Len(m.lru) : m.lru[j] \notin at.keys
    /\ \A k \in Ranges : at.m.range[k] = IF k \in at.keys THEN Lost(m.range[k]) ELSE m.range[k]

(***************************************************************************)
(* One range of the shrinker's walk.                                       *)
(***************************************************************************)
LEMMA ShrinkStep ==
    ASSUME NEW m, Good(m), NEW i \in Nat, i + 1 <= Len(m.lru), NEW at, ShrinkInv(at, m, i)
    PROVE  ShrinkInv(ShrinkRange(at, m.lru[i + 1]), m, i + 1)
<1> DEFINE q == m.lru
           R == m.range
           k == q[i + 1]
           next == ShrinkRange(at, k)
           n == Purged(at.m, k)
<1>1. q \in Seq(Ranges) /\ IsInjective(q) /\ ToSet(q) = OnLru(R) /\ RangesOK(R)
    BY DEF Good, Listed
<1>2. Len(q) \in Nat /\ i + 1 \in 1 .. Len(q) /\ k \in Ranges /\ k \in OnLru(R)
    BY <1>1 DEF ToSet
<1>3. \A j \in i + 2 .. Len(q) : q[j] # k /\ j \in i + 1 .. Len(q)
    <2>1. ASSUME NEW j \in i + 2 .. Len(q) PROVE q[j] # k /\ j \in i + 1 .. Len(q)
        <3>1. j \in 1 .. Len(q) /\ j # i + 1 /\ j \in i + 1 .. Len(q)
            BY <1>2
        <3>2. QED
            BY <1>1, <1>2, <3>1 DEF IsInjective
    <2>2. QED
        BY <2>1
<1>4. /\ Good(at.m) /\ at.m.unpinned = m.unpinned
      /\ at.keys \subseteq OnLru(R) /\ \A j \in i + 1 .. Len(q) : q[j] \notin at.keys
      /\ \A l \in Ranges : at.m.range[l] = IF l \in at.keys THEN Lost(R[l]) ELSE R[l]
    BY DEF ShrinkInv
<1>5. next = ShrinkRange(at, k) /\ n = Purged(at.m, k) /\ (i + 1) + 1 = i + 2
    OBVIOUS
<1>6. SUFFICES
      /\ Good(next.m) /\ next.m.unpinned = m.unpinned
      /\ next.keys \subseteq OnLru(R) /\ \A j \in i + 2 .. Len(q) : q[j] \notin next.keys
      /\ \A l \in Ranges : next.m.range[l] = IF l \in next.keys THEN Lost(R[l]) ELSE R[l]
    BY <1>5 DEF ShrinkInv
<1> HIDE DEF q, R, k, next, n
<1>7. CASE at.left = 0
    <2>1. next = at
        BY <1>5, <1>7 DEF ShrinkRange
    <2>2. QED
        BY <1>3, <1>4, <2>1
<1>8. CASE at.left # 0
    <2>1. next.m = n /\ next.keys = at.keys \cup {k}
        BY <1>5, <1>8 DEF ShrinkRange
    <2>2. k \notin at.keys
        BY <1>2, <1>4 DEF k
    <2>3. at.m.range[k] = R[k] /\ R[k] # None /\ ~R[k].purged
        BY <1>2, <1>4, <2>2 DEF OnLru
    <2>4. Good(n) /\ n.range = [at.m.range EXCEPT ![k] = Lost(R[k])] /\ n.unpinned = at.m.unpinned
        <3> DEFINE v == at.m
        <3>1. Good(v) /\ v.range[k] # None /\ ~v.range[k].purged
            BY <1>4, <2>3
        <3> HIDE DEF v
        <3>2. /\ Good(Purged(v, k)) /\ Purged(v, k).range = [v.range EXCEPT ![k] = Lost(v.range[k])]
              /\ Purged(v, k).unpinned = v.unpinned
            BY <1>2, <3>1, PurgeFacts
        <3>3. QED
            BY <1>5, <2>3, <3>2 DEF v
    <2>5. \A l \in Ranges : n.range[l] = IF l = k THEN Lost(R[l]) ELSE at.m.range[l]
        BY <1>2, <1>4, <2>4 DEF Good, RangesOK
    <2>6. QED
        BY <1>2, <1>3, <1>4, <2>1, <2>4, <2>5
<1>9. QED
    BY <1>7, <1>8

\* What a call of ashmem_shrink does.
TakenPages(R, keys, a) == UNION {RangePages(R[k]) : k \in {x \in keys : R[x].area = a}}

ShrinkResult(m, at) ==
    /\ Good(at.m)
    /\ \A a \in Areas :
          /\ PagesOf(at.m.range, OfArea(a)) = PagesOf(m.range, OfArea(a))
          /\ EndsOf(at.m.range, OfArea(a)) = EndsOf(m.range, OfArea(a))
          /\ PagesOf(at.m.range, PurgedOf(a)) = PagesOf(m.range, PurgedOf(a)) \cup
               TakenPages(m.range, at.keys, a)
          /\ TakenPages(m.range, at.keys, a) \subseteq PagesOf(m.range, OfArea(a))

(***************************************************************************)
(* What ashmem_shrink does: it keeps the lists good and marks as purged    *)
(* exactly the ranges that it truncated.                                   *)
(***************************************************************************)
LEMMA ShrinkWalkFacts ==
    ASSUME NEW m, Good(m), NEW nr
    PROVE  ShrinkResult(m, ShrinkWalk(m, nr)[Len(m.lru)])
<1> DEFINE R == m.range
           q == m.lru
           w == ShrinkWalk(m, nr)
           at == w[Len(q)]
           Q == at.m.range
<1>1. Len(q) \in Nat
    BY DEF Good, Listed
<1>2. /\ w[0] = [m |-> m, keys |-> {}, left |-> nr]
      /\ \A i \in 1 .. Len(q) : w[i] = ShrinkRange(w[i - 1], q[i])
    BY <1>1, ShrinkWalkSteps
<1> HIDE DEF w
<1> DEFINE T == {i \in Nat : i <= Len(q) => ShrinkInv(w[i], m, i)}
<1>3. 0 \in T
    BY <1>2 DEF ShrinkInv
<1>4. ASSUME NEW i \in T PROVE i + 1 \in T
    <2>1. SUFFICES ASSUME i + 1 <= Len(q) PROVE ShrinkInv(w[i + 1], m, i + 1)
        OBVIOUS
    <2>2. i \in Nat /\ i <= Len(q) /\ i + 1 \in 1 .. Len(q) /\ (i + 1) - 1 = i
        BY <1>1, <2>1
    <2>3. w[i + 1] = ShrinkRange(w[i], q[i + 1])
        BY <1>2, <2>2
    <2>4. ShrinkInv(w[i], m, i)
        BY <2>2
    <2>5. QED
        BY <2>1, <2>2, <2>3, <2>4, ShrinkStep
<1>5. T = Nat
    BY <1>3, <1>4, SetInduction
<1>6. ShrinkInv(at, m, Len(q))
    BY <1>1, <1>5
<1>7. /\ Good(at.m) /\ at.keys \subseteq OnLru(R)
      /\ \A k \in Ranges : Q[k] = IF k \in at.keys THEN Lost(R[k]) ELSE R[k]
    BY <1>6 DEF ShrinkInv
<1>8. RangesOK(R)
    BY DEF Good
<1> HIDE DEF at, R, Q
<1>9. ASSUME NEW a \in Areas
      PROVE  /\ PagesOf(Q, OfArea(a)) = PagesOf(R, OfArea(a))
             /\ EndsOf(Q, OfArea(a)) = EndsOf(R, OfArea(a))
             /\ PagesOf(Q, PurgedOf(a)) = PagesOf(R, PurgedOf(a)) \cup TakenPages(R, at.keys, a)
             /\ TakenPages(R, at.keys, a) \subseteq PagesOf(R, OfArea(a))
    <2>1. ASSUME NEW k \in Ranges
          PROVE  /\ k \in at.keys => /\ R[k] \in RangeRecords /\ Q[k] \in RangeRecords
                                         /\ Q[k].area = R[k].area
                                     /\ Q[k].purged /\ ~R[k].purged
                                     /\ \A p : page_in_range(Q[k], p) <=> page_in_range(R[k], p)
                                     /\ Q[k].pgend = R[k].pgend /\ (Empty(Q[k]) <=> Empty(R[k]))
                 /\ k \notin at.keys => Q[k] = R[k]
        <3>1. CASE k \in at.keys
            <4>1. R[k] \in RangeRecords /\ ~R[k].purged /\ Q[k] = Lost(R[k])
                BY <1>7, <1>8, <3>1 DEF OnLru, RangesOK
            <4>2. /\ Q[k] \in RangeRecords /\ Q[k].area = R[k].area /\ Q[k].purged
                  /\ Q[k].pgstart = R[k].pgstart /\ Q[k].pgend = R[k].pgend
                BY <4>1, LostFacts
            <4>3. QED
                BY <3>1, <4>1, <4>2 DEF page_in_range, Empty
        <3>2. CASE k \notin at.keys
            BY <1>7, <3>2
        <3>3. QED
            BY <3>1, <3>2
    <2>2. at.keys \subseteq Ranges
        BY <1>7 DEF OnLru
    <2>3. \A p : p \in TakenPages(R, at.keys, a)
                 <=> p \in Pages /\ \E k \in at.keys : R[k].area = a /\ page_in_range(R[k], p)
        BY DEF TakenPages, RangePages
    <2>4. PagesOf(Q, OfArea(a)) = PagesOf(R, OfArea(a))
        BY <2>1 DEF PagesOf, OfArea
    <2>5. TakenPages(R, at.keys, a) \subseteq PagesOf(R, OfArea(a))
        BY <2>1, <2>2, <2>3 DEF PagesOf, OfArea
    <2>6. PagesOf(Q, PurgedOf(a)) = PagesOf(R, PurgedOf(a)) \cup TakenPages(R, at.keys, a)
        BY <2>1, <2>2, <2>3 DEF PagesOf, PurgedOf, OfArea
    <2>7. EndsOf(Q, OfArea(a)) = EndsOf(R, OfArea(a))
        BY <2>1 DEF EndsOf, OfArea
    <2>8. QED
        BY <2>4, <2>5, <2>6, <2>7
<1>10. QED
    BY <1>7, <1>9 DEF ShrinkResult, at, R, Q, w

-----------------------------------------------------------------------------
(***************************************************************************)
(* ashmem_release leaves no range of the area.                             *)
(***************************************************************************)
LEMMA ReleaseWalkSteps ==
    ASSUME NEW m, NEW a, Len(m.unpinned[a]) \in Nat
    PROVE  LET w == ReleaseWalk(m, a)
           IN  w[0] = m /\
                 \A i \in 1 .. Len(m.unpinned[a]) : w[i] = range_del(w[i - 1], m.unpinned[a][i])
<1> DEFINE q == m.unpinned[a]
           W(w) == w = [i \in 0 .. Len(q) |-> IF i = 0 THEN m ELSE range_del(w[i - 1], q[i])]
<1>1. \E w : Steps(4, 0, 0, 0, 0, m, q, Len(q), w)
    BY WalksExist
<1>2. \A w : Steps(4, 0, 0, 0, 0, m, q, Len(q), w) <=> W(w)
    BY DEF Steps, Step
<1>3. ReleaseWalk(m, a) = CHOOSE w : W(w)
    BY DEF ReleaseWalk
<1>4. W(ReleaseWalk(m, a))
    BY <1>1, <1>2, <1>3
<1>5. QED
    BY SMTT(30), <1>4

ReleaseInv(n, m, a, i) ==
    /\ Good(n)
    /\ \A k \in Ranges : n.range[k] = IF \E j \in 1 .. i : m.unpinned[a][j] = k THEN None ELSE m.range[k]

ReleaseResult(m, a, n) ==
    /\ Good(n) /\ Elsewhere(n.range, m.range, a) /\ EndsOf(n.range, OfArea(a)) = {}
    /\ \A S : Kind(S, a) => PagesOf(n.range, S) = {}

(***************************************************************************)
(* What ashmem_release does: it keeps the lists good, empties the area's   *)
(* and leaves the other areas alone.                                       *)
(***************************************************************************)
LEMMA ReleaseFacts ==
    ASSUME NEW m, Good(m), NEW a \in Areas
    PROVE  ReleaseResult(m, a, ReleaseWalk(m, a)[Len(m.unpinned[a])])
<1> DEFINE R == m.range
           q == m.unpinned[a]
           w == ReleaseWalk(m, a)
           n == w[Len(q)]
<1>1. AreaList(R, q, a) /\ RangesOK(R) /\ Apart(R, m.unpinned) /\ Len(q) \in Nat
    BY Entries DEF Good, AreaList
<1>2. w[0] = m /\ \A i \in 1 .. Len(q) : w[i] = range_del(w[i - 1], q[i])
    BY <1>1, ReleaseWalkSteps
<1> HIDE DEF w
<1> DEFINE T == {i \in Nat : i <= Len(q) => ReleaseInv(w[i], m, a, i)}
<1>3. 0 \in T
    BY <1>2 DEF ReleaseInv
<1>4. ASSUME NEW i \in T PROVE i + 1 \in T
    <2>1. SUFFICES ASSUME i + 1 <= Len(q) PROVE ReleaseInv(w[i + 1], m, a, i + 1)
        OBVIOUS
    <2>2. i \in Nat /\ i <= Len(q) /\ i + 1 \in 1 .. Len(q) /\ (i + 1) - 1 = i
        BY <1>1, <2>1
    <2> DEFINE k == q[i + 1]
               v == w[i]
    <2>3. w[i + 1] = range_del(v, k)
        BY <1>2, <2>2
    <2>4. /\ Good(v)
          /\ \A l \in Ranges : v.range[l] = IF \E j \in 1 .. i : q[j] = l THEN None ELSE R[l]
        BY <2>2 DEF ReleaseInv
    <2>5. k \in Ranges /\ R[k] # None /\ \A j \in 1 .. i : q[j] # k
        <3>1. \A j \in 1 .. i : j \in 1 .. Len(q) /\ j # i + 1
            BY <1>1, <2>2
        <3>2. QED
            BY <1>1, <2>2, <3>1 DEF AreaList
    <2> HIDE DEF k, v
    <2>6. v.range[k] # None
        BY <2>4, <2>5
    <2>7. Good(w[i + 1]) /\ w[i + 1].range = [v.range EXCEPT ![k] = None]
        <3>1. Deleted(v, range_del(v, k), k)
            BY <2>4, <2>5, <2>6, DelFacts
        <3>2. QED
            BY <2>3, <3>1 DEF Deleted
    <2>8. \A l \in Ranges : w[i + 1].range[l] = IF l = k THEN None ELSE v.range[l]
        BY <2>4, <2>5, <2>7 DEF Good, RangesOK
    <2>9. \A l \in Ranges : (\E j \in 1 .. i + 1 : q[j] = l) <=> l = k \/ \E j \in 1 .. i : q[j] = l
        <3>1. \A j : j \in 1 .. i + 1 <=> j \in 1 .. i \/ j = i + 1
            BY <2>2
        <3>2. QED
            BY <3>1 DEF k
    <2>10. QED
        BY <2>4, <2>7, <2>8, <2>9 DEF ReleaseInv
<1>5. T = Nat
    BY <1>3, <1>4, SetInduction
<1>6. ReleaseInv(n, m, a, Len(q))
    BY <1>1, <1>5
<1>7. Good(n) /\ \A k \in Ranges : n.range[k] = IF \E j \in 1 .. Len(q) : q[j] = k THEN None ELSE R[k]
    BY <1>6 DEF ReleaseInv
<1> HIDE DEF n
<1>8. \A k \in Ranges : n.range[k] = None \/ n.range[k] = R[k]
    BY <1>7
<1>9. ASSUME NEW k \in Ranges, n.range[k] \in OfArea(a) PROVE FALSE
    <2>1. n.range[k] # None /\ R[k] \in OfArea(a) /\ R[k] # None /\ R[k].area = a
        BY <1>8, <1>9, NoneAssumption DEF OfArea
    <2>2. \E j \in 1 .. Len(q) : q[j] = k
        BY <1>1, <2>1, InList
    <2>3. QED
        BY <1>7, <2>1, <2>2
<1>10. \A k \in Ranges : n.range[k] = R[k] \/ (n.range[k] = None /\ R[k] \in OfArea(a))
    BY <1>1, <1>7 DEF AreaList, OfArea
<1>11. Elsewhere(n.range, R, a)
    BY <1>10, NoneAssumption DEF Elsewhere, PagesOf, EndsOf
<1>12. \A S : Kind(S, a) => PagesOf(n.range, S) = {}
    BY <1>9 DEF Kind, PagesOf
<1>13. EndsOf(n.range, OfArea(a)) = {}
    BY <1>9 DEF EndsOf
<1>14. QED
    BY <1>7, <1>11, <1>12, <1>13 DEF ReleaseResult, n, w

-----------------------------------------------------------------------------
(***************************************************************************)
(* Where the loops over the list of an area break.                         *)
(***************************************************************************)
Split(R, q, s, p) ==
    /\ p \in 1 .. Len(q) + 1
    /\ \A i \in 1 .. p - 1 : i \in 1 .. Len(q) /\ ~range_before_page(R[q[i]], s)
    /\ \A i \in p .. Len(q) : range_before_page(R[q[i]], s)

(***************************************************************************)
(* The insertion point of an interval: every range before it ends at or    *)
(* after the start of the interval, every range from it on before.         *)
(***************************************************************************)
LEMMA InsertionSplits ==
    ASSUME NEW m, Good(m), NEW a \in Areas, NEW s \in Starts
    PROVE  Split(m.range, m.unpinned[a], s, Insertion(m, a, s))
<1> DEFINE R == m.range
           q == m.unpinned[a]
           before == {i \in 1 .. Len(q) : range_before_page(R[q[i]], s)}
           p == Insertion(m, a, s)
<1>1. AreaList(R, q, a) /\ Len(q) \in Nat /\ s \in Int
    BY Entries, PageBounds DEF Good, AreaList
<1>2. p = IF before = {} THEN Len(q) + 1 ELSE First(before)
    BY DEF Insertion
<1>3. \A i : i \in before <=> i \in 1 .. Len(q) /\ range_before_page(R[q[i]], s)
    OBVIOUS
<1> HIDE DEF p, before
<1>4. CASE before = {}
    <2>1. p = Len(q) + 1
        BY <1>2, <1>4
    <2>2. \A i \in 1 .. p - 1 : i \in 1 .. Len(q)
        BY <1>1, <2>1
    <2>3. \A i \in p .. Len(q) : FALSE
        BY <1>1, <2>1
    <2>4. QED
        BY <1>1, <1>3, <1>4, <2>1, <2>2, <2>3 DEF Split, p
<1>5. CASE before # {}
    <2>1. before \in SUBSET Nat
        BY <1>1, <1>3
    <2>2. p \in before /\ \A j \in before : p <= j
        BY <1>2, <1>5, <2>1, FirstExists
    <2>3. p \in 1 .. Len(q) /\ R[q[p]].pgend < s
        BY <1>3, <2>2 DEF range_before_page
    <2>4. \A i \in 1 .. p - 1 : i \in 1 .. Len(q) /\ ~(p <= i)
        BY <1>1, <2>3
    <2>5. \A i \in 1 .. p - 1 : ~range_before_page(R[q[i]], s)
        BY <1>3, <2>2, <2>4
    <2>6. ASSUME NEW i \in p .. Len(q) PROVE R[q[i]].pgend < s
        <3>1. i \in 1 .. Len(q) /\ (i = p \/ p < i)
            BY <1>1, <2>3
        <3>2. CASE p < i
            <4> DEFINE x == R[q[i]].pgend
                       y == R[q[p]].pgstart
                       z == R[q[p]].pgend
            <4>1. y \in Int /\ z \in Int /\ y <= z + 1
                BY <1>1, <2>3 DEF AreaList
            <4>2. x \in Int
                BY <1>1, <3>1 DEF AreaList
            <4>3. x < y
                BY <1>1, <2>3, <3>1, <3>2 DEF AreaList
            <4>4. z < s /\ s \in Int
                BY <1>1, <2>3
            <4> HIDE DEF x, y, z
            <4>5. x < s
                BY <4>1, <4>2, <4>3, <4>4
            <4>6. QED
                BY <4>5 DEF x
        <3>3. QED
            BY <2>3, <3>1, <3>2
    <2>7. p \in 1 .. Len(q) + 1
        BY <1>1, <2>3
    <2>8. QED
        BY <2>4, <2>5, <2>6, <2>7 DEF Split, range_before_page, p
<1>6. QED
    BY <1>4, <1>5

\* The pages that ashmem_get_pin_status takes for unpinned.
SuspectOf(R, a) == PagesOf(R, OfArea(a)) \cup EndsOf(R, OfArea(a))

\* ashmem_get_pin_status looks at every range that matters.
LEMMA StatusFacts ==
    ASSUME NEW m, Good(m), NEW a \in Areas, NEW s \in Pages, NEW e \in Pages, s <= e
    PROVE  ashmem_get_pin_status(m, a, s, e) <=> \E p \in s .. e : p \in SuspectOf(m.range, a)
<1> DEFINE R == m.range
           q == m.unpinned[a]
           d == Insertion(m, a, s)
<1>1. AreaList(R, q, a) /\ RangesOK(R) /\ Apart(R, m.unpinned) /\ Len(q) \in Nat /\ s \in Starts
    BY Entries, PageBounds DEF Good, AreaList
<1>2. Split(R, q, s, d)
    BY <1>1, InsertionSplits
<1>3. ashmem_get_pin_status(m, a, s, e) <=> \E i \in 1 .. d - 1 : page_range_in_range(R[q[i]], s, e)
    BY DEF ashmem_get_pin_status
<1> HIDE DEF d
<1>4. (\E i \in 1 .. d - 1 : page_range_in_range(R[q[i]], s, e))
      <=> \E i \in 1 .. Len(q) : Meeting(R[q[i]], s, e)
    <2>1. \A i \in 1 .. Len(q) : i \in 1 .. d - 1 \/ i \in d .. Len(q)
        BY <1>1, <1>2 DEF Split
    <2>2. QED
        BY <1>2, <2>1 DEF Split, Meeting
<1>5. ASSUME NEW i \in 1 .. Len(q), Meeting(R[q[i]], s, e)
      PROVE  \E p \in s .. e : p \in SuspectOf(R, a)
    <2>1. q[i] \in Ranges /\ R[q[i]] \in RangeRecords /\ R[q[i]].pgstart <= R[q[i]].pgend + 1
        BY <1>1 DEF AreaList
    <2>2. R[q[i]] \in OfArea(a) /\ R[q[i]].pgend \in Pages
        BY <1>1, <2>1, RecordTypes DEF AreaList, OfArea
    <2>3. \/ \E p \in s .. e : p \in Pages /\ page_in_range(R[q[i]], p)
          \/ Empty(R[q[i]]) /\ R[q[i]].pgend \in s .. e
        BY <1>5, <2>1, MeetPages
    <2>4. QED
        BY <2>1, <2>2, <2>3 DEF SuspectOf, PagesOf, EndsOf
<1>6. ASSUME NEW p \in s .. e, p \in SuspectOf(R, a)
      PROVE  \E i \in 1 .. Len(q) : Meeting(R[q[i]], s, e)
    <2>1. PICK k \in Ranges : /\ R[k] \in OfArea(a) /\ p \in Pages
                              /\ page_in_range(R[k], p) \/ (Empty(R[k]) /\ R[k].pgend = p)
        BY <1>6 DEF SuspectOf, PagesOf, EndsOf
    <2>2. R[k] # None /\ R[k].area = a
        BY <2>1, NoneAssumption DEF OfArea
    <2>3. (\E i \in 1 .. Len(q) : q[i] = k) /\ R[k] \in RangeRecords /\ R[k].pgstart <= R[k].pgend + 1
        BY <1>1, <2>2, InList
    <2>4. Meeting(R[k], s, e)
        BY <2>1, <2>3, MeetPages
    <2>5. QED
        BY <2>3, <2>4
<1>7. QED
    BY <1>3, <1>4, <1>5, <1>6

-----------------------------------------------------------------------------
(***************************************************************************)
(* The walk of ashmem_unpin.                                               *)
(***************************************************************************)
LEMMA MergeWalkSteps ==
    ASSUME NEW m, NEW a, NEW s, NEW e, Len(m.unpinned[a]) \in Nat
    PROVE  LET w == MergeWalk(m, a, s, e)
           IN  /\ w[0] = [m |-> m, purged |-> FALSE, s |-> s, e |-> e]
               /\ \A i \in 1 .. Len(m.unpinned[a]) : w[i] = MergeRange(w[i - 1], a)
<1> DEFINE begin == [m |-> m, purged |-> FALSE, s |-> s, e |-> e]
           q == m.unpinned[a]
           W(w) == w = [i \in 0 .. Len(q) |-> IF i = 0 THEN begin ELSE MergeRange(w[i - 1], a)]
<1>1. \E w : Steps(2, a, 0, 0, 0, begin, q, Len(q), w)
    BY WalksExist
<1>2. \A w : Steps(2, a, 0, 0, 0, begin, q, Len(q), w) <=> W(w)
    BY DEF Steps, Step
<1>3. MergeWalk(m, a, s, e) = CHOOSE w : W(w)
    BY DEF MergeWalk
<1>4. W(MergeWalk(m, a, s, e))
    BY <1>1, <1>2, <1>3
<1> DEFINE walk == MergeWalk(m, a, s, e)
<1> HIDE DEF begin, walk
<1>5. walk = [i \in 0 .. Len(q) |-> IF i = 0 THEN begin ELSE MergeRange(walk[i - 1], a)]
    BY <1>4 DEF walk
<1>6. walk[0] = begin
    BY <1>5
<1>7. ASSUME NEW i \in 1 .. Len(q) PROVE walk[i] = MergeRange(walk[i - 1], a)
  <2>1. i \in 0 .. Len(q) /\ i # 0
    OBVIOUS
  <2>2. QED
    BY <1>5, <2>1
<1>8. QED
    BY <1>6, <1>7 DEF begin, walk

\* So far: ranges were deleted, and the interval has their pages.
MergeInv(at, m, a, s, e, i) ==
    /\ Good(at.m) /\ Elsewhere(at.m.range, m.range, a)
    /\ at.s \in Pages /\ at.e \in Pages /\ at.s <= s /\ e <= at.e /\ at.purged \in BOOLEAN
    /\ \A k \in Ranges : at.m.range[k] # None => at.m.range[k] = m.range[k]
    /\ \A p \in Pages : p \in PagesOf(at.m.range, OfArea(a)) \/ p \in at.s .. at.e
                        <=> p \in PagesOf(m.range, OfArea(a)) \/ p \in s .. e
    /\ \A p \in PagesOf(m.range, PurgedOf(a)) :
          \/ p \in PagesOf(at.m.range, PurgedOf(a))
          \/ at.purged /\ p \in at.s .. at.e /\ p \notin PagesOf(at.m.range, OfArea(a))
    /\ Merges(at, a) => Len(at.m.unpinned[a]) + i = Len(m.unpinned[a])

(***************************************************************************)
(* For an interval with a page, ashmem_unpin meets what the other loops    *)
(* meet.                                                                   *)
(***************************************************************************)
LEMMA MetIs ==
    ASSUME NEW m, Good(m), NEW a \in Areas, NEW s \in Pages, NEW e \in Pages, s <= e
    PROVE  Met(m, a, s, e) = {j \in 1 .. Len(m.unpinned[a]) : Meeting(m.range[m.unpinned[a][j]], s, e)}
<1> DEFINE R == m.range
           q == m.unpinned[a]
           d == Insertion(m, a, s)
<1>1. AreaList(R, q, a) /\ Len(q) \in Nat /\ s \in Starts
    BY Entries, PageBounds DEF Good, AreaList
<1>2. Split(R, q, s, d)
    BY <1>1, InsertionSplits
<1>3. \A j : j \in Met(m, a, s, e) <=> j \in 1 .. d - 1 /\
               (page_range_in_range(R[q[j]], s, e) \/ subsumed_by(R[q[j]], s, e))
    BY DEF Met
<1> HIDE DEF d
<1>4. \A j \in 1 .. Len(q) : subsumed_by(R[q[j]], s, e) => Meeting(R[q[j]], s, e)
    <2>1. \A j \in 1 .. Len(q) : R[q[j]] \in RangeRecords /\ R[q[j]].pgstart <= R[q[j]].pgend + 1
        BY <1>1 DEF AreaList
    <2>2. QED
        BY <2>1, MeetPages
<1>5. \A j \in 1 .. Len(q) : j \in 1 .. d - 1 \/ j \in d .. Len(q)
    BY <1>1, <1>2 DEF Split
<1>6. \A j : j \in Met(m, a, s, e) <=> j \in 1 .. Len(q) /\ Meeting(R[q[j]], s, e)
    BY <1>2, <1>3, <1>4, <1>5 DEF Split, Meeting
<1>7. QED
    BY <1>6

\* Range k of the area is the first in its list that the loops meet.
MetFirst(m, a, s, e, k) ==
    /\ k \in Ranges /\ m.range[k] \in OfArea(a) /\ m.range[k].pgstart <= m.range[k].pgend + 1
    /\ Meeting(m.range[k], s, e) /\ Len(m.unpinned[a]) # 0
    /\ \E i \in 1 .. Len(m.unpinned[a]) :
          /\ m.unpinned[a][i] = k
          /\ \A j \in 1 .. Len(m.unpinned[a]) : Meeting(m.range[m.unpinned[a][j]], s, e) => i <= j

\* The range that the interval is merged with, or that it lies in.
LEMMA MetFacts ==
    ASSUME NEW m, Good(m), NEW a \in Areas, NEW s \in Pages, NEW e \in Pages, s <= e,
           Met(m, a, s, e) # {}
    PROVE  MetFirst(m, a, s, e, FirstMet(m, a, s, e))
<1> DEFINE R == m.range
           q == m.unpinned[a]
           M == Met(m, a, s, e)
           i == First(M)
<1>1. AreaList(R, q, a) /\ Len(q) \in Nat
    BY Entries DEF Good, AreaList
<1>2. \A j : j \in M <=> j \in 1 .. Len(q) /\ Meeting(R[q[j]], s, e)
    BY MetIs
<1>3. FirstMet(m, a, s, e) = q[i] /\ M # {}
    BY DEF FirstMet
<1> HIDE DEF M
<1>4. M \in SUBSET Nat
    BY <1>1, <1>2
<1>5. i \in M /\ \A j \in M : i <= j
    BY <1>3, <1>4, FirstExists
<1> HIDE DEF i
<1>6. i \in 1 .. Len(q) /\ Meeting(R[q[i]], s, e)
    BY <1>2, <1>5
<1>7. q[i] \in Ranges /\ R[q[i]] \in RangeRecords /\ R[q[i]].area = a
      /\ R[q[i]].pgstart <= R[q[i]].pgend + 1
    BY <1>1, <1>6 DEF AreaList
<1>8. Len(q) # 0
    BY <1>1, <1>6
<1>9. \A j \in 1 .. Len(q) : Meeting(R[q[j]], s, e) => i <= j
    BY <1>2, <1>5
<1>10. QED
    BY <1>3, <1>6, <1>7, <1>8, <1>9 DEF OfArea, MetFirst

\* An interval and a range that it meets make one interval.
LEMMA Joined ==
    ASSUME NEW r \in RangeRecords, r.pgstart <= r.pgend + 1, NEW s \in Pages, NEW e \in Pages, s <= e,
           Meeting(r, s, e), NEW f, NEW t,
           f = IF r.pgstart < s THEN r.pgstart ELSE s, t = IF r.pgend > e THEN r.pgend ELSE e
    PROVE  /\ f \in Pages /\ t \in Pages /\ f <= s /\ e <= t
           /\ \A p \in Pages : p \in f .. t <=> p \in s .. e \/ page_in_range(r, p)
<1>1. /\ r.pgstart \in Starts /\ r.pgend \in Pages /\ r.pgstart \in Int /\ r.pgend \in Int
      /\ s \in Int /\ e \in Int /\ s \in Starts /\ s <= e + 1 /\ \A p \in Pages : p \in Int
    BY RecordTypes, PageBounds
<1>2. s <= r.pgend /\ r.pgstart <= e + 1
    BY <1>1, MeetTests
<1>3. f \in Pages /\ t \in Pages /\ f <= s /\ e <= t /\ f \in Int /\ t \in Int
    BY <1>1, SizesAssumption DEF Pages, Starts
<1>4. ASSUME NEW p \in Pages PROVE p \in f .. t <=> p \in s .. e \/ page_in_range(r, p)
    BY <1>1, <1>2, <1>3 DEF page_in_range
<1>5. QED
    BY <1>3, <1>4

(***************************************************************************)
(* One restart of ashmem_unpin.                                            *)
(***************************************************************************)
LEMMA MergeStep ==
    ASSUME NEW m, Good(m), NEW a \in Areas, NEW s \in Pages, NEW e \in Pages, s <= e,
           NEW i \in Nat, NEW at, MergeInv(at, m, a, s, e, i)
    PROVE  MergeInv(MergeRange(at, a), m, a, s, e, i + 1)
<1> DEFINE n == at.m
           Q == n.range
           R == m.range
           k == FirstMet(n, a, at.s, at.e)
           r == Q[k]
           next == MergeRange(at, a)
<1>1. /\ Good(n) /\ Elsewhere(Q, R, a)
      /\ at.s \in Pages /\ at.e \in Pages /\ at.s <= s /\ e <= at.e /\ at.purged \in BOOLEAN
      /\ \A z \in Ranges : Q[z] # None => Q[z] = R[z]
      /\ \A p \in Pages : p \in PagesOf(Q, OfArea(a)) \/ p \in at.s .. at.e
                          <=> p \in PagesOf(R, OfArea(a)) \/ p \in s .. e
      /\ \A p \in PagesOf(R, PurgedOf(a)) :
            \/ p \in PagesOf(Q, PurgedOf(a))
            \/ at.purged /\ p \in at.s .. at.e /\ p \notin PagesOf(Q, OfArea(a))
      /\ Merges(at, a) => Len(n.unpinned[a]) + i = Len(m.unpinned[a])
    BY DEF MergeInv
<1>2. at.s <= at.e /\ at.s \in Int /\ at.e \in Int /\ s \in Int /\ e \in Int
    BY <1>1, PageBounds
<1>3. CASE ~Merges(at, a)
    <2>1. next = at
        BY <1>3 DEF MergeRange
    <2>2. QED
        BY <1>3, <2>1 DEF MergeInv
<1>4. CASE Merges(at, a)
    <2> DEFINE f == IF r.pgstart < at.s THEN r.pgstart ELSE at.s
               t == IF r.pgend > at.e THEN r.pgend ELSE at.e
               n1 == range_del(n, k)
               Q1 == n1.range
    <2>1. next = [m |-> n1, purged |-> at.purged \/ r.purged, s |-> f, e |-> t]
        BY <1>4 DEF MergeRange
    <2>2. next.m = n1 /\ next.purged = (at.purged \/ r.purged) /\ next.s = f /\ next.e = t
        BY <2>1
    <2>3. Met(n, a, at.s, at.e) # {}
        BY <1>4 DEF Merges
    <2>4. /\ k \in Ranges /\ r \in OfArea(a) /\ r.pgstart <= r.pgend + 1 /\ Meeting(r, at.s, at.e)
          /\ Len(n.unpinned[a]) # 0
        BY <1>2, <1>1, <2>3, MetFacts DEF MetFirst
    <2>5. r \in RangeRecords /\ r # None /\ r.area = a /\ r.purged \in BOOLEAN
        BY <2>4, RecordTypes, NoneAssumption DEF OfArea
    <2>6. /\ f \in Pages /\ t \in Pages /\ f <= at.s /\ at.e <= t
          /\ \A p \in Pages : p \in f .. t <=> p \in at.s .. at.e \/ page_in_range(r, p)
        <3>1. f = (IF r.pgstart < at.s THEN r.pgstart ELSE at.s) /\
                t = IF r.pgend > at.e THEN r.pgend ELSE at.e
            OBVIOUS
        <3> HIDE DEF f, t, r
        <3>2. QED
            BY <1>2, <1>1, <2>4, <2>5, <3>1, Joined
    <2>7. /\ Good(n1) /\ Q1 = [Q EXCEPT ![k] = None]
          /\ Len(n1.unpinned[a]) = Len(n.unpinned[a]) - 1
        <3>1. Deleted(n, n1, k)
            BY <1>1, <2>4, <2>5, DelFacts
        <3>2. QED
            BY <2>5, <3>1 DEF Deleted
    <2>8. RangesOK(Q) /\ Apart(Q, n.unpinned) /\ RangesOK(R) /\ Len(n.unpinned[a]) \in Nat
        BY <1>1, Entries DEF Good, AreaList
    <2>9. r = Q[k]
        OBVIOUS
    <2> HIDE DEF f, t, r, k, n1, Q1, n, Q, R, next
    <2>10. /\ \A S : Kind(S, a) => \A p \in Pages :
                 p \in PagesOf(Q1, S) <=> p \in PagesOf(Q, S) /\ ~page_in_range(r, p)
           /\ Elsewhere(Q1, Q, a)
        <3>1. /\ \A S : Kind(S, a) => \A p \in Pages :
                   p \in PagesOf([Q EXCEPT ![k] = None], S) <=> p \in PagesOf(Q, S) /\
                     ~page_in_range(Q[k], p)
              /\ Elsewhere([Q EXCEPT ![k] = None], Q, a)
            BY <2>4, <2>8, <2>9, PagesDelete
        <3>2. QED
            BY <2>7, <2>9, <3>1
    <2>11. /\ \A p \in Pages : p \in PagesOf(Q1, OfArea(a)) <=> p \in PagesOf(Q, OfArea(a)) /\
                                 ~page_in_range(r, p)
           /\ \A p \in Pages : p \in PagesOf(Q1, PurgedOf(a)) <=> p \in PagesOf(Q, PurgedOf(a)) /\
                                 ~page_in_range(r, p)
        BY <2>10, Kinds
    <2>12. Elsewhere(Q1, R, a)
        BY <1>1, <2>10, ElsewhereTrans
    <2>13. \A p \in Pages : p \in PagesOf(Q1, OfArea(a)) \/ p \in f .. t
                            <=> p \in PagesOf(R, OfArea(a)) \/ p \in s .. e
        <3>1. \A p \in Pages : page_in_range(r, p) => p \in PagesOf(Q, OfArea(a))
            BY <2>4, <2>9 DEF PagesOf
        <3>2. QED
            BY <1>1, <2>6, <2>11, <3>1
    <2>14. ASSUME NEW p \in PagesOf(R, PurgedOf(a))
           PROVE  \/ p \in PagesOf(Q1, PurgedOf(a))
                  \/ (at.purged \/ r.purged) /\ p \in f .. t /\ p \notin PagesOf(Q1, OfArea(a))
        <3>1. p \in Pages
            BY DEF PagesOf
        <3>2. CASE at.purged /\ p \in at.s .. at.e /\ p \notin PagesOf(Q, OfArea(a))
            BY <2>6, <2>11, <3>1, <3>2
        <3>3. CASE p \in PagesOf(Q, PurgedOf(a)) /\ ~page_in_range(r, p)
            BY <2>11, <3>1, <3>3
        <3>4. CASE p \in PagesOf(Q, PurgedOf(a)) /\ page_in_range(r, p)
            <4>1. PICK l \in Ranges : Q[l] \in PurgedOf(a) /\ page_in_range(Q[l], p)
                BY <3>4 DEF PagesOf
            <4>2. Q[l] \in OfArea(a)
                BY <4>1 DEF PurgedOf
            <4>3. l = k
                BY <2>4, <2>8, <2>9, <3>1, <3>4, <4>1, <4>2, Disjoint
            <4>4. r.purged
                BY <2>9, <4>1, <4>3 DEF PurgedOf
            <4>5. QED
                BY <2>6, <2>11, <3>1, <3>4, <4>4
        <3>5. QED
            BY <1>1, <3>2, <3>3, <3>4
    <2>15. /\ \A z \in Ranges : Q1[z] # None => Q1[z] = R[z]
           /\ f <= s /\ e <= t
        <3>1. \A z \in Ranges : Q1[z] = IF z = k THEN None ELSE Q[z]
            BY <2>7, <2>8 DEF RangesOK
        <3>2. f \in Int /\ t \in Int
            BY <2>6, PageBounds
        <3>3. f <= s /\ e <= t
            BY <1>2, <1>1, <2>6, <3>2
        <3>4. QED
            BY <1>1, <3>1, <3>3
    <2>16. Len(n1.unpinned[a]) + (i + 1) = Len(m.unpinned[a])
        <3>1. Len(n.unpinned[a]) + i = Len(m.unpinned[a])
            BY <1>1, <1>4
        <3> DEFINE y == Len(n.unpinned[a])
        <3>2. y \in Nat /\ Len(n1.unpinned[a]) = y - 1 /\ y + i = Len(m.unpinned[a])
            BY <2>7, <2>8, <3>1
        <3> HIDE DEF y
        <3>3. (y - 1) + (i + 1) = y + i
            BY <3>2
        <3>4. QED
            BY <3>2, <3>3
    <2>17. MergeInv(next, m, a, s, e, i + 1)
        <3>1. (at.purged \/ r.purged) \in BOOLEAN
            OBVIOUS
        <3>2. next.purged <=> at.purged \/ r.purged
            BY <2>2
        <3>3. next.purged \in BOOLEAN
            BY <2>2
        <3>4. QED
            BY <2>2, <2>6, <2>7, <2>12, <2>13, <2>14, <2>15, <2>16, <3>2, <3>3 DEF MergeInv, R, Q1
    <2>18. QED
        BY <2>17 DEF next
<1>5. QED
    BY <1>3, <1>4

\* What a call of ashmem_unpin does.
UnpinResult(m, a, s, e, call) ==
    /\ Good(call.m) /\ Elsewhere(call.m.range, m.range, a) /\ call.failed \in BOOLEAN
    /\ ~call.failed =>
          /\ PagesOf(call.m.range, OfArea(a)) = PagesOf(m.range, OfArea(a)) \cup s .. e
          /\ PagesOf(m.range, PurgedOf(a)) \subseteq PagesOf(call.m.range, PurgedOf(a))
          /\ EndsOf(call.m.range, OfArea(a)) \subseteq EndsOf(m.range, OfArea(a)) \ s .. e

\* The walk is over when every range was merged, or before.
LEMMA MergeWalkEnds ==
    ASSUME NEW m, Good(m), NEW a \in Areas, NEW s \in Pages, NEW e \in Pages, s <= e
    PROVE  LET at == MergeWalk(m, a, s, e)[Len(m.unpinned[a])]
           IN  MergeInv(at, m, a, s, e, Len(m.unpinned[a])) /\ ~Merges(at, a)
<1> DEFINE q == m.unpinned[a]
           w == MergeWalk(m, a, s, e)
           at == w[Len(q)]
<1>1. Len(q) \in Nat
    BY Entries DEF Good, AreaList
<1>2. /\ w[0] = [m |-> m, purged |-> FALSE, s |-> s, e |-> e]
      /\ \A i \in 1 .. Len(q) : w[i] = MergeRange(w[i - 1], a)
    BY <1>1, MergeWalkSteps
<1> HIDE DEF w
<1> DEFINE T == {i \in Nat : i <= Len(q) => MergeInv(w[i], m, a, s, e, i)}
<1>3. 0 \in T
    <2>1. /\ w[0].m = m /\ w[0].s = s /\ w[0].e = e /\ w[0].purged = FALSE
          /\ s <= s /\ e <= e
        BY <1>2, PageBounds
    <2>2. Elsewhere(m.range, m.range, a)
        BY DEF Elsewhere
    <2>3. Len(q) + 0 = Len(q)
        BY <1>1
    <2>4. MergeInv(w[0], m, a, s, e, 0)
        BY <2>1, <2>2, <2>3 DEF MergeInv
    <2>5. QED
        BY <2>4
<1>4. ASSUME NEW i \in T PROVE i + 1 \in T
    <2>1. SUFFICES ASSUME i + 1 <= Len(q) PROVE MergeInv(w[i + 1], m, a, s, e, i + 1)
        OBVIOUS
    <2>2. i \in Nat /\ i <= Len(q) /\ i + 1 \in 1 .. Len(q) /\ (i + 1) - 1 = i
        BY <1>1, <2>1
    <2>3. w[i + 1] = MergeRange(w[i], a)
        BY <1>2, <2>2
    <2>4. MergeInv(w[i], m, a, s, e, i)
        BY <2>2
    <2>5. QED
        BY <2>2, <2>3, <2>4, MergeStep
<1>5. T = Nat
    BY <1>3, <1>4, SetInduction
<1>6. MergeInv(at, m, a, s, e, Len(q))
    BY <1>1, <1>5
<1> HIDE DEF at
<1>7. ASSUME Merges(at, a) PROVE FALSE
    <2>1. Good(at.m) /\ at.s \in Pages /\ at.e \in Pages /\ at.s <= s /\ e <= at.e
          /\ Len(at.m.unpinned[a]) + Len(q) = Len(q)
        BY <1>6, <1>7 DEF MergeInv
    <2>2. Good(at.m) /\ at.s \in Pages /\ at.e \in Pages /\ at.s <= at.e
          /\ Len(at.m.unpinned[a]) + Len(q) = Len(q)
        <3>1. at.s \in Int /\ s \in Int /\ e \in Int /\ at.e \in Int
            BY <2>1, PageBounds
        <3>2. at.s <= at.e
            BY <2>1, <3>1
        <3>3. QED
            BY <2>1, <3>2
    <2>3. Len(at.m.unpinned[a]) \in Nat
        BY <2>2, Entries DEF Good, AreaList
    <2>4. Len(at.m.unpinned[a]) = 0
        <3> DEFINE x == Len(at.m.unpinned[a])
                   y == Len(q)
        <3>1. x \in Nat /\ y \in Nat /\ x + y = y
            BY <1>1, <2>2, <2>3
        <3> HIDE DEF x, y
        <3>2. x = 0
            BY <3>1
        <3>3. QED
            BY <3>2 DEF x
    <2>5. Met(at.m, a, at.s, at.e) # {}
        BY <1>7 DEF Merges
    <2>6. QED
        BY <2>2, <2>4, <2>5, MetFacts DEF MetFirst
<1>8. QED
    BY <1>6, <1>7 DEF at, w

\* The range that ashmem_unpin allocates.
NewRange(a, s, e, b) == [area |-> a, pgstart |-> s, pgend |-> e, purged |-> b]

(***************************************************************************)
(* It is the record of a range.                                            *)
(***************************************************************************)
LEMMA NewRecord ==
    ASSUME NEW a \in Areas, NEW s \in Starts, NEW e \in Pages, NEW b \in BOOLEAN
    PROVE  LET x == NewRange(a, s, e, b)
           IN  x \in RangeRecords /\ x.area = a /\ x.pgstart = s /\ x.pgend = e /\ (x.purged <=> b)
BY DEF NewRange, RangeRecords, Starts

(***************************************************************************)
(* What ashmem_unpin does: it keeps the lists good, and unless the         *)
(* allocation failed the unpinned pages are those before and the interval, *)
(* and no purged page is forgotten.                                        *)
(***************************************************************************)
LEMMA UnpinFacts ==
    ASSUME NEW m, Good(m), NEW a \in Areas, NEW s \in Pages, NEW e \in Pages, s <= e, NEW mem \in BOOLEAN
    PROVE  UnpinResult(m, a, s, e, ashmem_unpin(m, a, s, e, mem))
<1> DEFINE R == m.range
           at == MergeWalk(m, a, s, e)[Len(m.unpinned[a])]
           n == at.m
           Q == n.range
           f == at.s
           t == at.e
           x == [area |-> a, pgstart |-> f, pgend |-> t, purged |-> at.purged]
           d == Insertion(n, a, f)
           call == ashmem_unpin(m, a, s, e, mem)
<1>1. call = IF Met(n, a, f, t) # {} THEN [m |-> n, failed |-> FALSE]
             ELSE IF ~mem \/ Free(n) = {} THEN [m |-> n, failed |-> TRUE]
             ELSE [m |-> range_alloc(n, d, x), failed |-> FALSE]
    BY DEF ashmem_unpin
<1>2. MergeInv(at, m, a, s, e, Len(m.unpinned[a])) /\ ~Merges(at, a)
    BY MergeWalkEnds
<1> HIDE DEF at
<1>3. /\ Good(n) /\ Elsewhere(Q, R, a)
      /\ f \in Pages /\ t \in Pages /\ f <= s /\ e <= t /\ at.purged \in BOOLEAN
      /\ \A z \in Ranges : Q[z] # None => Q[z] = R[z]
      /\ \A p \in Pages : p \in PagesOf(Q, OfArea(a)) \/ p \in f .. t
                          <=> p \in PagesOf(R, OfArea(a)) \/ p \in s .. e
      /\ \A p \in PagesOf(R, PurgedOf(a)) :
            \/ p \in PagesOf(Q, PurgedOf(a))
            \/ at.purged /\ p \in f .. t /\ p \notin PagesOf(Q, OfArea(a))
    BY <1>2 DEF MergeInv
<1>4. ~Merges(at, a) <=> Met(n, a, f, t) = {} \/ subsumed_by(Q[FirstMet(n, a, f, t)], f, t)
    BY DEF Merges
<1>5. x \in RangeRecords /\ x.area = a /\ x.pgstart = f /\ x.pgend = t /\ (x.purged <=> at.purged)
    <2>1. f \in Starts /\ t \in Pages /\ at.purged \in BOOLEAN
        BY <1>3, PageBounds
    <2> HIDE DEF f, t
    <2>2. QED
        BY <2>1, NewRecord DEF NewRange
<1>6. \A p \in s .. e : p \in Pages
    BY SizesAssumption DEF Pages
<1>7. \A p \in Pages : p \in Int
    BY PageBounds
<1>8. f \in Int /\ t \in Int /\ s \in Int /\ e \in Int /\ f \in Starts
    BY <1>3, PageBounds
<1> HIDE DEF call, n, Q, f, t, x, d, R
<1>9. f <= t /\ \A p \in s .. e : p \in f .. t
    BY <1>3, <1>8
<1>10. AreaList(Q, n.unpinned[a], a) /\ RangesOK(Q) /\ Apart(Q, n.unpinned)
    BY <1>3, Entries DEF Good, Q
<1>11. ASSUME NEW z \in Ranges, Q[z] \in OfArea(a)
       PROVE  /\ Q[z] # None /\ \E j \in 1 .. Len(n.unpinned[a]) : n.unpinned[a][j] = z
              /\ Q[z] \in RangeRecords /\ Q[z].pgstart <= Q[z].pgend + 1
    <2>1. Q[z] # None /\ Q[z].area = a
        BY <1>11, NoneAssumption DEF OfArea
    <2>2. QED
        BY <1>10, <2>1, InList
<1>12. ASSUME NEW z \in Ranges, Q[z] \in OfArea(a), Empty(Q[z]), Q[z].pgend \in f .. t
       PROVE  Meeting(Q[z], f, t)
    BY <1>3, <1>9, <1>11, <1>12, MeetPages
<1>13. ASSUME \A z \in Ranges : Q[z] \in OfArea(a) /\ Empty(Q[z]) => Q[z].pgend \notin f .. t
       PROVE  EndsOf(Q, OfArea(a)) \subseteq EndsOf(R, OfArea(a)) \ s .. e
    <2>1. \A z \in Ranges : Q[z] \in OfArea(a) /\ Empty(Q[z]) =>
             Q[z] = R[z] /\ Q[z].pgend \notin s .. e
        BY <1>3, <1>9, <1>11, <1>13
    <2>2. QED
        BY <2>1 DEF EndsOf
<1>14. CASE Met(n, a, f, t) # {}
    <2> DEFINE k == FirstMet(n, a, f, t)
    <2>1. call.m = n /\ call.failed = FALSE
        BY <1>1, <1>14
    <2>2. MetFirst(n, a, f, t, k)
        BY <1>3, <1>9, <1>14, MetFacts
    <2>3. k \in Ranges /\ Q[k] \in OfArea(a)
        BY <2>2 DEF MetFirst, Q
    <2>4. subsumed_by(Q[k], f, t)
        BY <1>2, <1>4, <1>14
    <2>5. Q[k].pgstart \in Int /\ Q[k].pgend \in Int
        BY <2>3, RecordTypes DEF OfArea
    <2>6. \A p \in Pages : p \in f .. t => p \in PagesOf(Q, OfArea(a))
        <3>1. \A p \in Pages : p \in f .. t => page_in_range(Q[k], p)
            BY <1>3, <1>7, <2>4, <2>5 DEF subsumed_by, page_in_range
        <3>2. QED
            BY <2>3, <3>1 DEF PagesOf
    <2>7. ASSUME NEW z \in Ranges, Q[z] \in OfArea(a), Empty(Q[z]), Q[z].pgend \in f .. t
          PROVE  FALSE
        <3> DEFINE q == n.unpinned[a]
        <3>1. PICK i \in 1 .. Len(q) :
                 q[i] = k /\ \A j \in 1 .. Len(q) : Meeting(Q[q[j]], f, t) => i <= j
            BY <2>2 DEF MetFirst, Q
        <3>2. PICK j \in 1 .. Len(q) : q[j] = z
            BY <1>11, <2>7
        <3>3. i <= j /\ Len(q) \in Nat
            BY <1>10, <1>12, <2>7, <3>1, <3>2 DEF AreaList
        <3>4. ~Empty(Q[k]) /\ z # k
            <4>1. Q[k] \in RangeRecords /\ Q[k].pgstart <= Q[k].pgend + 1
                BY <1>11, <2>3
            <4>2. QED
                BY <1>3, <1>9, <2>4, <2>7, <4>1, MeetPages
        <3>5. i < j
            BY <3>1, <3>2, <3>3, <3>4
        <3>6. Q[z].pgend < Q[k].pgstart
            BY <1>10, <3>1, <3>2, <3>5 DEF AreaList
        <3>7. Q[z].pgend \in Int
            BY <2>7, RecordTypes DEF OfArea
        <3>8. QED
            BY <1>8, <2>4, <2>5, <2>7, <3>6, <3>7 DEF subsumed_by
    <2>8. PagesOf(Q, OfArea(a)) = PagesOf(R, OfArea(a)) \cup s .. e
        <3>1. \A p \in Pages : p \in PagesOf(Q, OfArea(a)) <=>
                 p \in PagesOf(R, OfArea(a)) \/ p \in s .. e
            BY <1>3, <2>6
        <3>2. \A p : (p \in PagesOf(Q, OfArea(a)) => p \in Pages) /\
                       (p \in PagesOf(R, OfArea(a)) => p \in Pages)
            BY DEF PagesOf
        <3>3. QED
            BY <1>6, <3>1, <3>2
    <2>9. PagesOf(R, PurgedOf(a)) \subseteq PagesOf(Q, PurgedOf(a))
        <3>1. \A p \in PagesOf(R, PurgedOf(a)) : p \in Pages
            BY DEF PagesOf
        <3>2. QED
            BY <1>3, <2>6, <3>1
    <2>10. EndsOf(Q, OfArea(a)) \subseteq EndsOf(R, OfArea(a)) \ s .. e
        BY <1>13, <2>7
    <2>11. QED
        BY <1>3, <2>1, <2>8, <2>9, <2>10 DEF UnpinResult, call, Q, R
<1>15. CASE Met(n, a, f, t) = {} /\ (~mem \/ Free(n) = {})
    <2>1. call.m = n /\ call.failed = TRUE
        BY <1>1, <1>15
    <2>2. QED
        BY <1>3, <2>1 DEF UnpinResult, call, Q, R
<1>16. CASE Met(n, a, f, t) = {} /\ mem /\ Free(n) # {}
    <2> DEFINE n1 == range_alloc(n, d, x)
               q == n.unpinned[a]
    <2>1. call.m = n1 /\ call.failed = FALSE
        BY <1>1, <1>16
    <2>2. Split(Q, q, f, d) /\ AreaList(Q, q, a)
        BY <1>3, <1>8, <1>10, InsertionSplits DEF d, Q
    <2>3. \A j \in 1 .. Len(q) : ~Meeting(Q[q[j]], f, t)
        BY <1>3, <1>9, <1>16, MetIs DEF Q
    <2>4. ASSUME NEW i \in 1 .. d - 1 PROVE t < Q[q[i]].pgstart
        <3>1. i \in 1 .. Len(q) /\ ~range_before_page(Q[q[i]], f)
            BY <2>2 DEF Split
        <3>2. Q[q[i]] \in RangeRecords /\ Q[q[i]].pgstart <= Q[q[i]].pgend + 1
            BY <2>2, <3>1 DEF AreaList
        <3>3. ~page_range_in_range(Q[q[i]], f, t)
            BY <2>3, <3>1 DEF Meeting
        <3>4. Q[q[i]].pgstart \in Int /\ Q[q[i]].pgend \in Int
            BY <3>2, RecordTypes
        <3>5. QED
            BY <1>8, <1>9, <3>1, <3>3, <3>4
               DEF range_before_page, page_range_in_range, page_in_range, subsumes
    <2>5. \A i \in d .. Len(q) : Q[q[i]].pgend < f
        BY <2>2 DEF Split, range_before_page
    <2>6. /\ d \in 1 .. Len(n.unpinned[x.area]) + 1
          /\ \A i \in 1 .. d - 1 : x.pgend < n.range[n.unpinned[x.area][i]].pgstart
          /\ \A i \in d .. Len(n.unpinned[x.area]) : n.range[n.unpinned[x.area][i]].pgend < x.pgstart
        BY <1>5, <2>2, <2>4, <2>5 DEF Split, Q
    <2>7. x.pgstart <= x.pgend + 1
        BY <1>5, <1>8, <1>9
    <2>8. Allocated(n, n1, x, d)
        BY <1>3, <1>5, <1>16, <2>6, <2>7, AllocFacts
    <2>9. Good(n1) /\ \E k \in Ranges : Q[k] = None /\ n1.range = [Q EXCEPT ![k] = x]
        BY <2>8 DEF Allocated, Q
    <2> HIDE DEF n1
    <2>10. PICK k \in Ranges : Q[k] = None /\ n1.range = [Q EXCEPT ![k] = x]
        BY <2>9
    <2>11. x \in OfArea(a) /\ RangesOK(Q) /\ Kind(OfArea(a), a) /\ Kind(PurgedOf(a), a)
        BY <1>3, <1>5, Kinds DEF OfArea, Good, Q
    <2>12. /\ \A S : Kind(S, a) => \A p \in Pages :
                 p \in PagesOf(n1.range, S) <=> p \in PagesOf(Q, S) \/ (x \in S /\ page_in_range(x, p))
           /\ Elsewhere(n1.range, Q, a)
        BY SMTT(30), <2>10, <2>11, PagesAlloc
    <2>13. Elsewhere(n1.range, R, a)
        BY <1>3, <2>12, ElsewhereTrans
    <2>14. \A p \in Pages : page_in_range(x, p) <=> p \in f .. t
        BY <1>3, <1>5, <1>7, <1>8 DEF page_in_range
    <2>15. PagesOf(n1.range, OfArea(a)) = PagesOf(R, OfArea(a)) \cup s .. e
        <3>1. \A p \in Pages :
                 p \in PagesOf(n1.range, OfArea(a)) <=> p \in PagesOf(R, OfArea(a)) \/ p \in s .. e
            BY <1>3, <2>11, <2>12, <2>14
        <3>2. \A p : /\ p \in PagesOf(n1.range, OfArea(a)) => p \in Pages
                     /\ p \in PagesOf(R, OfArea(a)) => p \in Pages
            BY DEF PagesOf
        <3>3. QED
            BY <1>6, <3>1, <3>2
    <2>16. PagesOf(R, PurgedOf(a)) \subseteq PagesOf(n1.range, PurgedOf(a))
        <3>1. at.purged => x \in PurgedOf(a)
            BY <1>5, <2>11 DEF PurgedOf
        <3>2. \A p \in PagesOf(R, PurgedOf(a)) : p \in Pages
            BY DEF PagesOf
        <3>3. \A p \in Pages : p \in PagesOf(n1.range, PurgedOf(a))
                               <=> p \in PagesOf(Q, PurgedOf(a)) \/ (x \in PurgedOf(a) /\ p \in f .. t)
            BY <2>11, <2>12, <2>14
        <3>4. QED
            BY <1>3, <3>1, <3>2, <3>3
    <2>17. EndsOf(n1.range, OfArea(a)) \subseteq EndsOf(R, OfArea(a)) \ s .. e
        <3>1. \A z \in Ranges : n1.range[z] = IF z = k THEN x ELSE Q[z]
            BY <2>10, <2>11 DEF RangesOK
        <3>2. ~Empty(x)
            BY <1>5, <1>8, <1>9 DEF Empty
        <3>3. EndsOf(n1.range, OfArea(a)) \subseteq EndsOf(Q, OfArea(a))
            BY <3>1, <3>2 DEF EndsOf
        <3>4. ASSUME NEW z \in Ranges, Q[z] \in OfArea(a), Empty(Q[z]) PROVE Q[z].pgend \notin f .. t
            BY <1>11, <1>12, <2>3, <3>4
        <3>5. QED
            BY <1>13, <3>3, <3>4
    <2>18. QED
        BY <2>1, <2>9, <2>13, <2>15, <2>16, <2>17 DEF UnpinResult, call, R
<1>17. QED
    BY <1>14, <1>15, <1>16

\* What a call of ashmem_unpin does for the empty interval after page e.
UnpinnedNothing(m, a, e, call) ==
    /\ Good(call.m) /\ Elsewhere(call.m.range, m.range, a) /\ call.failed \in BOOLEAN
    /\ \A S : Kind(S, a) => PagesOf(call.m.range, S) = PagesOf(m.range, S)
    /\ \/ EndsOf(call.m.range, OfArea(a)) = EndsOf(m.range, OfArea(a))
       \/ EndsOf(call.m.range, OfArea(a)) = EndsOf(m.range, OfArea(a)) \cup {e}

(***************************************************************************)
(* The empty interval after page e is merged with nothing: what it meets   *)
(* lies around it.  Otherwise it goes between the ranges.                  *)
(***************************************************************************)
LEMMA NothingMet ==
    ASSUME NEW m, Good(m), NEW a \in Areas, NEW s \in Starts, NEW e \in Pages, s = e + 1
    PROVE  /\ Met(m, a, s, e) # {} => subsumed_by(m.range[FirstMet(m, a, s, e)], s, e)
           /\ Met(m, a, s, e) = {} => \A i \in 1 .. Insertion(m, a, s) - 1 :
                                         e < m.range[m.unpinned[a][i]].pgstart
<1> DEFINE R == m.range
           q == m.unpinned[a]
           d == Insertion(m, a, s)
           M == Met(m, a, s, e)
<1>1. AreaList(R, q, a) /\ Len(q) \in Nat /\ e \in Int /\ s \in Int
    BY Entries, PageBounds DEF Good, AreaList
<1>2. Split(R, q, s, d)
    BY InsertionSplits
<1>3. \A j : j \in M <=> j \in 1 .. d - 1 /\
               (page_range_in_range(R[q[j]], s, e) \/ subsumed_by(R[q[j]], s, e))
    BY DEF Met
<1>4. FirstMet(m, a, s, e) = q[First(M)]
    BY DEF FirstMet
<1> HIDE DEF M, d
<1>5. ASSUME NEW i \in 1 .. d - 1
      PROVE  /\ i \in Nat /\ i \in M => subsumed_by(R[q[i]], s, e)
             /\ i \notin M => e < R[q[i]].pgstart
    <2>1. i \in 1 .. Len(q) /\ ~range_before_page(R[q[i]], s)
        BY <1>2 DEF Split
    <2>2. R[q[i]].pgstart \in Int /\ R[q[i]].pgend \in Int
        BY <1>1, <2>1 DEF AreaList
    <2> DEFINE f == R[q[i]].pgstart
               t == R[q[i]].pgend
    <2>3. f \in Int /\ t \in Int /\ ~(t < s)
        BY <2>1, <2>2 DEF range_before_page
    <2>4. i \in M <=> (f <= s /\ t >= s) \/ (f <= e /\ t >= e) \/ (f >= s /\ t <= e) \/ (f <= s /\ t >= e)
        BY <1>3 DEF page_range_in_range, page_in_range, subsumes, subsumed_by
    <2> HIDE DEF f, t
    <2>5. (i \in M => f <= s /\ t >= e) /\ (i \notin M => e < f)
        BY <1>1, <2>3, <2>4
    <2>6. QED
        BY <2>5 DEF subsumed_by, f, t
<1>6. ASSUME M # {} PROVE subsumed_by(R[q[First(M)]], s, e)
    <2>1. M \in SUBSET Nat
        BY <1>3, <1>5
    <2>2. First(M) \in M
        BY <1>6, <2>1, FirstExists
    <2>3. QED
        BY <1>3, <1>5, <2>2
<1>7. ASSUME M = {} PROVE \A i \in 1 .. d - 1 : e < R[q[i]].pgstart
    BY <1>5, <1>7
<1>8. QED
    BY <1>4, <1>6, <1>7 DEF M, d

(***************************************************************************)
(* The walk of ashmem_unpin does not move for the empty interval.          *)
(***************************************************************************)
LEMMA NothingMerged ==
    ASSUME NEW m, Good(m), NEW a \in Areas, NEW s \in Starts, NEW e \in Pages, s = e + 1
    PROVE  MergeWalk(m, a, s, e)[Len(m.unpinned[a])] = [m |-> m, purged |-> FALSE, s |-> s, e |-> e]
<1> DEFINE q == m.unpinned[a]
           w == MergeWalk(m, a, s, e)
           begin == [m |-> m, purged |-> FALSE, s |-> s, e |-> e]
<1>1. Len(q) \in Nat
    BY Entries DEF Good, AreaList
<1>2. w[0] = begin /\ \A i \in 1 .. Len(q) : w[i] = MergeRange(w[i - 1], a)
    BY <1>1, MergeWalkSteps
<1>3. begin.m = m /\ begin.s = s /\ begin.e = e
    OBVIOUS
<1> HIDE DEF w, begin
<1>4. ~Merges(begin, a)
    BY <1>3, NothingMet DEF Merges
<1>5. MergeRange(begin, a) = begin
    BY <1>4 DEF MergeRange
<1> DEFINE T == {i \in Nat : i <= Len(q) => w[i] = begin}
<1>6. 0 \in T
    BY <1>2
<1>7. ASSUME NEW i \in T PROVE i + 1 \in T
    <2>1. SUFFICES ASSUME i + 1 <= Len(q) PROVE w[i + 1] = begin
        OBVIOUS
    <2>2. i \in Nat /\ i <= Len(q) /\ i + 1 \in 1 .. Len(q) /\ (i + 1) - 1 = i
        BY <1>1, <2>1
    <2>3. QED
        BY <1>2, <1>5, <2>2
<1>8. T = Nat
    BY <1>6, <1>7, SetInduction
<1>9. w[Len(q)] = begin
    BY <1>1, <1>8
<1>10. QED
    BY <1>9 DEF w, begin

(***************************************************************************)
(* What ashmem_unpin does for the empty interval after page e: nothing, or *)
(* it adds an empty range, which has no page, and ends with e.             *)
(***************************************************************************)
LEMMA UnpinNothingFacts ==
    ASSUME NEW m, Good(m), NEW a \in Areas, NEW s \in Starts, NEW e \in Pages, s = e + 1,
           NEW mem \in BOOLEAN
    PROVE  UnpinnedNothing(m, a, e, ashmem_unpin(m, a, s, e, mem))
<1> DEFINE R == m.range
           q == m.unpinned[a]
           x == NewRange(a, s, e, FALSE)
           d == Insertion(m, a, s)
           n == range_alloc(m, d, x)
           call == ashmem_unpin(m, a, s, e, mem)
<1>1. call = IF Met(m, a, s, e) # {} THEN [m |-> m, failed |-> FALSE]
             ELSE IF ~mem \/ Free(m) = {} THEN [m |-> m, failed |-> TRUE]
             ELSE [m |-> n, failed |-> FALSE]
    <2> DEFINE at == MergeWalk(m, a, s, e)[Len(q)]
    <2>1. call = IF Met(at.m, a, at.s, at.e) # {} THEN [m |-> at.m, failed |-> FALSE]
                 ELSE IF ~mem \/ Free(at.m) = {} THEN [m |-> at.m, failed |-> TRUE]
                 ELSE [m |-> range_alloc(at.m, Insertion(at.m, a, at.s),
                                         NewRange(a, at.s, at.e, at.purged)), failed |-> FALSE]
        BY DEF ashmem_unpin, NewRange
    <2>2. at = [m |-> m, purged |-> FALSE, s |-> s, e |-> e]
        BY NothingMerged
    <2> HIDE DEF at, call
    <2>3. at.m = m /\ at.purged = FALSE /\ at.s = s /\ at.e = e
        BY <2>2
    <2>4. QED
        BY <2>1, <2>3
<1>2. /\ x \in RangeRecords /\ x.area = a /\ x.pgstart = s /\ x.pgend = e /\ ~x.purged
      /\ s \in Int /\ e \in Int
    <2>1. \A b \in BOOLEAN : LET y == NewRange(a, s, e, b)
                             IN  /\ y \in RangeRecords /\ y.area = a /\ y.pgstart = s /\ y.pgend = e
                                 /\ (y.purged <=> b)
        BY NewRecord
    <2>2. s \in Int /\ e \in Int
        BY PageBounds
    <2>3. QED
        BY <2>1, <2>2
<1>3. RangesOK(R) /\ AreaList(R, q, a) /\ Split(R, q, s, d)
    BY Entries, InsertionSplits DEF Good
<1> HIDE DEF call, x, d, n
<1>4. CASE call.m = m /\ call.failed \in BOOLEAN
    BY <1>4 DEF UnpinnedNothing, Elsewhere, call
<1>5. CASE call = [m |-> n, failed |-> FALSE] /\ Met(m, a, s, e) = {} /\ Free(m) # {}
    <2>1. /\ d \in 1 .. Len(m.unpinned[x.area]) + 1
          /\ \A i \in 1 .. d - 1 : x.pgend < m.range[m.unpinned[x.area][i]].pgstart
          /\ \A i \in d .. Len(m.unpinned[x.area]) : m.range[m.unpinned[x.area][i]].pgend < x.pgstart
        <3>1. \A i \in 1 .. d - 1 : e < R[q[i]].pgstart
            BY <1>5, NothingMet DEF d
        <3>2. \A i \in d .. Len(q) : R[q[i]].pgend < s
            BY <1>3 DEF Split, range_before_page
        <3>3. QED
            BY <1>2, <1>3, <3>1, <3>2 DEF Split
    <2>2. x.pgstart <= x.pgend + 1
        BY <1>2
    <2>3. Allocated(m, n, x, d)
        BY <1>2, <1>5, <2>1, <2>2, AllocFacts DEF n
    <2>4. Good(n)
        BY <2>3 DEF Allocated
    <2>5. PICK k \in Ranges : R[k] = None /\ n.range = [R EXCEPT ![k] = x]
        BY <2>3 DEF Allocated
    <2>6. x \in OfArea(a) /\ None \notin OfArea(a)
        BY <1>2, NoneAssumption DEF OfArea
    <2>7. /\ \A S : Kind(S, a) => \A p \in Pages :
                p \in PagesOf(n.range, S) <=> p \in PagesOf(R, S) \/ (x \in S /\ page_in_range(x, p))
          /\ Elsewhere(n.range, R, a)
        BY SMTT(30), <1>3, <2>5, <2>6, PagesAlloc
    <2>8. \A p \in Pages : ~page_in_range(x, p)
        <3>1. \A p \in Pages : p \in Int
            BY PageBounds
        <3>2. QED
            BY <1>2, <3>1 DEF page_in_range
    <2>9. ASSUME NEW S, Kind(S, a) PROVE PagesOf(n.range, S) = PagesOf(R, S)
        <3>1. \A p \in Pages : p \in PagesOf(n.range, S) <=> p \in PagesOf(R, S)
            BY <2>7, <2>8, <2>9
        <3>2. QED
            BY <3>1 DEF PagesOf
    <2>10. EndsOf(n.range, OfArea(a)) = EndsOf(R, OfArea(a)) \cup {e}
        <3>1. \A z \in Ranges : n.range[z] = IF z = k THEN x ELSE R[z]
            BY <1>3, <2>5 DEF RangesOK
        <3>2. Empty(x) /\ x.pgend = e
            BY <1>2 DEF Empty
        <3>3. QED
            BY <2>5, <2>6, <3>1, <3>2 DEF EndsOf
    <2>11. call.m = n /\ call.failed = FALSE
        BY <1>5
    <2>12. QED
        BY <2>4, <2>7, <2>9, <2>10, <2>11 DEF UnpinnedNothing, call
<1>6. QED
    <2>1. \/ call = [m |-> m, failed |-> FALSE] \/ call = [m |-> m, failed |-> TRUE]
          \/ (call = [m |-> n, failed |-> FALSE] /\ Met(m, a, s, e) = {} /\ Free(m) # {})
        BY <1>1
    <2>2. CASE call = [m |-> m, failed |-> FALSE] \/ call = [m |-> m, failed |-> TRUE]
        <3>1. call.m = m /\ (call.failed = FALSE \/ call.failed = TRUE)
            BY <2>2
        <3>2. call.failed \in BOOLEAN
            BY <3>1
        <3>3. QED
            BY <1>4, <3>1, <3>2
    <2>3. QED
        BY <1>5, <2>1, <2>2

-----------------------------------------------------------------------------
(***************************************************************************)
(* The inductive invariant: the lists are good, and in an area where every *)
(* range could be allocated the pages that were truncated are in purged    *)
(* ranges.                                                                 *)
(***************************************************************************)
GoneKept == \A a \in Areas \ failed : gone[a] \subseteq PagesOf(range, PurgedOf(a))

Invariant == Good(Lists) /\ gone \in [Areas -> SUBSET Pages] /\ answer \in BOOLEAN /\ GoneKept

(***************************************************************************)
(* The lists after a step that computed good ones.                         *)
(***************************************************************************)
LEMMA GoodBecomes ==
    ASSUME NEW n, Good(n), Becomes(n)
    PROVE  Good(Lists)' /\ range' = n.range
BY DEF Good, Becomes, Lists

(***************************************************************************)
(* The lists after a step that left them alone.                            *)
(***************************************************************************)
LEMMA GoodStays ==
    ASSUME Good(Lists), UNCHANGED lists
    PROVE  Good(Lists)'
BY DEF Good, Lists, lists

\* UnpinnedPages is what the ranges of an area cover.
LEMMA UnpinnedIs ==
    ASSUME NEW R, NEW U, RangesOK(R), Apart(R, U), NEW a \in Areas
    PROVE  UNION {RangePages(R[k]) : k \in ToSet(U[a])} = PagesOf(R, OfArea(a))
<1>1. AreaList(R, U[a], a)
    BY Entries
<1>2. ToSet(U[a]) = {U[a][i] : i \in 1 .. Len(U[a])}
    BY <1>1 DEF AreaList, ToSet
<1>3. Kind(OfArea(a), a) /\ \A i \in 1 .. Len(U[a]) : R[U[a][i]] \in OfArea(a)
    BY <1>1, Kinds DEF AreaList, OfArea
<1>4. \A p \in Pages : p \in PagesOf(R, OfArea(a)) <=>
                         \E i \in 1 .. Len(U[a]) : page_in_range(R[U[a][i]], p)
    BY <1>3, PagesListed
<1>5. \A p : p \in PagesOf(R, OfArea(a)) => p \in Pages
    BY DEF PagesOf
<1>6. \A p : p \in UNION {RangePages(R[k]) : k \in ToSet(U[a])}
             <=> p \in Pages /\ \E i \in 1 .. Len(U[a]) : page_in_range(R[U[a][i]], p)
    BY <1>2 DEF RangePages
<1>7. QED
    BY <1>4, <1>5, <1>6

\* TaintedPages is what the empty ranges of an area end with.
LEMMA TaintedIs ==
    ASSUME NEW R, NEW U, RangesOK(R), Apart(R, U), NEW a \in Areas
    PROVE  {R[k].pgend : k \in {x \in ToSet(U[a]) : range_size(R[x]) = 0}} = EndsOf(R, OfArea(a))
<1> DEFINE S == {x \in ToSet(U[a]) : range_size(R[x]) = 0}
<1>1. AreaList(R, U[a], a)
    BY Entries
<1>2. ToSet(U[a]) = {U[a][i] : i \in 1 .. Len(U[a])}
    BY <1>1 DEF AreaList, ToSet
<1>3. ASSUME NEW k PROVE k \in ToSet(U[a]) <=> k \in Ranges /\ R[k] \in OfArea(a)
    <2>1. ASSUME k \in ToSet(U[a]) PROVE k \in Ranges /\ R[k] \in OfArea(a)
        BY <1>1, <1>2, <2>1 DEF AreaList, OfArea
    <2>2. ASSUME k \in Ranges, R[k] \in OfArea(a) PROVE k \in ToSet(U[a])
        <3>1. R[k] # None /\ R[k].area = a
            BY <2>2, NoneAssumption DEF OfArea
        <3>2. \E i \in 1 .. Len(U[a]) : U[a][i] = k
            BY <2>2, <3>1, InList
        <3>3. QED
            BY <1>2, <3>2
    <2>3. QED
        BY <2>1, <2>2
<1>4. ASSUME NEW k \in Ranges, R[k] \in OfArea(a)
      PROVE  R[k].pgend \in Pages /\ (range_size(R[k]) = 0 <=> Empty(R[k]))
    <2>1. R[k] # None /\ R[k] \in RangeRecords
        BY <1>4, NoneAssumption DEF OfArea
    <2>2. R[k].pgstart <= R[k].pgend + 1
        BY <2>1 DEF RangesOK
    <2>3. R[k].pgstart \in Int /\ R[k].pgend \in Int /\ R[k].pgend \in Pages
        BY <2>1, RecordTypes
    <2>4. QED
        BY <2>2, <2>3 DEF range_size, Empty
<1>5. \A k : k \in S <=> k \in Ranges /\ R[k] \in OfArea(a) /\ Empty(R[k])
    BY <1>3, <1>4
<1> HIDE DEF S
<1>6. {R[k].pgend : k \in S} = EndsOf(R, OfArea(a))
    BY <1>4, <1>5 DEF EndsOf
<1>7. QED
    BY <1>6 DEF S

(***************************************************************************)
(* The unpinned and the tainted pages of the properties are the pages of   *)
(* the area's ranges, and the ends of the empty ones.                      *)
(***************************************************************************)
LEMMA PagesNow ==
    ASSUME Good(Lists)
    PROVE  \A a \in Areas : /\ UnpinnedPages(a) = PagesOf(range, OfArea(a))
                            /\ TaintedPages(a) = EndsOf(range, OfArea(a))
<1>1. RangesOK(range) /\ Apart(range, unpinned_list)
    BY DEF Good, Lists
<1>2. \A a \in Areas : UnpinnedPages(a) = PagesOf(range, OfArea(a))
    BY <1>1, UnpinnedIs DEF UnpinnedPages
<1>3. \A a \in Areas : TaintedPages(a) = EndsOf(range, OfArea(a))
    BY <1>1, TaintedIs DEF TaintedPages
<1>4. QED
    BY <1>2, <1>3

(***************************************************************************)
(* The same after a step.                                                  *)
(***************************************************************************)
LEMMA PagesNext ==
    ASSUME Good(Lists)'
    PROVE  \A a \in Areas : /\ UnpinnedPages(a)' = PagesOf(range', OfArea(a))
                            /\ TaintedPages(a)' = EndsOf(range', OfArea(a))
<1>1. RangesOK(range') /\ Apart(range', unpinned_list')
    BY DEF Good, Lists
<1>2. \A a \in Areas : UnpinnedPages(a)' = PagesOf(range', OfArea(a))
    BY <1>1, UnpinnedIs DEF UnpinnedPages
<1>3. \A a \in Areas : TaintedPages(a)' = EndsOf(range', OfArea(a))
    BY <1>1, TaintedIs DEF TaintedPages
<1>4. QED
    BY <1>2, <1>3

\* A call for one area leaves the pages of the others alone.
LEMMA OtherAreas ==
    ASSUME NEW Q, NEW R, NEW a, Elsewhere(Q, R, a), NEW b, b # a
    PROVE  /\ PagesOf(Q, OfArea(b)) = PagesOf(R, OfArea(b)) /\ EndsOf(Q, OfArea(b)) = EndsOf(R, OfArea(b))
           /\ PagesOf(Q, PurgedOf(b)) = PagesOf(R, PurgedOf(b))
<1>1. /\ OfArea(b) \subseteq RangeRecords /\ OfArea(b) \cap OfArea(a) = {}
      /\ PurgedOf(b) \subseteq RangeRecords /\ PurgedOf(b) \cap OfArea(a) = {}
    BY DEF OfArea, PurgedOf
<1>2. QED
    BY <1>1 DEF Elsewhere

(***************************************************************************)
(* Purged pages are unpinned pages.                                        *)
(***************************************************************************)
LEMMA PurgedAreUnpinned ==
    ASSUME NEW R, NEW a
    PROVE  PagesOf(R, PurgedOf(a)) \subseteq PagesOf(R, OfArea(a)) /\
             PagesOf(R, OfArea(a)) \subseteq Pages
BY DEF PagesOf, PurgedOf
-----------------------------------------------------------------------------
(***************************************************************************)
(* One lemma per action: the invariant, and the step of the memory.        *)
(***************************************************************************)
Implemented == Invariant' /\ (Memory!Next \/ UNCHANGED Memory!vars)

(***************************************************************************)
(* The intervals of the calls are intervals of the memory, the empty one   *)
(* too.                                                                    *)
(***************************************************************************)
LEMMA IntervalFacts ==
    ASSUME NEW a, NEW s \in Starts, NEW e \in Pages, IsInterval(a, s, e)
    PROVE  /\ s .. e \in Memory!Intervals /\ s <= e + 1
           /\ (s <= e /\ s \in Pages) \/ (s = e + 1 /\ s .. e = {})
<1>1. s \in Int /\ e \in Int
    BY PageBounds
<1>2. s <= e \/ s = e + 1
    BY <1>1 DEF IsInterval
<1>3. CASE s <= e
    <2>1. s \in Pages
        BY <1>3, PageBounds
    <2>2. QED
        BY <1>1, <1>3, <2>1 DEF Memory!Intervals
<1>4. CASE s = e + 1
    <2>1. s .. e = {} /\ s <= e + 1
        BY <1>1, <1>4
    <2>2. QED
        BY <1>4, <2>1 DEF Memory!Intervals
<1>5. QED
    BY <1>2, <1>3, <1>4

\* What a call for area a leaves of what the memory is made of.
OthersStay(a) ==
    \A b \in Areas \ {a} : /\ UnpinnedPages(b)' = UnpinnedPages(b) /\ TaintedPages(b)' = TaintedPages(b)
                           /\ PagesOf(range', PurgedOf(b)) = PagesOf(range, PurgedOf(b))

(***************************************************************************)
(* A call for area a computed the lists n: the invariant and the areas     *)
(* that it is not about.                                                   *)
(***************************************************************************)
LEMMA CallFacts ==
    ASSUME Good(Lists), NEW a \in Areas, NEW n, Good(n), Becomes(n), Elsewhere(n.range, range, a)
    PROVE  /\ Good(Lists)' /\ range' = n.range /\ OthersStay(a)
           /\ UnpinnedPages(a) = PagesOf(range, OfArea(a)) /\ UnpinnedPages(a)' = PagesOf(n.range, OfArea(a))
           /\ TaintedPages(a) = EndsOf(range, OfArea(a)) /\ TaintedPages(a)' = EndsOf(n.range, OfArea(a))
<1>1. Good(Lists)' /\ range' = n.range
    BY GoodBecomes
<1>2. \A b \in Areas : /\ UnpinnedPages(b) = PagesOf(range, OfArea(b))
                       /\ TaintedPages(b) = EndsOf(range, OfArea(b))
                       /\ UnpinnedPages(b)' = PagesOf(range', OfArea(b))
                       /\ TaintedPages(b)' = EndsOf(range', OfArea(b))
    BY <1>1, PagesNow, PagesNext
<1>3. \A b \in Areas : b # a => /\ PagesOf(range', OfArea(b)) = PagesOf(range, OfArea(b))
                                /\ EndsOf(range', OfArea(b)) = EndsOf(range, OfArea(b))
                                /\ PagesOf(range', PurgedOf(b)) = PagesOf(range, PurgedOf(b))
    BY <1>1, OtherAreas
<1>4. OthersStay(a)
    BY <1>2, <1>3 DEF OthersStay
<1>5. QED
    BY <1>1, <1>2, <1>4

(***************************************************************************)
(* A call that failed, or failed before: its area promises nothing.        *)
(***************************************************************************)
LEMMA UnreliableImplemented ==
    ASSUME Invariant', NEW a \in Areas, OthersStay(a), failed' = failed \cup {a},
           \A b \in Areas \ {a} : gone'[b] = gone[b]
    PROVE  Implemented
<1>1. Memory!Unreliable(a)
    BY DEF Memory!Unreliable, OthersStay
<1>2. QED
    BY <1>1 DEF Implemented, Memory!Next

(***************************************************************************)
(* The tainted pages of area a after a call that taints none.              *)
(***************************************************************************)
LEMMA TaintFacts ==
    ASSUME NEW a \in Areas, OthersStay(a), NEW X, TaintedPages(a)' \subseteq TaintedPages(a) \ X
    PROVE  Memory!TaintEnds(a, X)
<1>1. PICK left : left = TaintedPages(a)'
    OBVIOUS
<1>2. left \in SUBSET (TaintedPages(a) \ X)
    BY <1>1
<1>3. \A b \in Areas : TaintedPages(b)' = IF b = a THEN left ELSE TaintedPages(b)
    BY <1>1 DEF OthersStay
<1>4. [b \in Areas |-> TaintedPages(b)'] = [[b \in Areas |-> TaintedPages(b)] EXCEPT ![a] = left]
    BY <1>3
<1>5. QED
    BY <1>2, <1>4 DEF Memory!TaintEnds

(***************************************************************************)
(* ASHMEM_PIN is Pin of PurgeableMemory, or keeps it.                      *)
(***************************************************************************)
LEMMA PinImplemented ==
    ASSUME Invariant, NEW a \in Areas, NEW s \in Starts, NEW e \in Pages, NEW mem \in BOOLEAN,
           ASHMEM_PIN(a, s, e, mem)
    PROVE  Implemented
<1> DEFINE call == ashmem_pin(Lists, a, s, e, mem)
           X == s .. e
<1>1. /\ IsInterval(a, s, e) /\ Becomes(call.m) /\ Fails(a, call) /\ answer' = call.purged
      /\ gone' = [gone EXCEPT ![a] = gone[a] \ X]
    BY DEF ASHMEM_PIN
<1>2. Good(Lists) /\ gone \in [Areas -> SUBSET Pages] /\ GoneKept /\ Lists.range = range
    BY DEF Invariant, Lists
<1>3. X \in Memory!Intervals /\ s <= e + 1 /\ (s <= e \/ X = {})
    BY <1>1, IntervalFacts
<1>4. PinResult(Lists, a, s, e, call)
    BY <1>3, <1>2, PinFacts
<1> HIDE DEF call, X
<1>5. /\ Good(call.m) /\ Elsewhere(call.m.range, range, a)
      /\ call.failed \in BOOLEAN /\ call.purged \in BOOLEAN
      /\ ~call.failed => \A S : Kind(S, a) => PagesOf(call.m.range, S) = PagesOf(range, S) \ X
      /\ ~call.failed => EndsOf(call.m.range, OfArea(a)) \subseteq EndsOf(range, OfArea(a)) \ X
      /\ X \cap PagesOf(range, PurgedOf(a)) # {} => call.purged
      /\ call.purged /\ s <= e =>
            X \cap (PagesOf(range, OfArea(a)) \cup EndsOf(range, OfArea(a))) # {}
    BY <1>2, <1>4 DEF PinResult, X
<1>6. /\ Good(Lists)' /\ range' = call.m.range /\ OthersStay(a)
      /\ UnpinnedPages(a) = PagesOf(range, OfArea(a)) /\ UnpinnedPages(a)' = PagesOf(call.m.range, OfArea(a))
      /\ TaintedPages(a) = EndsOf(range, OfArea(a)) /\ TaintedPages(a)' = EndsOf(call.m.range, OfArea(a))
    BY <1>1, <1>2, <1>5, CallFacts
<1>7. ~call.failed => /\ UnpinnedPages(a)' = UnpinnedPages(a) \ X
                      /\ PagesOf(range', PurgedOf(a)) = PagesOf(range, PurgedOf(a)) \ X
    BY <1>5, <1>6, Kinds
<1>8. /\ gone' \in [Areas -> SUBSET Pages] /\ gone'[a] = gone[a] \ X
      /\ \A b \in Areas : b # a => gone'[b] = gone[b]
    BY <1>1, <1>2
<1>9. failed' = IF call.failed THEN failed \cup {a} ELSE failed
    BY <1>1 DEF Fails
<1>10. GoneKept'
    <2>1. SUFFICES ASSUME NEW b \in Areas, b \notin failed'
                   PROVE  gone'[b] \subseteq PagesOf(range', PurgedOf(b))
        BY DEF GoneKept
    <2>2. b \notin failed /\ gone[b] \subseteq PagesOf(range, PurgedOf(b))
        BY <1>2, <1>9, <2>1 DEF GoneKept
    <2>3. CASE b = a
        <3>1. ~call.failed
            BY <1>9, <2>1, <2>3
        <3>2. QED
            BY <1>7, <1>8, <2>2, <2>3, <3>1
    <2>4. CASE b # a
        BY <1>6, <1>8, <2>2, <2>4 DEF OthersStay
    <2>5. QED
        BY <2>3, <2>4
<1>11. Invariant'
    BY <1>1, <1>5, <1>6, <1>8, <1>10 DEF Invariant
<1>12. CASE call.failed \/ a \in failed
    <2>1. failed' = failed \cup {a}
        BY <1>9, <1>12
    <2>2. QED
        BY <1>6, <1>8, <1>11, <2>1, UnreliableImplemented
<1>13. CASE ~call.failed /\ a \notin failed
    <2>1. failed' = failed
        BY <1>9, <1>13
    <2>2. \A b \in Areas : UnpinnedPages(b)' = IF b = a THEN UnpinnedPages(a) \ X ELSE UnpinnedPages(b)
        BY <1>6, <1>7, <1>13 DEF OthersStay
    <2>3. gone[a] \subseteq PagesOf(range, PurgedOf(a))
        BY <1>2, <1>13 DEF GoneKept
    <2>4. /\ answer' \in BOOLEAN /\ (X \cap gone[a] # {} => answer')
          /\ answer' => X = {} \/ X \cap (UnpinnedPages(a) \cup TaintedPages(a)) # {}
        BY <1>3, <1>1, <1>5, <1>6, <2>3
    <2>5. Memory!TaintEnds(a, X)
        BY <1>5, <1>6, <1>13, TaintFacts
    <2>6. Memory!Pin(a, X)
        BY <1>1, <2>1, <2>2, <2>4, <2>5 DEF Memory!Pin, Memory!Suspect
    <2>7. QED
        BY <1>3, <1>11, <2>6 DEF Implemented, Memory!Next
<1>14. QED
    BY <1>12, <1>13

(***************************************************************************)
(* ASHMEM_UNPIN of a page is Unpin of PurgeableMemory, or keeps it.        *)
(***************************************************************************)
LEMMA UnpinImplemented ==
    ASSUME Invariant, NEW a \in Areas, NEW s \in Starts, NEW e \in Pages, NEW mem \in BOOLEAN,
           ASHMEM_UNPIN(a, s, e, mem), s <= e
    PROVE  Implemented
<1> DEFINE call == ashmem_unpin(Lists, a, s, e, mem)
           X == s .. e
<1>1. /\ IsInterval(a, s, e) /\ Becomes(call.m) /\ Fails(a, call) /\ answer' = FALSE /\ gone' = gone
    BY DEF ASHMEM_UNPIN
<1>2. Good(Lists) /\ gone \in [Areas -> SUBSET Pages] /\ GoneKept /\ Lists.range = range
    BY DEF Invariant, Lists
<1>3. X \in Memory!Intervals /\ s \in Pages
    BY <1>1, IntervalFacts, PageBounds
<1>4. UnpinResult(Lists, a, s, e, call)
    BY <1>3, <1>2, UnpinFacts
<1> HIDE DEF call, X
<1>5. /\ Good(call.m) /\ Elsewhere(call.m.range, range, a) /\ call.failed \in BOOLEAN
      /\ ~call.failed => /\ PagesOf(call.m.range, OfArea(a)) = PagesOf(range, OfArea(a)) \cup X
                         /\ PagesOf(range, PurgedOf(a)) \subseteq PagesOf(call.m.range, PurgedOf(a))
                         /\ EndsOf(call.m.range, OfArea(a)) \subseteq EndsOf(range, OfArea(a)) \ X
    BY <1>2, <1>4 DEF UnpinResult, X
<1>6. /\ Good(Lists)' /\ range' = call.m.range /\ OthersStay(a)
      /\ UnpinnedPages(a) = PagesOf(range, OfArea(a)) /\ UnpinnedPages(a)' = PagesOf(call.m.range, OfArea(a))
      /\ TaintedPages(a) = EndsOf(range, OfArea(a)) /\ TaintedPages(a)' = EndsOf(call.m.range, OfArea(a))
    BY <1>1, <1>2, <1>5, CallFacts
<1>7. failed' = IF call.failed THEN failed \cup {a} ELSE failed
    BY <1>1 DEF Fails
<1>8. GoneKept'
    <2>1. SUFFICES ASSUME NEW b \in Areas, b \notin failed'
                   PROVE  gone'[b] \subseteq PagesOf(range', PurgedOf(b))
        BY DEF GoneKept
    <2>2. b \notin failed /\ gone[b] \subseteq PagesOf(range, PurgedOf(b))
        BY <1>2, <1>7, <2>1 DEF GoneKept
    <2>3. CASE b = a
        <3>1. ~call.failed
            BY <1>7, <2>1, <2>3
        <3>2. QED
            BY <1>1, <1>5, <1>6, <2>2, <2>3, <3>1
    <2>4. CASE b # a
        BY <1>1, <1>6, <2>2, <2>4 DEF OthersStay
    <2>5. QED
        BY <2>3, <2>4
<1>9. Invariant'
    BY <1>1, <1>2, <1>6, <1>8 DEF Invariant
<1>10. CASE call.failed \/ a \in failed
    <2>1. failed' = failed \cup {a}
        BY <1>7, <1>10
    <2>2. QED
        BY <1>1, <1>6, <1>9, <2>1, UnreliableImplemented
<1>11. CASE ~call.failed /\ a \notin failed
    <2>1. failed' = failed
        BY <1>7, <1>11
    <2>2. \A b \in Areas : UnpinnedPages(b)' =
                             IF b = a THEN UnpinnedPages(a) \cup X ELSE UnpinnedPages(b)
        BY <1>5, <1>6, <1>11 DEF OthersStay
    <2>3. Memory!TaintEnds(a, X)
        BY <1>5, <1>6, <1>11, TaintFacts
    <2>4. Memory!Unpin(a, X)
        BY <1>1, <2>1, <2>2, <2>3 DEF Memory!Unpin
    <2>5. QED
        BY <1>3, <1>9, <2>4 DEF Implemented, Memory!Next
<1>12. QED
    BY <1>10, <1>11

(***************************************************************************)
(* ASHMEM_UNPIN of no page unpins none and taints the page before it, or   *)
(* it does nothing.                                                        *)
(***************************************************************************)
LEMMA UnpinNothingImplemented ==
    ASSUME Invariant, NEW a \in Areas, NEW s \in Starts, NEW e \in Pages, NEW mem \in BOOLEAN,
           ASHMEM_UNPIN(a, s, e, mem), s = e + 1
    PROVE  Implemented
<1> DEFINE call == ashmem_unpin(Lists, a, s, e, mem)
<1>1. Becomes(call.m) /\ Fails(a, call) /\ answer' = FALSE /\ gone' = gone
    BY DEF ASHMEM_UNPIN
<1>2. Good(Lists) /\ gone \in [Areas -> SUBSET Pages] /\ GoneKept /\ Lists.range = range
    BY DEF Invariant, Lists
<1>3. UnpinnedNothing(Lists, a, e, call)
    BY <1>2, UnpinNothingFacts
<1> HIDE DEF call
<1>4. /\ Good(call.m) /\ Elsewhere(call.m.range, range, a) /\ call.failed \in BOOLEAN
      /\ \A S : Kind(S, a) => PagesOf(call.m.range, S) = PagesOf(range, S)
      /\ \/ EndsOf(call.m.range, OfArea(a)) = EndsOf(range, OfArea(a))
         \/ EndsOf(call.m.range, OfArea(a)) = EndsOf(range, OfArea(a)) \cup {e}
    BY <1>2, <1>3 DEF UnpinnedNothing
<1>5. /\ Good(Lists)' /\ range' = call.m.range /\ OthersStay(a)
      /\ UnpinnedPages(a) = PagesOf(range, OfArea(a)) /\ UnpinnedPages(a)' = PagesOf(call.m.range, OfArea(a))
      /\ TaintedPages(a) = EndsOf(range, OfArea(a)) /\ TaintedPages(a)' = EndsOf(call.m.range, OfArea(a))
    BY <1>1, <1>2, <1>4, CallFacts
<1>6. UnpinnedPages(a)' = UnpinnedPages(a) /\ PagesOf(range', PurgedOf(a)) = PagesOf(range, PurgedOf(a))
    BY <1>4, <1>5, Kinds
<1>7. failed' = IF call.failed THEN failed \cup {a} ELSE failed
    BY <1>1 DEF Fails
<1>8. \A b \in Areas : /\ UnpinnedPages(b)' = UnpinnedPages(b)
                       /\ PagesOf(range', PurgedOf(b)) = PagesOf(range, PurgedOf(b))
    BY <1>5, <1>6 DEF OthersStay
<1>9. GoneKept'
    BY <1>1, <1>2, <1>7, <1>8 DEF GoneKept
<1>10. Invariant'
    BY <1>1, <1>2, <1>5, <1>9 DEF Invariant
<1>11. CASE call.failed
    <2>1. failed' = failed \cup {a}
        BY <1>7, <1>11
    <2>2. QED
        BY <1>1, <1>5, <1>10, <2>1, UnreliableImplemented
<1>12. CASE ~call.failed /\ TaintedPages(a)' = TaintedPages(a)
    <2>1. Memory!TaintEnds(a, {})
        BY <1>5, <1>12, TaintFacts
    <2>2. \A b \in Areas : UnpinnedPages(b)' =
                             IF b = a THEN UnpinnedPages(a) \cup {} ELSE UnpinnedPages(b)
        BY <1>8
    <2>3. Memory!Unpin(a, {})
        BY <1>1, <1>7, <1>12, <2>1, <2>2 DEF Memory!Unpin
    <2>4. {} \in Memory!Intervals
        BY DEF Memory!Intervals
    <2>5. QED
        BY <1>10, <2>3, <2>4 DEF Implemented, Memory!Next
<1>13. CASE ~call.failed /\ TaintedPages(a)' = TaintedPages(a) \cup {e}
    <2>1. \A b \in Areas : TaintedPages(b)' = IF b = a THEN TaintedPages(a) \cup {e} ELSE TaintedPages(b)
        BY <1>5, <1>13 DEF OthersStay
    <2>2. Memory!UnpinNothing(a, e)
        BY <1>1, <1>7, <1>8, <1>13, <2>1 DEF Memory!UnpinNothing
    <2>3. QED
        BY <1>10, <2>2 DEF Implemented, Memory!Next
<1>14. QED
    BY <1>4, <1>5, <1>11, <1>12, <1>13

\* Nothing that the memory is made of changes.
LEMMA StaysImplemented ==
    ASSUME Invariant, UNCHANGED <<lists, gone, failed>>, answer' \in BOOLEAN
    PROVE  /\ Invariant'
           /\ \A a \in Areas : UnpinnedPages(a)' = UnpinnedPages(a) /\ TaintedPages(a)' = TaintedPages(a)
           /\ answer' = answer => Implemented
<1>1. Good(Lists)' /\ range' = range /\ unpinned_list' = unpinned_list /\ gone' = gone /\
        failed' = failed
    BY GoodStays DEF Invariant, lists
<1>2. Invariant'
    BY <1>1 DEF Invariant, GoneKept
<1>3. \A a \in Areas : UnpinnedPages(a)' = UnpinnedPages(a) /\ TaintedPages(a)' = TaintedPages(a)
    BY <1>1 DEF UnpinnedPages, TaintedPages
<1>4. QED
    BY <1>1, <1>2, <1>3 DEF Implemented, Memory!vars

(***************************************************************************)
(* ASHMEM_GET_PIN_STATUS answers for the pages of the interval and the     *)
(* tainted ones.                                                           *)
(***************************************************************************)
LEMMA StatusImplemented ==
    ASSUME Invariant, NEW a \in Areas, NEW s \in Starts, NEW e \in Pages, ASHMEM_GET_PIN_STATUS(a, s, e)
    PROVE  Implemented
<1> DEFINE X == s .. e
           Y == UnpinnedPages(a) \cup TaintedPages(a)
<1>1. /\ IsInterval(a, s, e) /\ answer' = ashmem_get_pin_status(Lists, a, s, e)
      /\ UNCHANGED <<lists, gone, failed>>
    BY DEF ASHMEM_GET_PIN_STATUS
<1>2. Good(Lists) /\ Lists.range = range
    BY DEF Invariant, Lists
<1>3. X \in Memory!Intervals /\ ((s <= e /\ s \in Pages) \/ X = {})
    BY <1>1, IntervalFacts
<1>4. answer' \in BOOLEAN
    BY <1>1 DEF ashmem_get_pin_status
<1>5. /\ Invariant'
      /\ \A b \in Areas : UnpinnedPages(b)' = UnpinnedPages(b) /\ TaintedPages(b)' = TaintedPages(b)
    BY <1>1, <1>4, StaysImplemented
<1>6. ASSUME X # {} PROVE answer' = (X \cap Y # {})
    <2>1. s <= e /\ s \in Pages
        BY <1>3, <1>6
    <2>2. ashmem_get_pin_status(Lists, a, s, e) <=> \E p \in s .. e : p \in SuspectOf(range, a)
        BY <1>2, <2>1, StatusFacts
    <2>3. Y = SuspectOf(range, a)
        BY <1>2, PagesNow DEF SuspectOf
    <2>4. answer' <=> X \cap Y # {}
        BY <1>1, <2>2, <2>3
    <2>5. QED
        BY <1>4, <2>4
<1> HIDE DEF X
<1>7. Memory!GetPinStatus(a, X)
    BY <1>1, <1>4, <1>5, <1>6 DEF Memory!GetPinStatus, Memory!Suspect
<1>8. QED
    BY <1>3, <1>5, <1>7 DEF Implemented, Memory!Next

(***************************************************************************)
(* ashmem_shrink is a purge of unpinned pages.                             *)
(***************************************************************************)
LEMMA ShrinkImplemented ==
    ASSUME Invariant, NEW nr, ashmem_shrink(nr)
    PROVE  Implemented
<1> DEFINE at == ShrinkWalk(Lists, nr)[Len(ashmem_lru_list)]
           Taken(a) == TakenPages(range, at.keys, a)
<1>1. /\ Becomes(at.m) /\ gone' = [a \in Areas |-> gone[a] \cup Taken(a)]
      /\ answer' = FALSE /\ failed' = failed
    BY DEF ashmem_shrink, TakenPages
<1>2. /\ Good(Lists) /\ gone \in [Areas -> SUBSET Pages] /\ GoneKept
      /\ Lists.range = range /\ Lists.lru = ashmem_lru_list
    BY DEF Invariant, Lists
<1>3. ShrinkResult(Lists, at)
    BY <1>2, ShrinkWalkFacts
<1> HIDE DEF at
<1>4. /\ Good(at.m)
      /\ \A a \in Areas : /\ PagesOf(at.m.range, OfArea(a)) = PagesOf(range, OfArea(a))
                          /\ PagesOf(at.m.range, PurgedOf(a)) = PagesOf(range, PurgedOf(a)) \cup Taken(a)
                          /\ Taken(a) \subseteq PagesOf(range, OfArea(a))
                          /\ EndsOf(at.m.range, OfArea(a)) = EndsOf(range, OfArea(a))
    BY <1>2, <1>3 DEF ShrinkResult
<1> HIDE DEF Taken
<1>5. Good(Lists)' /\ range' = at.m.range
    BY <1>1, <1>4, GoodBecomes
<1>6. \A a \in Areas : /\ UnpinnedPages(a) = PagesOf(range, OfArea(a))
                       /\ TaintedPages(a) = EndsOf(range, OfArea(a))
                       /\ UnpinnedPages(a)' = PagesOf(range', OfArea(a))
                       /\ TaintedPages(a)' = EndsOf(range', OfArea(a))
    BY <1>2, <1>5, PagesNow, PagesNext
<1>7. \A a \in Areas : UnpinnedPages(a)' = UnpinnedPages(a) /\ TaintedPages(a)' = TaintedPages(a)
    BY <1>4, <1>5, <1>6
<1>8. \A a \in Areas : Taken(a) \subseteq Pages
    BY <1>4, PurgedAreUnpinned
<1>9. gone' \in [Areas -> SUBSET Pages] /\ \A a \in Areas : gone'[a] = gone[a] \cup Taken(a)
    BY <1>1, <1>2, <1>8
<1>10. GoneKept'
    BY <1>1, <1>2, <1>4, <1>5, <1>9 DEF GoneKept
<1>11. Memory!Purge
    BY <1>1, <1>4, <1>6, <1>7, <1>9 DEF Memory!Purge
<1>12. QED
    BY <1>1, <1>5, <1>9, <1>10, <1>11 DEF Implemented, Invariant, Memory!Next

(***************************************************************************)
(* ashmem_release takes the area and all that was known of its pages away. *)
(***************************************************************************)
LEMMA ReleaseImplemented ==
    ASSUME Invariant, NEW a \in Areas, ashmem_release(a)
    PROVE  Implemented
<1> DEFINE n == ReleaseWalk(Lists, a)[Len(unpinned_list[a])]
<1>1. /\ Becomes(n) /\ gone' = [gone EXCEPT ![a] = {}] /\ failed' = failed \ {a} /\ answer' = FALSE
    BY DEF ashmem_release
<1>2. /\ Good(Lists) /\ gone \in [Areas -> SUBSET Pages] /\ GoneKept
      /\ Lists.range = range /\ Lists.unpinned = unpinned_list
    BY DEF Invariant, Lists
<1>3. ReleaseResult(Lists, a, n)
    BY <1>2, ReleaseFacts
<1> HIDE DEF n
<1>4. /\ Good(n) /\ Elsewhere(n.range, range, a) /\ EndsOf(n.range, OfArea(a)) = {}
      /\ \A S : Kind(S, a) => PagesOf(n.range, S) = {}
    BY <1>2, <1>3 DEF ReleaseResult
<1>5. /\ Good(Lists)' /\ range' = n.range /\ OthersStay(a)
      /\ UnpinnedPages(a)' = PagesOf(n.range, OfArea(a)) /\ TaintedPages(a)' = EndsOf(n.range, OfArea(a))
    BY <1>1, <1>2, <1>4, CallFacts
<1>6. UnpinnedPages(a)' = {} /\ TaintedPages(a)' = {}
    BY <1>4, <1>5, Kinds
<1>7. /\ gone' \in [Areas -> SUBSET Pages] /\ gone'[a] = {}
      /\ \A b \in Areas : b # a => gone'[b] = gone[b]
    BY <1>1, <1>2
<1>8. GoneKept'
    BY <1>1, <1>2, <1>5, <1>7 DEF GoneKept, OthersStay
<1>9. \A b \in Areas : /\ UnpinnedPages(b)' = IF b = a THEN {} ELSE UnpinnedPages(b)
                       /\ TaintedPages(b)' = IF b = a THEN {} ELSE TaintedPages(b)
    <2>1. \A b \in Areas \ {a} : UnpinnedPages(b)' = UnpinnedPages(b) /\ TaintedPages(b)' = TaintedPages(b)
        BY <1>5 DEF OthersStay
    <2>2. QED
        BY <1>6, <2>1
<1>10. Memory!Close(a)
    <2>1. [b \in Areas |-> UnpinnedPages(b)'] = [[b \in Areas |-> UnpinnedPages(b)] EXCEPT ![a] = {}]
        BY <1>9
    <2>2. [b \in Areas |-> TaintedPages(b)'] = [[b \in Areas |-> TaintedPages(b)] EXCEPT ![a] = {}]
        BY <1>9
    <2>3. QED
        BY <1>1, <2>1, <2>2 DEF Memory!Close
<1>11. QED
    BY <1>1, <1>5, <1>7, <1>8, <1>10 DEF Implemented, Invariant, Memory!Next

\* Every step keeps the invariant and is a step of the memory, or none.
LEMMA StepImplemented ==
    ASSUME Invariant, [Next]_vars
    PROVE  Implemented
<1>1. ASSUME NEW a \in Areas, NEW s \in Starts, NEW e \in Pages, NEW mem \in BOOLEAN,
             ASHMEM_PIN(a, s, e, mem)
      PROVE  Implemented
    BY <1>1, PinImplemented
<1>2. ASSUME NEW a \in Areas, NEW s \in Starts, NEW e \in Pages, NEW mem \in BOOLEAN,
             ASHMEM_UNPIN(a, s, e, mem)
      PROVE  Implemented
    <2>1. s <= e \/ s = e + 1
        <3>1. IsInterval(a, s, e)
            BY <1>2 DEF ASHMEM_UNPIN
        <3>2. QED
            BY <3>1, IntervalFacts
    <2>2. QED
        BY <1>2, <2>1, UnpinImplemented, UnpinNothingImplemented
<1>3. ASSUME NEW a \in Areas, NEW s \in Starts, NEW e \in Pages, ASHMEM_GET_PIN_STATUS(a, s, e)
      PROVE  Implemented
    BY <1>3, StatusImplemented
<1>4. ASSUME UNCHANGED <<lists, gone, failed, answer>> PROVE Implemented
    <2>1. answer' \in BOOLEAN /\ answer' = answer /\ UNCHANGED <<lists, gone, failed>>
        BY <1>4 DEF Invariant
    <2>2. QED
        BY <2>1, StaysImplemented
<1>5. ASSUME NEW a \in Areas, NEW s \in Starts, NEW e \in Pages, alloc_reclaims(a, s, e)
      PROVE  UNCHANGED <<lists, gone, failed, answer>>
    BY <1>5 DEF alloc_reclaims
<1>6. ASSUME NEW t \in Tasks,
        set_size_stores(t) \/ \E a \in Areas : \E n \in Sizes[a] : set_size_tests(t, a, n)
      PROVE  UNCHANGED <<lists, gone, failed, answer>>
    BY <1>6 DEF set_size_stores, set_size_tests
<1>7. ASSUME NEW a \in Areas, ashmem_mmap(a) PROVE UNCHANGED <<lists, gone, failed, answer>>
    BY <1>7 DEF ashmem_mmap
<1>8. ASSUME NEW a \in Areas, ashmem_release(a) PROVE Implemented
    BY <1>8, ReleaseImplemented
<1>9. ASSUME NEW nr \in NrToScan, ashmem_shrink(nr) PROVE Implemented
    BY <1>9, ShrinkImplemented
<1>10. ASSUME UNCHANGED vars PROVE UNCHANGED <<lists, gone, failed, answer>>
    BY <1>10 DEF vars
<1>11. QED
    BY <1>1, <1>2, <1>3, <1>4, <1>5, <1>6, <1>7, <1>8, <1>9, <1>10 DEF Next, Starts

(***************************************************************************)
(* The invariant holds at first, and the memory is pinned.                 *)
(***************************************************************************)
LEMMA InitImplemented ==
    ASSUME Init
    PROVE  Invariant /\ Memory!Init
<1>1. RangesOK(range) /\ range = [k \in Ranges |-> None]
    BY DEF Init, RangesOK
<1>2. \A a \in Areas : unpinned_list[a] = <<>>
    BY DEF Init
<1>3. Apart(range, unpinned_list)
    <2>1. unpinned_list \in [Areas -> Seq(Ranges)]
        BY DEF Init
    <2>2. \A k \in Ranges, a \in Areas : ~Contains(unpinned_list[a], k) /\ range[k] = None
        BY <1>1, <1>2 DEF Contains
    <2>3. \A a \in Areas : Sorted(range, unpinned_list[a]) /\ Once(unpinned_list[a])
        BY <1>2 DEF Sorted, Once
    <2>4. QED
        BY <2>1, <2>2, <2>3 DEF Apart
<1>4. OnLru(range) = {}
    BY <1>1 DEF OnLru
<1>5. Listed(range, ashmem_lru_list)
    <2>1. ashmem_lru_list = <<>>
        BY DEF Init
    <2>2. ToSet(ashmem_lru_list) = {} /\ IsInjective(ashmem_lru_list) /\ ashmem_lru_list \in Seq(Ranges)
        BY <2>1 DEF ToSet, IsInjective
    <2>3. QED
        BY <1>4, <2>2 DEF Listed
<1>6. Counted(range, lru_count)
    <2>1. Evictable(range) = {}
        BY <1>4 DEF Evictable
    <2>2. QED
        BY <2>1, FS_EmptySet DEF Counted, Init
<1>7. Good(Lists)
    BY <1>1, <1>3, <1>5, <1>6 DEF Good, Lists
<1>8. /\ gone \in [Areas -> SUBSET Pages] /\ answer \in BOOLEAN /\ GoneKept
      /\ gone = [a \in Areas |-> {}] /\ failed = {} /\ answer = FALSE
    BY DEF Init, GoneKept
<1>9. \A a \in Areas : UnpinnedPages(a) = {} /\ TaintedPages(a) = {}
    <2>1. \A a \in Areas : PagesOf(range, OfArea(a)) = {} /\ EndsOf(range, OfArea(a)) = {}
        BY <1>1, NoneAssumption DEF PagesOf, EndsOf, OfArea
    <2>2. QED
        BY <1>7, <2>1, PagesNow
<1>10. Memory!Init
    BY <1>8, <1>9 DEF Memory!Init
<1>11. QED
    BY <1>7, <1>8, <1>10 DEF Invariant

\* The lists stay good in every behaviour of ashmem.c, however often it runs out of memory.
LEMMA InvariantHolds == Spec => []Invariant
<1>1. Init => Invariant
    BY InitImplemented
<1>2. Invariant /\ [Next]_vars => Invariant'
    BY StepImplemented DEF Implemented
<1>3. QED
    BY <1>1, <1>2, PTL DEF Spec

-----------------------------------------------------------------------------
(***************************************************************************)
(* The ranges of every area lie apart and in order, each in the list of    *)
(* its area: range_add, range_shrink and the breaks of the loops of        *)
(* ashmem_pin and ashmem_unpin agree about the order.                      *)
(***************************************************************************)
THEOREM RangesCorrect == Spec => []RangesApart
<1>1. ASSUME Invariant PROVE RangesApart
    <2>1. Apart(range, unpinned_list)
        BY <1>1 DEF Invariant, Good, Lists
    <2>2. \A a \in Areas : IsInjective(unpinned_list[a])
        <3>1. \A a \in Areas : unpinned_list[a] \in Seq(Ranges) /\ Once(unpinned_list[a])
            BY <2>1 DEF Apart
        <3>2. QED
            BY <3>1 DEF Once, IsInjective
    <2>3. QED
        BY <2>1, <2>2 DEF Apart, Sorted, RangesApart
<1>2. QED
    BY <1>1, InvariantHolds, PTL

(***************************************************************************)
(* lru_count is the number of pages that ashmem_shrink can free, whatever  *)
(* was shrunk, split, merged or purged.                                    *)
(***************************************************************************)
THEOREM LruCorrect == Spec => []LruCounted
<1>1. ASSUME Invariant PROVE LruCounted
    <2>1. Listed(range, ashmem_lru_list) /\ Counted(range, lru_count)
        BY <1>1 DEF Invariant, Good, Lists
    <2>2. ToSet(ashmem_lru_list) = OnLru(range) /\ IsInjective(ashmem_lru_list)
        BY <2>1 DEF Listed
    <2>3. lru_count = Cardinality({x \in OnLru(range) \X Pages : page_in_range(range[x[1]], x[2])})
        BY <2>1 DEF Counted, Evictable
    <2>4. QED
        BY <2>2, <2>3 DEF LruCounted, OnLru
<1>2. QED
    BY <1>1, InvariantHolds, PTL

(***************************************************************************)
(* ashmem_get_pin_status answers for the pages of the interval and not for *)
(* the ranges it met before it broke off, whatever was pinned, unpinned    *)
(* and purged before, intervals of no page included; the only pages that   *)
(* it takes for unpinned and are not are those that an empty range ends    *)
(* with.                                                                   *)
(***************************************************************************)
THEOREM StatusCorrect == Spec => []StatusExact
<1>1. ASSUME Invariant PROVE StatusExact
    <2>1. Good(Lists) /\ Lists.range = range
        BY <1>1 DEF Invariant, Lists
    <2>2. \A a \in Areas : UnpinnedPages(a) \cup TaintedPages(a) = SuspectOf(range, a)
        BY <2>1, PagesNow DEF SuspectOf
    <2>3. ASSUME NEW a \in Areas, NEW s \in Pages, NEW e \in Pages, s <= e
          PROVE  ashmem_get_pin_status(Lists, a, s, e)
                 <=> \E p \in s .. e : p \in UnpinnedPages(a) \cup TaintedPages(a)
        BY <2>1, <2>2, <2>3, StatusFacts
    <2>4. QED
        BY <2>3 DEF StatusExact
<1>2. QED
    BY <1>1, InvariantHolds, PTL

(***************************************************************************)
(* ashmem.c implements memory that is pinned, unpinned and purged page by  *)
(* page: a purged page is reported when it is pinned again, no page is     *)
(* purged while it is pinned, and a call is wrong about a page only after  *)
(* an unpin of no page behind it, in an area where every range could be    *)
(* allocated.                                                              *)
(***************************************************************************)
THEOREM MemoryImplemented == Spec => ImplementsMemory
<1>1. Init => Memory!Init
    BY InitImplemented
<1>2. Invariant /\ [Next]_vars => [Memory!Next]_(Memory!vars)
    BY StepImplemented DEF Implemented
<1>3. QED
    BY <1>1, <1>2, InvariantHolds, PTL DEF Spec, ImplementsMemory, Memory!Spec
=============================================================================
