------------------------- MODULE WakeLockListProofs -------------------------
(***************************************************************************)
(* The list of active wake locks, for any number of locks: the walk of     *)
(* has_wake_lock_locked returns what wakelock.h says, and the operations   *)
(* on the list are those on the set of module WakeLock.                    *)
(***************************************************************************)
EXTENDS WakeLockList, SequenceTheorems, WellFoundedInduction, TLAPS

\* No lock is linked twice.
Distinct(q) == \A i, j \in 1 .. Len(q) : q[i] = q[j] => i = j

\* The locks without a deadline come first.
PermanentFirst(q, A) == \A i, j \in 1 .. Len(q) : i < j /\ q[i] \in A => q[j] \in A

-----------------------------------------------------------------------------
\* Induction on the natural numbers, for a set.
LEMMA SetInduction ==
    ASSUME NEW S \in SUBSET Nat, 0 \in S, \A n \in S : n + 1 \in S
    PROVE  S = Nat
<1> DEFINE R == OpToRel(<, Nat)
           T == Nat \ S
<1>1. SUFFICES ASSUME T # {} PROVE FALSE
    OBVIOUS
<1>2. IsWellFoundedOn(R, Nat)
    BY NatLessThanWellFounded
<1>3. \A x, y \in Nat : <<y, x>> \in R <=> y < x
    BY DEF OpToRel
<1> HIDE DEF R
<1>4. T \subseteq Nat
    OBVIOUS
<1> HIDE DEF T
<1>5. PICK m \in T : \A x \in T : ~(<<x, m>> \in R)
    BY <1>1, <1>2, <1>4, WFMin
<1>6. m \in Nat /\ m # 0 /\ m - 1 \in Nat /\ m - 1 < m
    BY <1>5 DEF T
<1>7. m - 1 \notin T
    BY <1>3, <1>5, <1>6
<1>8. m - 1 \in S
    BY <1>6, <1>7 DEF T
<1>9. (m - 1) + 1 \in S
    BY <1>8
<1>10. m \in S
    BY <1>6, <1>9
<1>11. QED
    BY <1>5, <1>10 DEF T

\* The set of the linked locks, which list_empty and list_del look into.
LEMMA ElementsInSet ==
    ASSUME NEW q \in Seq(Locks)
    PROVE  /\ ToSet(q) = {q[i] : i \in 1 .. Len(q)} /\ \A i \in 1 .. Len(q) : q[i] \in ToSet(q)
           /\ ToSet(q) \subseteq Locks /\ \A l : Contains(q, l) <=> l \in ToSet(q)
BY DEF ToSet, Contains

\* list_del takes one lock out and leaves the others in their order.
LEMMA UnlinkFacts ==
    ASSUME NEW q \in Seq(Locks), Distinct(q), NEW l \in Locks
    PROVE  /\ Unlink(q, l) \in Seq(Locks) /\ Distinct(Unlink(q, l))
           /\ ToSet(Unlink(q, l)) = ToSet(q) \ {l}
           /\ \A A : PermanentFirst(q, A) => PermanentFirst(Unlink(q, l), A)
<1>1. CASE ~Contains(q, l)
    <2>1. Unlink(q, l) = q
        BY <1>1 DEF Unlink
    <2>2. ToSet(q) = ToSet(q) \ {l}
        BY <1>1 DEF Contains, ToSet
    <2>3. QED
        BY <2>1, <2>2
<1>2. CASE Contains(q, l)
    <2> DEFINE k == CHOOSE i \in 1 .. Len(q) : q[i] = l
               r == Unlink(q, l)
    <2>1. k \in 1 .. Len(q) /\ q[k] = l
        BY <1>2 DEF Contains
    <2>2. r = SubSeq(q, 1, k - 1) \o SubSeq(q, k + 1, Len(q))
        BY <1>2 DEF Unlink, RemoveAt
    <2> HIDE DEF k, r
    <2>3. /\ Len(q) \in Nat /\ \A i \in 1 .. Len(q) : q[i] \in Locks
        OBVIOUS
    <2> DEFINE front == SubSeq(q, 1, k - 1)
               back == SubSeq(q, k + 1, Len(q))
    <2>4. front \in Seq(Locks) /\ Len(front) = k - 1 /\ \A i \in 1 .. k - 1 : front[i] = q[i]
        BY <2>1, <2>3
    <2>5. /\ back \in Seq(Locks) /\ Len(back) = Len(q) - k
          /\ \A i \in 1 .. Len(q) - k : back[i] = q[k + i]
        BY <2>1, <2>3
    <2>6. r = front \o back
        BY <2>2
    <2> HIDE DEF front, back
    <2>7. /\ r \in Seq(Locks) /\ Len(r) = Len(front) + Len(back)
          /\ \A i \in 1 .. Len(front) + Len(back) :
                r[i] = IF i <= Len(front) THEN front[i] ELSE back[i - Len(front)]
        BY <2>6, <2>4, <2>5, ConcatProperties
    <2>8. r \in Seq(Locks) /\ Len(r) = Len(q) - 1
        BY <2>1, <2>3, <2>4, <2>5, <2>7
    <2>9. \A i \in 1 .. Len(r) : r[i] = IF i < k THEN front[i] ELSE back[i - (k - 1)]
        <3>1. k \in Int /\ Len(front) = k - 1
            BY <2>1, <2>4
        <3>2. \A i \in 1 .. Len(r) : i < k <=> i <= Len(front)
            BY <2>8, <3>1
        <3>3. QED
            BY <2>7, <3>1, <3>2
    <2>10. \A i \in 1 .. Len(r) : r[i] = IF i < k THEN q[i] ELSE q[i + 1]
        BY <2>1, <2>3, <2>4, <2>5, <2>8, <2>9
    <2>11. Distinct(r)
        BY <2>1, <2>3, <2>8, <2>10 DEF Distinct
    <2>12. ToSet(r) = ToSet(q) \ {l}
        <3>1. ToSet(q) = {q[i] : i \in 1 .. Len(q)} /\ ToSet(r) = {r[i] : i \in 1 .. Len(r)}
            BY <2>3, <2>8 DEF ToSet
        <3>2. ASSUME NEW i \in 1 .. Len(r) PROVE r[i] \in ToSet(q) /\ r[i] # l
            BY <2>1, <2>3, <2>8, <2>10, <3>1 DEF Distinct
        <3>3. ASSUME NEW i \in 1 .. Len(q), q[i] # l PROVE q[i] \in ToSet(r)
            <4>1. CASE i < k
                BY <2>1, <2>3, <2>8, <2>10, <3>1, <4>1
            <4>2. CASE i > k
                <5>1. i - 1 \in 1 .. Len(r) /\ r[i - 1] = q[i]
                    BY <2>1, <2>3, <2>8, <2>10, <4>2
                <5>2. QED
                    BY <3>1, <5>1
            <4>3. QED
                BY <2>1, <2>3, <3>3, <4>1, <4>2
        <3>4. QED
            BY <3>1, <3>2, <3>3
    <2>13. ASSUME NEW A, PermanentFirst(q, A) PROVE PermanentFirst(r, A)
        BY <2>1, <2>3, <2>8, <2>10, <2>13 DEF PermanentFirst
    <2>14. QED
        BY <2>8, <2>11, <2>12, <2>13 DEF r
<1>3. QED
    BY <1>1, <1>2

-----------------------------------------------------------------------------
\* What the function at the centre of the walk is.
Steps(q, A, L, n, w) ==
    w = [i \in 0 .. n |-> IF i = 0 THEN WalkBegins(q) ELSE WalkStep(A, L, w[i - 1], q[i])]

\* The recursive function of the walk exists, on a list of any length.
LEMMA WalkExists ==
    ASSUME NEW q \in Seq(Locks), NEW A, NEW L
    PROVE  \A n \in Nat : \E w : Steps(q, A, L, n, w)
<1> DEFINE S == {n \in Nat : \E w : Steps(q, A, L, n, w)}
<1>1. 0 \in S
    <2> DEFINE w == [i \in 0 .. 0 |-> WalkBegins(q)]
    <2>1. Steps(q, A, L, 0, w)
        BY DEF Steps
    <2>2. QED
        BY <2>1
<1>2. ASSUME NEW n \in S PROVE n + 1 \in S
    <2>1. PICK w : Steps(q, A, L, n, w)
        OBVIOUS
    <2> DEFINE v == [i \in 0 .. n + 1 |-> IF i <= n THEN w[i] ELSE WalkStep(A, L, w[n], q[n + 1])]
    <2>2. \A i \in 0 .. n : w[i] = IF i = 0 THEN WalkBegins(q) ELSE WalkStep(A, L, w[i - 1], q[i])
        BY <2>1 DEF Steps
    <2>3. \A i \in 0 .. n + 1 : i # 0 => i - 1 \in 0 .. n /\ v[i - 1] = w[i - 1]
        OBVIOUS
    <2>4. \A i \in 0 .. n + 1 : v[i] = IF i = 0 THEN WalkBegins(q) ELSE WalkStep(A, L, v[i - 1], q[i])
        <3>1. ASSUME NEW i \in 0 .. n
              PROVE  v[i] = IF i = 0 THEN WalkBegins(q) ELSE WalkStep(A, L, v[i - 1], q[i])
            BY <2>2, <2>3
        <3>2. ASSUME NEW i \in 0 .. n + 1, i = n + 1
              PROVE  v[i] = IF i = 0 THEN WalkBegins(q) ELSE WalkStep(A, L, v[i - 1], q[i])
            <4>1. v[i] = WalkStep(A, L, w[n], q[i]) /\ i # 0 /\ i - 1 = n /\ n \in 0 .. n
                BY <3>2
            <4>2. v[i - 1] = w[n]
                BY <4>1
            <4>3. QED
                BY <4>1, <4>2
        <3>3. \A i \in 0 .. n + 1 : i \in 0 .. n \/ i = n + 1
            OBVIOUS
        <3> HIDE DEF v
        <3>4. QED
            BY <3>1, <3>2, <3>3
    <2>5. Steps(q, A, L, n + 1, v)
        BY <2>4 DEF Steps
    <2>6. QED
        BY <2>5
<1>3. S = Nat
    BY <1>1, <1>2, SetInduction
<1>4. QED
    BY <1>3

\* Walk starts with nothing found and takes one step of has_wake_lock_locked per lock.
LEMMA WalkSteps ==
    ASSUME NEW q \in Seq(Locks), NEW A, NEW L
    PROVE  /\ Walk(q, A, L)[0] = WalkBegins(q)
           /\ \A i \in 1 .. Len(q) : Walk(q, A, L)[i] = WalkStep(A, L, Walk(q, A, L)[i - 1], q[i])
<1>1. Len(q) \in Nat
    OBVIOUS
<1>2. \E w : Steps(q, A, L, Len(q), w)
    BY <1>1, WalkExists
<1>3. Steps(q, A, L, Len(q), Walk(q, A, L))
    BY <1>2 DEF Steps, Walk
<1>4. QED
    BY <1>1, <1>3 DEF Steps

Found == [ret : Nat, expired : SUBSET Locks, kept : Seq(Locks)]

\* What the walk has found after i locks, all of which have a deadline.
Walked(found, q, L, i) ==
    /\ found \in Found /\ Distinct(found.kept)
    /\ found.expired = {l \in Locks : L[l] = 0 /\ \E k \in 1 .. i : q[k] = l}
    /\ ToSet(found.kept) = ToSet(q) \ found.expired
    /\ \A k \in 1 .. i : L[q[k]] <= found.ret
    /\ found.ret = 0 \/ \E k \in 1 .. i : L[q[k]] = found.ret

\* A step that only changes the time to return.
LEMMA FoundReturns ==
    ASSUME NEW found \in Found, NEW n \in Nat, NEW next, next = [found EXCEPT !.ret = n]
    PROVE  next \in Found /\ next.ret = n /\ next.expired = found.expired /\ next.kept = found.kept
BY DEF Found

\* One step of the walk: it expires the lock, or remembers the latest deadline.
LEMMA WalkStepFacts ==
    ASSUME NEW q \in Seq(Locks), Distinct(q), NEW A, NEW L \in [Locks -> Nat],
           NEW i \in Nat, i + 1 <= Len(q), q[i + 1] \in A, NEW found, Walked(found, q, L, i)
    PROVE  Walked(WalkStep(A, L, found, q[i + 1]), q, L, i + 1)
<1> DEFINE l == q[i + 1]
           next == WalkStep(A, L, found, l)
<1>1. i + 1 \in 1 .. Len(q) /\ l \in Locks /\ L[l] \in Nat
    OBVIOUS
<1>2. /\ found \in Found /\ found.ret \in Nat /\ found.ret # -1
      /\ found.expired \in SUBSET Locks /\ found.kept \in Seq(Locks)
    BY DEF Walked, Found
<1>3. \A k \in 1 .. i + 1 : k \in 1 .. i \/ k = i + 1
    OBVIOUS
<1>4. \A k \in 1 .. i : k \in 1 .. i + 1 /\ k \in 1 .. Len(q) /\ L[q[k]] \in Nat
    OBVIOUS
<1>5. CASE L[l] = 0
    <2>1. next = [found EXCEPT !.kept = Unlink(found.kept, l), !.expired = found.expired \cup {l}]
        BY <1>2, <1>5 DEF WalkStep
    <2>2. /\ Unlink(found.kept, l) \in Seq(Locks) /\ Distinct(Unlink(found.kept, l))
          /\ ToSet(Unlink(found.kept, l)) = ToSet(found.kept) \ {l}
        BY <1>1, <1>2, UnlinkFacts DEF Walked
    <2>3. /\ next \in Found /\ next.ret = found.ret /\ next.expired = found.expired \cup {l}
          /\ next.kept = Unlink(found.kept, l)
        <3> DEFINE X == found.expired \cup {l}
                   r == Unlink(found.kept, l)
        <3>1. X \in SUBSET Locks /\ r \in Seq(Locks)
            BY <1>1, <1>2, <2>2
        <3>2. next = [found EXCEPT !.kept = r, !.expired = X]
            BY <2>1
        <3> HIDE DEF X, r, next
        <3>3. next \in Found /\ next.ret = found.ret /\ next.expired = X /\ next.kept = r
            BY <1>2, <3>1, <3>2 DEF Found
        <3>4. QED
            BY <3>3 DEF X, r
    <2> HIDE DEF next
    <2>4. next.expired = {m \in Locks : L[m] = 0 /\ \E k \in 1 .. i + 1 : q[k] = m}
        BY <1>1, <1>3, <1>4, <1>5, <2>3 DEF Walked
    <2>5. ToSet(next.kept) = ToSet(q) \ next.expired
        BY <2>2, <2>3 DEF Walked
    <2>6. ASSUME NEW k \in 1 .. i + 1 PROVE L[q[k]] <= next.ret
        <3>1. CASE k \in 1 .. i
            BY <2>3, <3>1 DEF Walked
        <3>2. CASE k = i + 1
            BY <1>2, <1>5, <2>3, <3>2
        <3>3. QED
            BY <1>3, <3>1, <3>2
    <2>7. next.ret = 0 \/ \E k \in 1 .. i + 1 : L[q[k]] = next.ret
        BY <1>4, <2>3 DEF Walked
    <2>8. QED
        BY <2>2, <2>3, <2>4, <2>5, <2>6, <2>7 DEF Walked, next
<1>6. CASE L[l] # 0
    <2> DEFINE n == IF L[l] > found.ret THEN L[l] ELSE found.ret
    <2>1. next = [found EXCEPT !.ret = n]
        BY <1>2, <1>6 DEF WalkStep
    <2>2. n \in Nat /\ L[l] <= n /\ found.ret <= n /\ n \in {L[l], found.ret}
        BY <1>1, <1>2
    <2> HIDE DEF n
    <2>3. /\ next \in Found /\ next.ret = n /\ next.expired = found.expired
          /\ next.kept = found.kept
        BY <1>2, <2>1, <2>2, FoundReturns
    <2> HIDE DEF next
    <2>4. next.expired = {m \in Locks : L[m] = 0 /\ \E k \in 1 .. i + 1 : q[k] = m}
        BY <1>1, <1>3, <1>4, <1>6, <2>3 DEF Walked
    <2>5. ToSet(next.kept) = ToSet(q) \ next.expired
        BY <2>3 DEF Walked
    <2>6. \A k \in 1 .. i + 1 : L[q[k]] <= next.ret
        BY <1>1, <1>2, <1>3, <1>4, <2>2, <2>3 DEF Walked
    <2>7. next.ret = 0 \/ \E k \in 1 .. i + 1 : L[q[k]] = next.ret
        <3>1. i + 1 \in 1 .. i + 1
            OBVIOUS
        <3>2. QED
            BY <1>4, <2>2, <2>3, <3>1 DEF Walked
    <2>8. QED
        BY <2>3, <2>4, <2>5, <2>6, <2>7 DEF Walked, next
<1>7. QED
    BY <1>5, <1>6

\* The walk over a list in which every lock has a deadline.
LEMMA WalkWithDeadlines ==
    ASSUME NEW q \in Seq(Locks), Distinct(q), NEW A, NEW L \in [Locks -> Nat], ToSet(q) \subseteq A
    PROVE  Walked(has_wake_lock_locked(q, A, L), q, L, Len(q))
<1> DEFINE w == Walk(q, A, L)
           S == {i \in Nat : i <= Len(q) => Walked(w[i], q, L, i)}
<1>1. Len(q) \in Nat /\ \A i \in 1 .. Len(q) : q[i] \in A
    BY DEF ToSet
<1>2. 0 \in S
    <2>1. w[0] = WalkBegins(q)
        BY WalkSteps
    <2>2. w[0] \in Found /\ w[0].ret = 0 /\ w[0].expired = {} /\ w[0].kept = q
        BY <2>1 DEF WalkBegins, Found
    <2> HIDE DEF w
    <2>3. Walked(w[0], q, L, 0)
        BY <2>2 DEF Walked
    <2>4. QED
        BY <2>3
<1>3. ASSUME NEW i \in S PROVE i + 1 \in S
    <2>1. SUFFICES ASSUME i + 1 <= Len(q) PROVE Walked(w[i + 1], q, L, i + 1)
        OBVIOUS
    <2>2. i \in Nat /\ i + 1 \in 1 .. Len(q) /\ i <= Len(q) /\ (i + 1) - 1 = i
        BY <1>1, <2>1
    <2>3. w[i + 1] = WalkStep(A, L, w[i], q[i + 1])
        BY <2>2, WalkSteps
    <2>4. Walked(w[i], q, L, i)
        BY <2>2
    <2> HIDE DEF w
    <2>5. QED
        BY <1>1, <2>1, <2>2, <2>3, <2>4, WalkStepFacts
<1> HIDE DEF w
<1>4. S = Nat
    BY <1>2, <1>3, SetInduction
<1>5. Walked(w[Len(q)], q, L, Len(q))
    BY <1>1, <1>4
<1>6. QED
    BY <1>5 DEF has_wake_lock_locked, w

\* The walk over a list with a lock without a deadline.
LEMMA WalkStops ==
    ASSUME NEW q \in Seq(Locks), NEW A, NEW L, PermanentFirst(q, A), ~(ToSet(q) \subseteq A)
    PROVE  has_wake_lock_locked(q, A, L) = [ret |-> -1, expired |-> {}, kept |-> q]
<1> DEFINE w == Walk(q, A, L)
           end == [ret |-> -1, expired |-> {}, kept |-> q]
           S == {i \in Nat : 1 <= i /\ i <= Len(q) => w[i] = end}
<1>1. Len(q) \in Nat /\ Len(q) # 0 /\ q[1] \notin A
    <2>1. PICK j \in 1 .. Len(q) : q[j] \notin A
        BY DEF ToSet
    <2>2. 1 \in 1 .. Len(q) /\ (j = 1 \/ 1 < j)
        BY <2>1
    <2>3. QED
        BY <2>1, <2>2 DEF PermanentFirst
<1>2. w[1] = end
    <2>1. w[0] = WalkBegins(q) /\ 1 \in 1 .. Len(q) /\ 1 - 1 = 0
        BY <1>1, WalkSteps
    <2>2. w[1] = WalkStep(A, L, WalkBegins(q), q[1])
        BY <2>1, WalkSteps
    <2>3. QED
        BY <1>1, <2>2 DEF WalkStep, WalkBegins
<1>3. 0 \in S
    OBVIOUS
<1>4. ASSUME NEW i \in S PROVE i + 1 \in S
    <2>1. SUFFICES ASSUME i + 1 <= Len(q), i # 0 PROVE w[i + 1] = end
        BY <1>2
    <2>2. i \in Nat /\ i + 1 \in 1 .. Len(q) /\ 1 <= i /\ i <= Len(q) /\ (i + 1) - 1 = i
        BY <1>1, <2>1
    <2>3. w[i + 1] = WalkStep(A, L, w[i], q[i + 1])
        BY <2>2, WalkSteps
    <2>4. w[i] = end
        BY <2>2
    <2>5. end.ret = -1
        OBVIOUS
    <2> HIDE DEF w, end
    <2>6. QED
        BY <2>3, <2>4, <2>5 DEF WalkStep
<1> HIDE DEF w, end
<1>5. S = Nat
    BY <1>3, <1>4, SetInduction
<1>6. w[Len(q)] = end
    <2>1. Len(q) \in S /\ 1 <= Len(q)
        BY <1>1, <1>5
    <2>2. QED
        BY <1>1, <2>1
<1>7. QED
    BY <1>6 DEF has_wake_lock_locked, w, end

\* What has_wake_lock_locked returns and leaves, in terms of the set of locks.
WalkResult(w, q, A, L) ==
    /\ w.expired = Sets!Expired(ToSet(q), A, L)
    /\ w.kept \in Seq(Locks) /\ Distinct(w.kept) /\ ToSet(w.kept) = ToSet(q) \ w.expired
    /\ PermanentFirst(w.kept, A \ w.expired)
    /\ ToSet(q) \subseteq A => /\ w.ret \in Nat /\ \A l \in ToSet(q) : L[l] <= w.ret
                               /\ w.ret = 0 \/ \E l \in ToSet(q) : L[l] = w.ret
    /\ ~(ToSet(q) \subseteq A) => w.ret = -1

\* The whole of has_wake_lock_locked, on a list with the permanent locks in front.
LEMMA WalkFacts ==
    ASSUME NEW q \in Seq(Locks), Distinct(q), NEW A, NEW L \in [Locks -> Nat], PermanentFirst(q, A)
    PROVE  WalkResult(has_wake_lock_locked(q, A, L), q, A, L)
<1> DEFINE w == has_wake_lock_locked(q, A, L)
<1>1. ToSet(q) = {q[k] : k \in 1 .. Len(q)} /\ ToSet(q) \subseteq Locks
    BY DEF ToSet
<1>2. CASE ToSet(q) \subseteq A
    <2>1. Walked(w, q, L, Len(q))
        BY <1>2, WalkWithDeadlines
    <2> HIDE DEF w
    <2>2. /\ w.ret \in Nat /\ w.kept \in Seq(Locks) /\ Distinct(w.kept)
          /\ ToSet(w.kept) = ToSet(q) \ w.expired
        BY <2>1 DEF Walked, Found
    <2>3. w.expired = Sets!Expired(ToSet(q), A, L)
        BY <1>1, <1>2, <2>1 DEF Walked, Sets!Expired
    <2>4. \A l \in ToSet(q) : L[l] <= w.ret
        BY <1>1, <2>1 DEF Walked
    <2>5. w.ret = 0 \/ \E l \in ToSet(q) : L[l] = w.ret
        BY <1>1, <2>1 DEF Walked
    <2>6. PermanentFirst(w.kept, A \ w.expired)
        <3>1. ToSet(w.kept) \subseteq A \ w.expired
            BY <1>2, <2>2
        <3>2. \A k \in 1 .. Len(w.kept) : w.kept[k] \in ToSet(w.kept)
            BY <2>2 DEF ToSet
        <3>3. QED
            BY <3>1, <3>2 DEF PermanentFirst
    <2>7. QED
        BY <1>2, <2>2, <2>3, <2>4, <2>5, <2>6 DEF WalkResult, w
<1>3. CASE ~(ToSet(q) \subseteq A)
    <2>1. w.ret = -1 /\ w.expired = {} /\ w.kept = q
        BY <1>3, WalkStops
    <2> HIDE DEF w
    <2>2. w.expired = Sets!Expired(ToSet(q), A, L)
        BY <1>3, <2>1 DEF Sets!Expired
    <2>3. PermanentFirst(w.kept, A \ w.expired)
        BY <2>1 DEF PermanentFirst
    <2>4. QED
        BY <1>3, <2>1, <2>2, <2>3 DEF WalkResult, w
<1>4. QED
    BY <1>2, <1>3

-----------------------------------------------------------------------------
ListInv ==
    /\ list \in Seq(Locks) /\ Distinct(list) /\ PermanentFirst(list, autoExpire)
    /\ left \in [Locks -> Nat]

\* Both modules queue a work in the same way.
LEMMA QueueSame == \A q, work : queue_work(q, work) = Sets!queue_work(q, work)
BY DEF queue_work, Sets!queue_work, Sets!Pending, Contains

(***************************************************************************)
(* The tail of wake_lock_internal and of wake_unlock: the walk over the    *)
(* new list, the timer and the work.                                       *)
(***************************************************************************)
LEMMA TailImplements ==
    ASSUME NEW q \in Seq(Locks), Distinct(q), NEW A, NEW L \in [Locks -> Nat], PermanentFirst(q, A),
           NEW w, w = has_wake_lock_locked(q, A, L), list' = w.kept, autoExpire' = A \ w.expired,
           left' = L, TimerAndQueue(w.ret)
    PROVE  ListInv' /\ Sets!Reevaluate(ToSet(q), A, L, suspendQueue)
<1> DEFINE S == ToSet(q)
<1>1. WalkResult(w, q, A, L)
    BY WalkFacts
<1>2. /\ w.expired = Sets!Expired(S, A, L)
      /\ w.kept \in Seq(Locks) /\ Distinct(w.kept) /\ ToSet(w.kept) = S \ w.expired
      /\ PermanentFirst(w.kept, A \ w.expired)
    BY <1>1 DEF WalkResult
<1>3. /\ S \subseteq A => /\ w.ret \in Nat /\ \A l \in S : L[l] <= w.ret
                          /\ w.ret = 0 \/ \E l \in S : L[l] = w.ret
      /\ ~(S \subseteq A) => w.ret = -1
    BY <1>1 DEF WalkResult
<1>4. ListInv'
    BY <1>2 DEF ListInv
<1>5. ToSet(list') = S \ Sets!Expired(S, A, L) /\ autoExpire' = A \ Sets!Expired(S, A, L)
    BY <1>2
<1>6. \A l \in S : L[l] \in Nat
    BY DEF ToSet
<1> HIDE DEF S
<1>7. CASE S \subseteq A /\ w.ret > 0
    <2>1. PICK l \in S : L[l] = w.ret
        BY <1>3, <1>7
    <2>2. l \in ToSet(list') /\ \A k \in ToSet(list') : L[k] <= L[l]
        BY <1>3, <1>5, <1>7, <2>1 DEF Sets!Expired
    <2>3. ToSet(list') \subseteq autoExpire'
        BY <1>5, <1>7
    <2>4. expire_timer' = L[l] /\ suspendQueue' = suspendQueue
        BY <1>7, <2>1 DEF TimerAndQueue
    <2>5. Sets!ArmTimer
        BY <2>2, <2>3, <2>4 DEF Sets!ArmTimer
    <2>6. Sets!QueueIfNoneHeld(suspendQueue)
        BY <2>2, <2>4 DEF Sets!QueueIfNoneHeld
    <2>7. QED
        BY <1>4, <1>5, <2>5, <2>6 DEF Sets!Reevaluate, S
<1>8. CASE S \subseteq A /\ w.ret = 0
    <2>1. ToSet(list') = {}
        BY <1>3, <1>5, <1>6, <1>8 DEF Sets!Expired
    <2>2. expire_timer' = Off /\ suspendQueue' = queue_work(suspendQueue, "suspend")
        BY <1>8 DEF TimerAndQueue
    <2>3. Sets!StopTimer
        BY <2>1, <2>2 DEF Sets!StopTimer, Sets!Off, Off
    <2>4. Sets!QueueIfNoneHeld(suspendQueue)
        BY <2>1, <2>2, QueueSame DEF Sets!QueueIfNoneHeld
    <2>5. QED
        BY <1>4, <1>5, <2>3, <2>4 DEF Sets!Reevaluate, S
<1>9. CASE ~(S \subseteq A)
    <2>1. w.ret = -1 /\ ToSet(list') = S /\ ToSet(list') # {} /\ ~(ToSet(list') \subseteq autoExpire')
        BY <1>3, <1>5, <1>9 DEF Sets!Expired
    <2>2. expire_timer' = Off /\ suspendQueue' = suspendQueue
        BY <2>1 DEF TimerAndQueue
    <2>3. Sets!StopTimer
        BY <2>1, <2>2 DEF Sets!StopTimer, Sets!Off, Off
    <2>4. Sets!QueueIfNoneHeld(suspendQueue)
        BY <2>1, <2>2 DEF Sets!QueueIfNoneHeld
    <2>5. QED
        BY <1>4, <1>5, <2>3, <2>4 DEF Sets!Reevaluate, S
<1>10. QED
    BY <1>3, <1>7, <1>8, <1>9

\* The lists that list_add_tail and list_add make.
LEMMA RelinkTail ==
    ASSUME ListInv, NEW l \in Locks, NEW q, q = Append(Unlink(list, l), l)
    PROVE  /\ q \in Seq(Locks) /\ Distinct(q) /\ ToSet(q) = ToSet(list) \cup {l}
           /\ PermanentFirst(q, autoExpire \cup {l})
<1> DEFINE r == Unlink(list, l)
<1>1. /\ r \in Seq(Locks) /\ Distinct(r) /\ ToSet(r) = ToSet(list) \ {l}
      /\ PermanentFirst(r, autoExpire)
    BY UnlinkFacts DEF ListInv
<1>2. q = Append(r, l)
    OBVIOUS
<1> HIDE DEF r
<1>3. /\ q \in Seq(Locks) /\ Len(r) \in Nat /\ Len(q) = Len(r) + 1 /\ q[Len(q)] = l
      /\ \A i \in 1 .. Len(r) : q[i] = r[i]
    BY <1>1, <1>2
<1>4. \A i \in 1 .. Len(r) : r[i] # l
    <2>1. \A i \in 1 .. Len(r) : r[i] \in ToSet(r)
        BY <1>1, ElementsInSet
    <2>2. QED
        BY <1>1, <2>1
<1>5. \A i \in 1 .. Len(q) : i \in 1 .. Len(r) \/ i = Len(q)
    BY <1>3
<1>6. Distinct(q)
    BY <1>1, <1>3, <1>4, <1>5 DEF Distinct
<1>7. ToSet(q) = ToSet(list) \cup {l}
    <2>1. ToSet(q) = {q[i] : i \in 1 .. Len(q)} /\ ToSet(r) = {r[i] : i \in 1 .. Len(r)}
        BY <1>1, <1>3, ElementsInSet
    <2>2. ToSet(q) = ToSet(r) \cup {l}
        BY <1>3, <1>5, <2>1
    <2>3. QED
        BY <1>1, <2>2
<1>8. PermanentFirst(q, autoExpire \cup {l})
    BY <1>1, <1>3, <1>4, <1>5 DEF PermanentFirst
<1>9. QED
    BY <1>3, <1>6, <1>7, <1>8

\* A list with one lock put in front.
LEMMA Prepended ==
    ASSUME NEW r \in Seq(Locks), NEW l \in Locks
    PROVE  /\ <<l>> \o r \in Seq(Locks) /\ Len(<<l>> \o r) = Len(r) + 1 /\ (<<l>> \o r)[1] = l
           /\ \A i \in 2 .. Len(r) + 1 : (<<l>> \o r)[i] = r[i - 1]
<1> DEFINE h == <<l>>
<1>1. h \in Seq(Locks) /\ Len(h) = 1 /\ h[1] = l /\ Len(r) \in Nat
    OBVIOUS
<1> HIDE DEF h
<1>2. /\ h \o r \in Seq(Locks) /\ Len(h \o r) = Len(h) + Len(r)
      /\ \A i \in 1 .. Len(h) + Len(r) : (h \o r)[i] = IF i <= Len(h) THEN h[i] ELSE r[i - Len(h)]
    BY <1>1, ConcatProperties
<1>3. Len(h \o r) = Len(r) + 1 /\ (h \o r)[1] = l /\ \A i \in 2 .. Len(r) + 1 : (h \o r)[i] = r[i - 1]
    BY <1>1, <1>2
<1>4. QED
    BY <1>2, <1>3 DEF h

\* list_add: the lock without a deadline stands first, before all that have one.
LEMMA RelinkHead ==
    ASSUME ListInv, NEW l \in Locks, NEW q, q = <<l>> \o Unlink(list, l)
    PROVE  /\ q \in Seq(Locks) /\ Distinct(q) /\ ToSet(q) = ToSet(list) \cup {l}
           /\ PermanentFirst(q, autoExpire \ {l})
<1> DEFINE r == Unlink(list, l)
<1>1. /\ r \in Seq(Locks) /\ Distinct(r) /\ ToSet(r) = ToSet(list) \ {l}
      /\ PermanentFirst(r, autoExpire)
    BY UnlinkFacts DEF ListInv
<1>2. /\ q \in Seq(Locks) /\ Len(q) = Len(r) + 1 /\ q[1] = l
      /\ \A i \in 2 .. Len(r) + 1 : q[i] = r[i - 1]
    BY <1>1, Prepended
<1> HIDE DEF r
<1>3. /\ q \in Seq(Locks) /\ Len(r) \in Nat /\ Len(q) = Len(r) + 1 /\ q[1] = l
      /\ \A i \in 2 .. Len(q) : i - 1 \in 1 .. Len(r) /\ q[i] = r[i - 1]
    BY <1>1, <1>2
<1>4. \A i \in 1 .. Len(r) : r[i] # l
    <2>1. \A i \in 1 .. Len(r) : r[i] \in ToSet(r)
        BY <1>1, ElementsInSet
    <2>2. QED
        BY <1>1, <2>1
<1>5. \A i \in 1 .. Len(q) : i \in 2 .. Len(q) \/ i = 1
    BY <1>3
<1>6. Distinct(q)
    BY <1>1, <1>3, <1>4, <1>5 DEF Distinct
<1>7. ToSet(q) = ToSet(list) \cup {l}
    <2>1. ToSet(q) = {q[i] : i \in 1 .. Len(q)} /\ ToSet(r) = {r[i] : i \in 1 .. Len(r)}
        BY <1>1, <1>3, ElementsInSet
    <2>2. \A i \in 1 .. Len(r) : i + 1 \in 2 .. Len(q) /\ (i + 1) - 1 = i
        BY <1>3
    <2>3. \A i \in 1 .. Len(r) : r[i] \in ToSet(q)
        BY <1>3, <2>1, <2>2
    <2>4. ToSet(q) = ToSet(r) \cup {l}
        BY <1>3, <1>5, <2>1, <2>3
    <2>5. QED
        BY <1>1, <2>4
<1>8. PermanentFirst(q, autoExpire \ {l})
    <2>1. SUFFICES ASSUME NEW i \in 1 .. Len(q), NEW j \in 1 .. Len(q), i < j, q[i] \in autoExpire \ {l}
                   PROVE  q[j] \in autoExpire \ {l}
        BY DEF PermanentFirst
    <2>2. i \in 2 .. Len(q) /\ j \in 2 .. Len(q)
        BY <1>3, <1>5, <2>1
    <2>3. /\ i - 1 \in 1 .. Len(r) /\ j - 1 \in 1 .. Len(r) /\ i - 1 < j - 1
          /\ q[i] = r[i - 1] /\ q[j] = r[j - 1]
        BY <1>3, <2>1, <2>2
    <2>4. r[j - 1] \in autoExpire
        BY <1>1, <2>1, <2>3 DEF PermanentFirst
    <2>5. QED
        BY <1>4, <2>3, <2>4
<1>9. QED
    BY <1>3, <1>6, <1>7, <1>8

-----------------------------------------------------------------------------
\* One lemma per operation: it keeps the list in order and is one on the set.
LEMMA LockTimeoutStep ==
    ASSUME ListInv, NEW l \in Locks, NEW timeout \in 0 .. MaxTimeout,
           wake_lock_internal(l, timeout, TRUE)
    PROVE  ListInv' /\ Sets!wake_lock_timeout(l, timeout, suspendQueue)
<1> DEFINE q == Append(Unlink(list, l), l)
           S == ToSet(list) \cup {l}
           A == autoExpire \cup {l}
           L == [left EXCEPT ![l] = timeout]
           P == IF l \in autoExpire /\ left[l] = 0 THEN preventing \ {l} ELSE preventing
           w == has_wake_lock_locked(q, A, L)
<1>1. q \in Seq(Locks) /\ Distinct(q) /\ ToSet(q) = S /\ PermanentFirst(q, A)
    BY RelinkTail
<1>2. timeout \in Nat /\ L \in [Locks -> Nat]
    BY TimeoutAssumption DEF ListInv
<1>3. Contains(q, Main) <=> Main \in S
    <2>1. ToSet(q) = {q[i] : i \in 1 .. Len(q)}
        BY <1>1 DEF ToSet
    <2>2. QED
        BY <1>1, <2>1 DEF Contains
<1>4. /\ l \in initialized /\ newEvent' = TRUE /\ UNCHANGED <<initialized, expiring>>
      /\ list' = w.kept /\ autoExpire' = A \ w.expired /\ left' = L /\ TimerAndQueue(w.ret)
    BY DEF wake_lock_internal, Relink
<1>5. preventing' = (IF l = Main
                     THEN update_sleep_wait_stats_locked(P, q, A, L, TRUE)
                     ELSE IF ~Contains(q, Main)
                     THEN update_sleep_wait_stats_locked(P, q, A, L, FALSE)
                     ELSE P) \ w.expired
    BY DEF wake_lock_internal, Relink
<1> HIDE DEF q, S, A, L, P, w
<1>6. w.expired = Sets!Expired(S, A, L)
    <2>1. WalkResult(w, q, A, L)
        BY <1>1, <1>2, WalkFacts DEF w
    <2>2. QED
        BY <1>1, <2>1 DEF WalkResult
<1>7. ListInv' /\ Sets!Reevaluate(S, A, L, suspendQueue)
    BY <1>1, <1>2, <1>4, TailImplements DEF w
<1>8. preventing' = (IF l = Main THEN P \ S
                     ELSE IF Main \in S THEN P
                     ELSE Sets!update_sleep_wait_stats(P, S, A, L)) \ Sets!Expired(S, A, L)
    <2>1. /\ update_sleep_wait_stats_locked(P, q, A, L, TRUE) = P \ S
          /\ update_sleep_wait_stats_locked(P, q, A, L, FALSE) = Sets!update_sleep_wait_stats(P, S, A, L)
        <3>1. /\ \A m : Contains(q, m) <=> m \in ToSet(q)
              /\ \A m \in ToSet(q) : L[m] \in Nat
            <4>1. ToSet(q) \subseteq Locks /\ \A m : Contains(q, m) <=> m \in ToSet(q)
                BY <1>1, ElementsInSet
            <4>2. QED
                BY <1>2, <4>1
        <3>2. update_sleep_wait_stats_locked(P, q, A, L, TRUE) = P \ ToSet(q)
            BY <3>1 DEF update_sleep_wait_stats_locked, Sets!update_sleep_wait_stats
        <3>3. update_sleep_wait_stats_locked(P, q, A, L, FALSE)
                = Sets!update_sleep_wait_stats(P, ToSet(q), A, L)
            BY <3>1 DEF update_sleep_wait_stats_locked, Sets!update_sleep_wait_stats
        <3>4. QED
            BY <1>1, <3>2, <3>3
    <2>2. QED
        BY <1>3, <1>5, <1>6, <2>1
<1>9. Sets!wake_lock_internal(l, timeout, TRUE, suspendQueue)
    BY <1>4, <1>7, <1>8 DEF Sets!wake_lock_internal, S, A, L, P
<1>10. QED
    BY <1>4, <1>7, <1>9 DEF Sets!wake_lock_timeout

\* wake_lock.
LEMMA LockStep ==
    ASSUME ListInv, NEW l \in Locks, wake_lock_internal(l, 0, FALSE)
    PROVE  ListInv' /\ Sets!wake_lock(l, suspendQueue)
<1> DEFINE q == <<l>> \o Unlink(list, l)
           S == ToSet(list) \cup {l}
           A == autoExpire \ {l}
           L == [left EXCEPT ![l] = 0]
           P == IF l \in autoExpire /\ left[l] = 0 THEN preventing \ {l} ELSE preventing
           w == [ret |-> -1, expired |-> {}, kept |-> q]
<1>1. q \in Seq(Locks) /\ Distinct(q) /\ ToSet(q) = S /\ PermanentFirst(q, A)
    BY RelinkHead
<1>2. L \in [Locks -> Nat] /\ l \in S /\ l \notin A
    BY DEF ListInv
<1>3. /\ \A m : Contains(q, m) <=> m \in S
      /\ \A m \in S : L[m] \in Nat
    <2>1. ToSet(q) \subseteq Locks /\ \A m : Contains(q, m) <=> m \in ToSet(q)
        BY <1>1, ElementsInSet
    <2>2. QED
        BY <1>1, <1>2, <2>1
<1>4. /\ l \in initialized /\ newEvent' = TRUE /\ UNCHANGED <<initialized, expiring>>
      /\ list' = w.kept /\ autoExpire' = A \ w.expired /\ left' = L /\ TimerAndQueue(w.ret)
    BY DEF wake_lock_internal, Relink
<1>5. preventing' = (IF l = Main
                     THEN update_sleep_wait_stats_locked(P, q, A, L, TRUE)
                     ELSE IF ~Contains(q, Main)
                     THEN update_sleep_wait_stats_locked(P, q, A, L, FALSE)
                     ELSE P) \ {}
    BY DEF wake_lock_internal, Relink
<1>6. w.expired = {}
    OBVIOUS
<1> HIDE DEF q, S, A, L, P, w
<1>7. w = has_wake_lock_locked(q, A, L)
    BY <1>1, <1>2, WalkStops DEF w
<1>8. Sets!Expired(S, A, L) = {}
    BY <1>2 DEF Sets!Expired
<1>9. ListInv' /\ Sets!Reevaluate(S, A, L, suspendQueue)
    BY <1>1, <1>2, <1>4, <1>7, TailImplements
<1>10. preventing' = (IF l = Main THEN P \ S
                      ELSE IF Main \in S THEN P
                      ELSE Sets!update_sleep_wait_stats(P, S, A, L)) \ Sets!Expired(S, A, L)
    <2>1. update_sleep_wait_stats_locked(P, q, A, L, TRUE) = P \ S
        BY <1>1, <1>3 DEF update_sleep_wait_stats_locked
    <2>2. update_sleep_wait_stats_locked(P, q, A, L, FALSE) = Sets!update_sleep_wait_stats(P, S, A, L)
        BY <1>1, <1>3 DEF update_sleep_wait_stats_locked, Sets!update_sleep_wait_stats
    <2>3. QED
        BY <1>3, <1>5, <1>8, <2>1, <2>2
<1>11. Sets!wake_lock_internal(l, 0, FALSE, suspendQueue)
    BY <1>4, <1>9, <1>10 DEF Sets!wake_lock_internal, S, A, L, P
<1>12. QED
    BY <1>4, <1>9, <1>11 DEF Sets!wake_lock

\* The list and the flags after list_del of one lock.
LEMMA UnlinkInv ==
    ASSUME ListInv, NEW l \in Locks, NEW q, q = Unlink(list, l)
    PROVE  /\ q \in Seq(Locks) /\ Distinct(q) /\ ToSet(q) = ToSet(list) \ {l}
           /\ PermanentFirst(q, autoExpire \ {l})
           /\ [left EXCEPT ![l] = 0] \in [Locks -> Nat]
<1>1. /\ q \in Seq(Locks) /\ Distinct(q) /\ ToSet(q) = ToSet(list) \ {l}
      /\ PermanentFirst(q, autoExpire)
    BY UnlinkFacts DEF ListInv
<1>2. \A i \in 1 .. Len(q) : q[i] # l
    <2>1. \A i \in 1 .. Len(q) : q[i] \in ToSet(q)
        BY <1>1, ElementsInSet
    <2>2. QED
        BY <1>1, <2>1
<1>3. PermanentFirst(q, autoExpire \ {l})
    BY <1>1, <1>2 DEF PermanentFirst
<1>4. [left EXCEPT ![l] = 0] \in [Locks -> Nat]
    BY DEF ListInv
<1>5. QED
    BY <1>1, <1>3, <1>4

\* wake_unlock.
LEMMA UnlockStep ==
    ASSUME ListInv, NEW l \in Locks, wake_unlock(l)
    PROVE  ListInv' /\ Sets!wake_unlock(l, suspendQueue)
<1> DEFINE q == Unlink(list, l)
           S == ToSet(list) \ {l}
           A == autoExpire \ {l}
           L == [left EXCEPT ![l] = 0]
           w == has_wake_lock_locked(q, A, L)
           P == (preventing \ {l}) \ w.expired
<1>1. /\ q \in Seq(Locks) /\ Distinct(q) /\ ToSet(q) = S /\ PermanentFirst(q, A)
      /\ L \in [Locks -> Nat]
    BY UnlinkInv
<1>2. /\ l \in initialized /\ UNCHANGED <<initialized, expiring, newEvent>>
      /\ list' = w.kept /\ autoExpire' = A \ w.expired /\ left' = L /\ TimerAndQueue(w.ret)
    BY DEF wake_unlock
<1>3. preventing' = IF l = Main THEN update_sleep_wait_stats_locked(P, list', autoExpire', L, FALSE)
                    ELSE P
    BY DEF wake_unlock
<1> HIDE DEF q, S, A, L, w
<1>4. w.expired = Sets!Expired(S, A, L)
    <2>1. WalkResult(w, q, A, L)
        BY <1>1, WalkFacts DEF w
    <2>2. QED
        BY <1>1, <2>1 DEF WalkResult
<1>5. ListInv' /\ Sets!Reevaluate(S, A, L, suspendQueue)
    BY <1>1, <1>2, TailImplements DEF w
<1>6. update_sleep_wait_stats_locked(P, list', autoExpire', L, FALSE)
        = Sets!update_sleep_wait_stats(P, ToSet(list'), autoExpire', left')
    <2>1. list' \in Seq(Locks)
        BY <1>5 DEF ListInv
    <2>2. ToSet(list') \subseteq Locks /\ \A m : Contains(list', m) <=> m \in ToSet(list')
        BY <2>1, ElementsInSet
    <2>3. \A m \in ToSet(list') : L[m] \in Nat
        BY <1>1, <2>2
    <2> HIDE DEF P
    <2>4. QED
        BY <1>2, <2>2, <2>3 DEF update_sleep_wait_stats_locked, Sets!update_sleep_wait_stats
<1>7. Sets!wake_unlock(l, suspendQueue)
    BY <1>2, <1>3, <1>4, <1>5, <1>6 DEF Sets!wake_unlock, S, A, L
<1>8. QED
    BY <1>5, <1>7

\* wake_lock_destroy.
LEMMA DestroyStep ==
    ASSUME ListInv, NEW l \in Locks, wake_lock_destroy(l)
    PROVE  ListInv' /\ Sets!wake_lock_destroy(l)
<1>1. /\ Unlink(list, l) \in Seq(Locks) /\ Distinct(Unlink(list, l))
      /\ ToSet(Unlink(list, l)) = ToSet(list) \ {l}
      /\ PermanentFirst(Unlink(list, l), autoExpire \ {l})
      /\ [left EXCEPT ![l] = 0] \in [Locks -> Nat]
    BY UnlinkInv
<1>2. Contains(list, l) <=> l \in ToSet(list)
    BY ElementsInSet DEF ListInv
<1>3. ListInv'
    BY <1>1 DEF wake_lock_destroy, ListInv
<1>4. Sets!wake_lock_destroy(l)
    BY <1>1, <1>2 DEF wake_lock_destroy, Sets!wake_lock_destroy
<1>5. QED
    BY <1>3, <1>4

\* A walk without a change of the list before it.
LEMMA WalkImplements ==
    ASSUME ListInv, NEW w, w = has_wake_lock_locked(list, autoExpire, left),
           list' = w.kept, autoExpire' = autoExpire \ w.expired, preventing' = preventing \ w.expired,
           left' = left
    PROVE  /\ ListInv'
           /\ ToSet(list') = ToSet(list) \ Sets!Expired(ToSet(list), autoExpire, left)
           /\ autoExpire' = autoExpire \ Sets!Expired(ToSet(list), autoExpire, left)
           /\ preventing' = preventing \ Sets!Expired(ToSet(list), autoExpire, left)
           /\ w.ret = 0 <=> ToSet(list') = {}
<1>1. WalkResult(w, list, autoExpire, left)
    BY WalkFacts DEF ListInv
<1>2. ListInv'
    BY <1>1 DEF WalkResult, ListInv
<1>3. /\ ToSet(list') = ToSet(list) \ Sets!Expired(ToSet(list), autoExpire, left)
      /\ autoExpire' = autoExpire \ Sets!Expired(ToSet(list), autoExpire, left)
      /\ preventing' = preventing \ Sets!Expired(ToSet(list), autoExpire, left)
    BY <1>1 DEF WalkResult
<1>4. \A l \in ToSet(list) : left[l] \in Nat
    <2>1. ToSet(list) \subseteq Locks
        BY ElementsInSet DEF ListInv
    <2>2. QED
        BY <2>1 DEF ListInv
<1>5. w.ret = 0 <=> ToSet(list') = {}
    BY <1>1, <1>3, <1>4 DEF WalkResult, Sets!Expired
<1>6. QED
    BY <1>2, <1>3, <1>5

\* has_wake_lock, called by suspend() or by the freezer.
LEMMA HasWakeLockStep ==
    ASSUME ListInv, NEW q, HasWakeLockCalled(q)
    PROVE  ListInv' /\ Sets!has_wake_lock /\ suspendQueue' = q /\ UNCHANGED newEvent
<1> DEFINE w == has_wake_lock_locked(list, autoExpire, left)
<1>1. /\ list' = w.kept /\ autoExpire' = autoExpire \ w.expired /\ preventing' = preventing \ w.expired
      /\ suspendQueue' = q /\ UNCHANGED <<initialized, left, expire_timer, expiring, newEvent>>
    BY DEF HasWakeLockCalled
<1> HIDE DEF w
<1>2. /\ ListInv'
      /\ ToSet(list') = ToSet(list) \ Sets!Expired(ToSet(list), autoExpire, left)
      /\ autoExpire' = autoExpire \ Sets!Expired(ToSet(list), autoExpire, left)
      /\ preventing' = preventing \ Sets!Expired(ToSet(list), autoExpire, left)
    BY <1>1, WalkImplements DEF w
<1>3. Sets!has_wake_lock
    BY <1>1, <1>2 DEF Sets!has_wake_lock
<1>4. QED
    BY <1>1, <1>2, <1>3

\* expire_wake_locks, the callback of expire_timer.
LEMMA ExpireStep ==
    ASSUME ListInv, expire_wake_locks
    PROVE  ListInv' /\ Sets!expire_wake_locks
<1> DEFINE w == has_wake_lock_locked(list, autoExpire, left)
<1>1. /\ expiring /\ expiring' = FALSE
      /\ list' = w.kept /\ autoExpire' = autoExpire \ w.expired /\ preventing' = preventing \ w.expired
      /\ suspendQueue' = IF w.ret = 0 THEN queue_work(suspendQueue, "suspend") ELSE suspendQueue
      /\ UNCHANGED <<initialized, left, expire_timer, newEvent>>
    BY DEF expire_wake_locks
<1> HIDE DEF w
<1>2. /\ ListInv'
      /\ ToSet(list') = ToSet(list) \ Sets!Expired(ToSet(list), autoExpire, left)
      /\ autoExpire' = autoExpire \ Sets!Expired(ToSet(list), autoExpire, left)
      /\ preventing' = preventing \ Sets!Expired(ToSet(list), autoExpire, left)
      /\ w.ret = 0 <=> ToSet(list') = {}
    BY <1>1, WalkImplements DEF w
<1>3. Sets!QueueIfNoneHeld(suspendQueue)
    BY <1>1, <1>2, QueueSame DEF Sets!QueueIfNoneHeld
<1>4. QED
    BY <1>1, <1>2, <1>3 DEF Sets!expire_wake_locks

-----------------------------------------------------------------------------
\* The list with main_wake_lock only, as wakelocks_init leaves it.
LEMMA ListInit == Init => ListInv /\ Sets!WakeLockInit({Main, Unknown})
<1> SUFFICES ASSUME Init PROVE ListInv /\ Sets!WakeLockInit({Main, Unknown})
    OBVIOUS
<1>1. list = <<Main>> /\ left = [l \in Locks |-> 0]
    BY DEF Init
<1>2. <<Main>> \in Seq(Locks) /\ Distinct(<<Main>>) /\ \A A : PermanentFirst(<<Main>>, A)
    BY LocksAssumption DEF Distinct, PermanentFirst
<1>3. ToSet(<<Main>>) = {Main}
    BY DEF ToSet
<1>4. ListInv
    BY <1>1, <1>2 DEF ListInv
<1>5. Sets!WakeLockInit({Main, Unknown})
    BY <1>1, <1>3 DEF Init, Sets!WakeLockInit, Sets!Off, Off
<1>6. QED
    BY <1>4, <1>5

\* Every step keeps the list in order and is a step, or a stutter, of the sets.
LEMMA ListStep ==
    ListInv /\ [Next]_vars => ListInv' /\ [Sets!WakeLockNext]_<<Sets!lockVars, suspendQueue>>
<1> SUFFICES ASSUME ListInv, [Next]_vars
             PROVE  ListInv' /\ [Sets!WakeLockNext]_<<Sets!lockVars, suspendQueue>>
    OBVIOUS
<1>1. ASSUME NEW l \in Locks, wake_lock_init(l) PROVE ListInv' /\ Sets!WakeLockNext
    <2>1. ListInv'
        BY <1>1 DEF wake_lock_init, ListInv
    <2>2. Sets!wake_lock_init(l)
        BY <1>1 DEF wake_lock_init, Sets!wake_lock_init
    <2>3. QED
        BY <2>1, <2>2 DEF Sets!WakeLockNext
<1>2. ASSUME NEW l \in Locks, wake_lock_destroy(l) PROVE ListInv' /\ Sets!WakeLockNext
    BY <1>2, DestroyStep DEF Sets!WakeLockNext
<1>3. ASSUME NEW l \in Locks, wake_lock_internal(l, 0, FALSE) PROVE ListInv' /\ Sets!WakeLockNext
    BY <1>3, LockStep DEF Sets!WakeLockNext
<1>4. ASSUME NEW l \in Locks, NEW timeout \in 0 .. MaxTimeout, wake_lock_internal(l, timeout, TRUE)
      PROVE  ListInv' /\ Sets!WakeLockNext
    BY <1>4, LockTimeoutStep DEF Sets!WakeLockNext, Sets!Timeouts
<1>5. ASSUME NEW l \in Locks, wake_unlock(l) PROVE ListInv' /\ Sets!WakeLockNext
    BY <1>5, UnlockStep DEF Sets!WakeLockNext
<1>6. CASE TimerFires
    <2>1. ListInv'
        BY <1>6 DEF TimerFires, ListInv
    <2>2. Sets!TimerFires
        BY <1>6 DEF TimerFires, Sets!TimerFires, Sets!Off, Off
    <2>3. QED
        BY <2>1, <2>2 DEF Sets!WakeLockNext
<1>7. CASE expire_wake_locks
    BY <1>7, ExpireStep DEF Sets!WakeLockNext
<1>8. CASE HasWakeLockCalled(suspendQueue)
    BY <1>8, HasWakeLockStep DEF Sets!WakeLockNext, Sets!HasWakeLockCalled
<1>9. CASE SuspendWorkRuns
    <2>1. suspendQueue # << >> /\ HasWakeLockCalled(Tail(suspendQueue))
        BY <1>9 DEF SuspendWorkRuns
    <2>2. ListInv' /\ Sets!has_wake_lock /\ suspendQueue' = Tail(suspendQueue) /\ UNCHANGED newEvent
        BY <2>1, HasWakeLockStep
    <2>3. QED
        BY <2>1, <2>2 DEF Sets!WakeLockNext, Sets!SuspendWorkRuns
<1>10. CASE Tick
    <2>1. ListInv'
        BY <1>10 DEF Tick, Elapse, ListInv
    <2>2. Sets!Tick
        BY <1>10 DEF Tick, Elapse, Sets!Tick, Sets!Elapse
    <2>3. QED
        BY <2>1, <2>2 DEF Sets!WakeLockNext
<1>11. CASE UNCHANGED vars
    BY <1>11 DEF vars, ListInv, Sets!lockVars
<1>12. QED
    BY <1>1, <1>2, <1>3, <1>4, <1>5, <1>6, <1>7, <1>8, <1>9, <1>10, <1>11 DEF Next

(***************************************************************************)
(* The operations of wakelock.c on the linked list are, step by step, the  *)
(* operations on a set of module WakeLock, for any locks and timeouts: all *)
(* that is proved of the sets holds of the list.                           *)
(***************************************************************************)
THEOREM ListImplementsSets == Spec => ImplementsSets
<1>1. Spec => []ListInv
    BY ListInit, ListStep, PTL DEF Spec
<1>2. Spec => Sets!WakeLockSpec
    BY <1>1, ListInit, ListStep, PTL DEF Spec, Sets!WakeLockSpec
<1>3. QED
    BY <1>2 DEF ImplementsSets

(***************************************************************************)
(* The walk of has_wake_lock_locked returns what wakelock.h says, in every *)
(* state of the list: -1, or the time until all active locks time out.     *)
(***************************************************************************)
THEOREM WalkCorrect == Spec => []ReturnsTimeUntilAllExpired
<1>1. ListInv => ReturnsTimeUntilAllExpired
    <2> SUFFICES ASSUME ListInv PROVE ReturnsTimeUntilAllExpired
        OBVIOUS
    <2> DEFINE w == has_wake_lock_locked(list, autoExpire, left)
               held == ToSet(list)
               times == {0} \cup {left[l] : l \in held}
    <2>1. WalkResult(w, list, autoExpire, left)
        BY WalkFacts DEF ListInv
    <2>2. held \subseteq Locks
        BY ElementsInSet DEF ListInv
    <2> HIDE DEF w
    <2>3. /\ held \subseteq autoExpire => /\ w.ret \in Nat /\ \A l \in held : left[l] <= w.ret
                                          /\ w.ret = 0 \/ \E l \in held : left[l] = w.ret
          /\ ~(held \subseteq autoExpire) => w.ret = -1
        BY <2>1 DEF WalkResult
    <2> HIDE DEF held
    <2>4. \A t \in times : t \in Nat
        BY <2>2 DEF ListInv
    <2>5. ASSUME held \subseteq autoExpire PROVE w.ret = Max(times)
        <3>1. w.ret \in times /\ \A t \in times : w.ret >= t
            BY <2>3, <2>5
        <3> HIDE DEF times
        <3>2. Max(times) \in times /\ \A t \in times : Max(times) >= t
            BY <3>1 DEF Max
        <3>3. QED
            BY <2>4, <3>1, <3>2
    <2>6. QED
        BY <2>3, <2>5 DEF ReturnsTimeUntilAllExpired, w, held
<1>2. QED
    BY <1>1, ListInit, ListStep, PTL DEF Spec
=============================================================================
