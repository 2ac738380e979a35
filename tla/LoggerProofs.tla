---------------------------- MODULE LoggerProofs ----------------------------
(***************************************************************************)
(* The ring buffer of the logger implements LogChannel, for any readers,   *)
(* writers and lengths of the buffer and of the entries.                   *)
(***************************************************************************)
EXTENDS Logger, SequenceTheorems, WellFoundedInduction, TLAPS

\* Induction on the natural numbers, for a set.
LEMMA SetInduction ==
    ASSUME NEW S \in SUBSET Nat, 0 \in S, \A n \in S : n + 1 \in S
    PROVE  S = Nat
<1> DEFINE R == OpToRel(<, Nat)
           T == Nat \ S
<1>1. SUFFICES ASSUME T # {} PROVE FALSE
    OBVIOUS
<1>2. IsWellFoundedOn(R, Nat)
    BY NatLessThanWellFounded
<1>3. \A x, y \in Nat : <<y, x>> \in R <=> y < x
    BY DEF OpToRel
<1> HIDE DEF R
<1>4. T \subseteq Nat
    OBVIOUS
<1> HIDE DEF T
<1>5. PICK m \in T : \A x \in T : ~(<<x, m>> \in R)
    BY <1>1, <1>2, <1>4, WFMin
<1>6. m \in Nat /\ m # 0 /\ m - 1 \in Nat /\ m - 1 < m
    BY <1>5 DEF T
<1>7. m - 1 \notin T
    BY <1>3, <1>5, <1>6
<1>8. m - 1 \in S
    BY <1>6, <1>7 DEF T
<1>9. (m - 1) + 1 \in S
    BY <1>8
<1>10. m \in S
    BY <1>6, <1>9
<1>11. QED
    BY <1>5, <1>10 DEF T

-----------------------------------------------------------------------------
(***************************************************************************)
(* The ring.  Back(w, d) is the offset d cells before w, and, the other    *)
(* way round, the cells from offset d to w.                                *)
(***************************************************************************)
Back(w, d) == IF d <= w THEN w - d ELSE w + Size - d

\* logger_offset of a sum of two offsets.
LEMMA Wrap ==
    ASSUME NEW n \in 0 .. 2 * Size - 1
    PROVE  logger_offset(n) = IF n < Size THEN n ELSE n - Size
BY SizeAssumption DEF logger_offset

\* How EntriesFrom finds the cell d cells before w.
LEMMA BackValue ==
    ASSUME NEW w \in Offsets, NEW d \in 0 .. Size
    PROVE  logger_offset(w + Size - d) = Back(w, d) /\ Back(w, d) \in Offsets
<1>1. w + Size - d \in 0 .. 2 * Size - 1
    BY SizeAssumption DEF Offsets
<1>2. logger_offset(w + Size - d) =
          IF w + Size - d < Size THEN w + Size - d ELSE (w + Size - d) - Size
    BY <1>1, Wrap
<1> QED
    BY <1>2, SizeAssumption DEF Offsets, Back

\* Back goes from offsets to distances and back.
LEMMA BackBack ==
    ASSUME NEW w \in Offsets, NEW d \in Offsets
    PROVE  Back(w, Back(w, d)) = d /\ Back(w, d) \in Offsets
BY SizeAssumption DEF Offsets, Back

\* k cells on from an offset are k cells less from the end.
LEMMA BackMoves ==
    ASSUME NEW w \in Offsets, NEW d \in Offsets, NEW k \in 0 .. d
    PROVE  logger_offset(Back(w, d) + k) = Back(w, d - k)
<1>1. Back(w, d) \in Offsets
    BY BackBack
<1> DEFINE n == Back(w, d) + k
<1>2. n \in 0 .. 2 * Size - 1
    BY <1>1, SizeAssumption DEF Offsets
<1> HIDE DEF n
<1>3. logger_offset(n) = IF n < Size THEN n ELSE n - Size
    BY <1>2, Wrap
<1> QED
    BY <1>3, SizeAssumption DEF Offsets, Back, n

\* The offset after an entry.
LEMMA ForwardValue ==
    ASSUME NEW w \in Offsets, NEW len \in Lengths
    PROVE  /\ logger_offset(w + len) = IF w + len < Size THEN w + len ELSE w + len - Size
           /\ logger_offset(w + len) \in Offsets
<1> DEFINE n == w + len
<1>1. n \in 0 .. 2 * Size - 1
    BY SizeAssumption DEF Offsets, Lengths
<1> HIDE DEF n
<1>2. logger_offset(n) = IF n < Size THEN n ELSE n - Size
    BY <1>1, Wrap
<1> QED
    BY <1>2, SizeAssumption DEF Offsets, Lengths, n

-----------------------------------------------------------------------------
Cells == [entry : Nat, len : Nat]

\* The cell d cells before w.
Cell(b, w, d) == b[Back(w, d)]

WholeAt(b, w, d) ==
    /\ Cell(b, w, d).len \in 1 .. d
    /\ \A k \in 1 .. Cell(b, w, d).len - 1 : Cell(b, w, d - k) = Payload(Cell(b, w, d).entry)

\* EntriesFrom, for any content of the log.
RestOf(b, w) ==
    LET Rest[d \in 0 .. Size] ==
            LET o == logger_offset(w + Size - d)
                c == b[o]
                Whole == /\ c.len \in 1 .. d
                         /\ \A k \in 1 .. c.len - 1 :
                               b[logger_offset(o + k)] = Payload(c.entry)
            IN  IF d = 0 THEN <<>>
                ELSE IF Whole THEN <<c.entry>> \o Rest[d - c.len] ELSE <<0>>
    IN  Rest

\* What is in the log from an offset on depends on its distance from the end.
LEMMA EntriesAreRest ==
    \A off : EntriesFrom(off) = RestOf(buffer, tip)[logger_offset(tip + Size - off)]
BY DEF EntriesFrom, RestOf

\* One round of that recursion.
RawWhole(b, w, d) ==
    LET o == logger_offset(w + Size - d)
    IN  /\ b[o].len \in 1 .. d
        /\ \A k \in 1 .. b[o].len - 1 : b[logger_offset(o + k)] = Payload(b[o].entry)
RawLen(b, w, d) == b[logger_offset(w + Size - d)].len
Extended(b, w, d, s) == <<b[logger_offset(w + Size - d)].entry>> \o s
Round(b, w, d, f) ==
    IF d = 0 THEN <<>>
    ELSE IF RawWhole(b, w, d) THEN Extended(b, w, d, f[d - RawLen(b, w, d)]) ELSE <<0>>

Rounds(b, w, n, f) == f = [d \in 0 .. n |-> Round(b, w, d, f)]

\* The recursion of EntriesFrom defines a function.
LEMMA RoundsExist ==
    ASSUME NEW b, NEW w
    PROVE  \A n \in Nat : \E f : Rounds(b, w, n, f)
<1> DEFINE T == {n \in Nat : \E f : Rounds(b, w, n, f)}
<1>1. 0 \in T
    <2> DEFINE f == [d \in 0 .. 0 |-> <<>>]
    <2>1. f = [d \in 0 .. 0 |-> Round(b, w, d, f)]
        BY DEF Round
    <2>2. Rounds(b, w, 0, f)
        BY <2>1 DEF Rounds
    <2> QED
        BY <2>2
<1>2. ASSUME NEW n \in T PROVE n + 1 \in T
    <2>1. PICK f : Rounds(b, w, n, f)
        OBVIOUS
    <2>2. n \in Nat /\ \A d \in 0 .. n : f[d] = Round(b, w, d, f)
        BY <2>1 DEF Rounds
    <2> DEFINE g == [d \in 0 .. n + 1 |-> IF d <= n THEN f[d] ELSE Round(b, w, d, f)]
    <2>3. ASSUME NEW d \in 0 .. n + 1 PROVE g[d] = Round(b, w, d, g)
        <3>1. g[d] = Round(b, w, d, f)
            BY <2>2
        <3>2. ASSUME d # 0, RawWhole(b, w, d) PROVE g[d - RawLen(b, w, d)] = f[d - RawLen(b, w, d)]
            <4>1. RawLen(b, w, d) \in 1 .. d
                BY <3>2 DEF RawWhole, RawLen
            <4>2. d - RawLen(b, w, d) \in 0 .. n
                BY <2>2, <4>1
            <4> HIDE DEF RawLen
            <4> QED
                BY <2>2, <4>2
        <3> HIDE DEF g
        <3> QED
            BY <3>1, <3>2 DEF Round
    <2>4. g = [d \in 0 .. n + 1 |-> g[d]]
        OBVIOUS
    <2> HIDE DEF g
    <2>5. Rounds(b, w, n + 1, g)
        BY <2>3, <2>4 DEF Rounds
    <2> QED
        BY <2>2, <2>5
<1> HIDE DEF T
<1>3. T = Nat
    <2>1. T \in SUBSET Nat
        BY DEF T
    <2> QED
        BY <1>1, <1>2, <2>1, SetInduction
<1> QED
    BY <1>3 DEF T

\* That function is RestOf.
LEMMA RestRounds ==
    ASSUME NEW b, NEW w
    PROVE  \A d \in 0 .. Size : RestOf(b, w)[d] = Round(b, w, d, RestOf(b, w))
<1>1. \E f : Rounds(b, w, Size, f)
    BY RoundsExist, SizeAssumption
<1>2. RestOf(b, w) = CHOOSE f : Rounds(b, w, Size, f)
    BY DEF RestOf, Rounds, Round, RawWhole, RawLen, Extended
<1>3. Rounds(b, w, Size, RestOf(b, w))
    BY <1>1, <1>2
<1> DEFINE f == RestOf(b, w)
<1> HIDE DEF f
<1>4. f = [d \in 0 .. Size |-> Round(b, w, d, f)]
    BY <1>3 DEF Rounds, f
<1>5. \A d \in 0 .. Size : f[d] = Round(b, w, d, f)
    BY <1>4
<1> QED
    BY <1>5 DEF f

\* What the log holds d cells before its end, if a whole entry is there.
LEMMA RestStep ==
    ASSUME NEW b, NEW w \in Offsets, NEW d \in Offsets, d # 0, WholeAt(b, w, d)
    PROVE  RestOf(b, w)[d] = <<Cell(b, w, d).entry>> \o RestOf(b, w)[d - Cell(b, w, d).len]
<1> DEFINE o == logger_offset(w + Size - d)
<1>1. d \in 0 .. Size
    BY SizeAssumption DEF Offsets
<1>2. o = Back(w, d)
    BY <1>1, BackValue
<1> HIDE DEF o
<1>3. b[o] = Cell(b, w, d)
    BY <1>2 DEF Cell
<1>4. Cell(b, w, d).len \in 1 .. d
    BY DEF WholeAt
<1>5. ASSUME NEW k \in 1 .. b[o].len - 1 PROVE b[logger_offset(o + k)] = Payload(b[o].entry)
    <2>1. k \in 0 .. d /\ k \in 1 .. Cell(b, w, d).len - 1
        BY <1>3, <1>4, <1>5 DEF Offsets
    <2>2. logger_offset(o + k) = Back(w, d - k)
        BY <1>2, <2>1, BackMoves
    <2> QED
        BY <1>3, <2>1, <2>2 DEF WholeAt, Cell
<1>6. RawWhole(b, w, d)
    BY <1>3, <1>4, <1>5 DEF RawWhole, o
<1> QED
    BY <1>1, <1>3, <1>6, d # 0, RestRounds DEF Round, Extended, RawLen, o

\* Nothing is in the log after its end.
LEMMA RestEmpty ==
    ASSUME NEW b, NEW w
    PROVE  RestOf(b, w)[0] = <<>>
<1>1. 0 \in 0 .. Size
    BY SizeAssumption
<1> QED
    BY <1>1, RestRounds DEF Round

-----------------------------------------------------------------------------
(***************************************************************************)
(* Sequences of entries.                                                   *)
(***************************************************************************)
\* t is s without some of its first elements, all of which are below x.
Lost(s, t, x) ==
    \E n \in 0 .. Len(s) : t = SubSeq(s, n + 1, Len(s)) /\ \A i \in 1 .. n : s[i] < x

\* Nothing is lost.
LEMMA LostNone ==
    ASSUME NEW s \in Seq(Nat), NEW x
    PROVE  Lost(s, s, x)
<1> DEFINE u == SubSeq(s, 1, Len(s))
<1>1. Len(s) \in Nat
    OBVIOUS
<1>2. u \in Seq(Nat) /\ Len(u) = Len(s) /\ \A i \in 1 .. Len(s) : u[i] = s[i]
    BY <1>1
<1> HIDE DEF u
<1>3. u = s
    BY <1>2, SeqEqual
<1>4. 0 \in 0 .. Len(s) /\ 0 + 1 = 1 /\ \A i \in 1 .. 0 : s[i] < x
    BY <1>1
<1> QED
    BY <1>3, <1>4 DEF Lost, u

\* A sequence with one more element in front.
LEMMA Consed ==
    ASSUME NEW e \in Nat, NEW s \in Seq(Nat)
    PROVE  /\ <<e>> \o s \in Seq(Nat) /\ <<e>> \o s # <<>>
           /\ Tail(<<e>> \o s) = s
           /\ Head(<<e>> \o s) = e
           /\ Len(<<e>> \o s) = Len(s) + 1
           /\ \A i \in 1 .. Len(s) + 1 : (<<e>> \o s)[i] = IF i = 1 THEN e ELSE s[i - 1]
           /\ \A t \in Seq(Nat) : (<<e>> \o s) \o t = <<e>> \o (s \o t)
<1> DEFINE c == <<e>> \o s
<1>1. c \in Seq(Nat) /\ Len(c) = Len(s) + 1 /\ \A i \in 1 .. Len(s) : c[i + 1] = s[i]
    OBVIOUS
<1>2. Len(s) \in Nat /\ c # <<>>
    BY <1>1
<1>3. \A t \in Seq(Nat) : c \o t = <<e>> \o (s \o t)
    OBVIOUS
<1> HIDE DEF c
<1>4. Tail(c) \in Seq(Nat) /\ Len(Tail(c)) = Len(s) /\ \A i \in 1 .. Len(s) : Tail(c)[i] = s[i]
    BY <1>1, <1>2
<1>5. Tail(c) = s
    BY <1>4, SeqEqual
<1>6. Head(c) = e /\ \A i \in 1 .. Len(s) + 1 : c[i] = IF i = 1 THEN e ELSE s[i - 1]
    <2>1. c[1] = e
        BY DEF c
    <2>2. ASSUME NEW i \in 1 .. Len(s) + 1, i # 1 PROVE c[i] = s[i - 1]
        <3>1. i - 1 \in 1 .. Len(s) /\ (i - 1) + 1 = i
            BY <1>2, <2>2
        <3> QED
            BY <1>1, <3>1
    <2> QED
        BY <1>1, <1>2, <2>1, <2>2
<1> QED
    BY <1>1, <1>2, <1>3, <1>5, <1>6 DEF c

\* One more element is lost.
LEMMA LostFurther ==
    ASSUME NEW s \in Seq(Nat), NEW e \in Nat, NEW u \in Seq(Nat), NEW x \in Nat, NEW y \in Nat,
           Lost(s, <<e>> \o u, x), x <= y, e < y
    PROVE  Lost(s, u, y)
<1> DEFINE t == <<e>> \o u
<1>1. t \in Seq(Nat) /\ Len(t) = Len(u) + 1 /\ t[1] = e /\ \A i \in 1 .. Len(u) : t[i + 1] = u[i]
    OBVIOUS
<1>2. PICK n \in 0 .. Len(s) : t = SubSeq(s, n + 1, Len(s)) /\ \A i \in 1 .. n : s[i] < x
    BY DEF Lost
<1> HIDE DEF t
<1>3. Len(s) \in Nat /\ Len(u) \in Nat /\ n \in Nat
    OBVIOUS
<1>4. Len(t) = Len(s) - n /\ \A i \in 1 .. Len(s) - n : t[i] = s[n + i]
    BY <1>2, <1>3
<1>5. n + 1 \in 0 .. Len(s) /\ n + 1 \in 1 .. Len(s) /\ Len(u) = Len(s) - (n + 1)
    <2>1. Len(u) + 1 = Len(s) - n
        BY <1>1, <1>4
    <2> QED
        BY <1>3, <2>1
<1> DEFINE v == SubSeq(s, n + 1 + 1, Len(s))
<1>6. v \in Seq(Nat) /\ Len(v) = Len(u) /\ \A i \in 1 .. Len(u) : v[i] = s[n + 1 + i]
    <2> DEFINE a == n + 1 + 1
    <2>1. a \in 1 .. Len(s) + 1 /\ Len(s) \in a - 1 .. Len(s)
        BY <1>3, <1>5
    <2>2. Len(s) - a + 1 = Len(u) /\ \A i \in 1 .. Len(u) : a + i - 1 = n + 1 + i
        BY <1>3, <1>5
    <2> HIDE DEF a
    <2>3. SubSeq(s, a, Len(s)) \in Seq(Nat)
        BY <1>3, <2>1, SubSeqProperties
    <2>4. Len(SubSeq(s, a, Len(s))) = Len(s) - a + 1
        BY <1>3, <2>1, SubSeqProperties
    <2>5. \A i \in 1 .. Len(s) - a + 1 : SubSeq(s, a, Len(s))[i] = s[a + i - 1]
        BY <1>3, <2>1, SubSeqProperties
    <2> QED
        BY <2>2, <2>3, <2>4, <2>5 DEF a
<1> HIDE DEF v
<1>7. ASSUME NEW i \in 1 .. Len(u) PROVE v[i] = u[i]
    <2>1. i + 1 \in 1 .. Len(s) - n /\ n + (i + 1) = n + 1 + i
        BY <1>3, <1>5
    <2>2. t[i + 1] = u[i]
        BY <1>1
    <2>3. PICK x1 : x1 = s[n + (i + 1)] /\ x1 = s[n + 1 + i]
        BY <2>1
    <2>4. t[i + 1] = x1 /\ v[i] = x1
        BY <1>4, <1>6, <2>1, <2>3
    <2> QED
        BY <2>2, <2>4
<1>8. v = u
    BY <1>6, <1>7, SeqEqual
<1>9. ASSUME NEW i \in 1 .. n + 1 PROVE s[i] < y
    <2>a. i \in 1 .. Len(s)
        BY <1>3, <1>5
    <2>0. s[i] \in Nat
        BY <2>a, ElementOfSeq
    <2>1. CASE i = n + 1
        <3>1. 1 \in 1 .. Len(s) - n /\ n + 1 = i
            BY <1>3, <1>5, <2>1
        <3>2. s[i] = e
            BY <1>1, <1>4, <3>1
        <3> QED
            BY <3>2, e < y
    <2>2. CASE i # n + 1
        <3>1. i \in 1 .. n
            BY <1>3, <2>2
        <3>2. s[i] < x
            BY <1>2, <3>1
        <3> QED
            BY <2>0, <3>2, x <= y
    <2> QED
        BY <2>1, <2>2
<1> QED
    BY <1>5, <1>8, <1>9 DEF Lost, v

-----------------------------------------------------------------------------
(***************************************************************************)
(* The entries of the log begin V cells before its end.                    *)
(***************************************************************************)
Chain(b, w, V) ==
    /\ V \subseteq Offsets /\ 0 \in V
    /\ \A d \in V \ {0} : WholeAt(b, w, d) /\ d - Cell(b, w, d).len \in V

Contents == [Offsets -> Cells]

\* The parts of a cell.
LEMMA CellType ==
    ASSUME NEW b \in Contents, NEW w \in Offsets, NEW d \in Offsets
    PROVE  Cell(b, w, d) \in Cells /\ Cell(b, w, d).entry \in Nat /\ Cell(b, w, d).len \in Nat
<1>1. Back(w, d) \in Offsets
    BY BackBack
<1> QED
    BY <1>1 DEF Cell, Contents, Cells

\* From where an entry begins there are entries to the end.
LEMMA ChainRest ==
    ASSUME NEW b \in Contents, NEW w \in Offsets, NEW V, Chain(b, w, V)
    PROVE  \A d \in V : RestOf(b, w)[d] \in Seq(Nat)
<1> DEFINE P(d) == RestOf(b, w)[d] \in Seq(Nat)
           T == {n \in Nat : \A d \in V : d <= n => P(d)}
<1>1. V \subseteq Offsets /\ Offsets \subseteq Nat
    BY SizeAssumption DEF Chain, Offsets
<1>2. P(0)
    <2>1. <<>> \in Seq(Nat)
        OBVIOUS
    <2> QED
        BY <2>1, RestEmpty
<1>3. 0 \in T
    BY <1>1, <1>2
<1>4. ASSUME NEW n \in T PROVE n + 1 \in T
    <2>1. n \in Nat /\ \A d \in V : d <= n => P(d)
        OBVIOUS
    <2>2. ASSUME NEW d \in V, d = n + 1 PROVE P(d)
        <3> DEFINE e == d - Cell(b, w, d).len
        <3>1. d # 0 /\ d \in Offsets
            BY <1>1, <2>1, <2>2
        <3>2. WholeAt(b, w, d) /\ e \in V
            BY <3>1 DEF Chain
        <3>3. Cell(b, w, d).len \in 1 .. d /\ Cell(b, w, d).entry \in Nat
            BY <3>1, <3>2, CellType DEF WholeAt
        <3>4. e <= n
            BY <2>1, <2>2, <3>3
        <3>5. P(e)
            BY <2>1, <3>2, <3>4
        <3>6. RestOf(b, w)[d] = <<Cell(b, w, d).entry>> \o RestOf(b, w)[e]
            BY <3>1, <3>2, RestStep
        <3> HIDE DEF e
        <3> QED
            BY <3>3, <3>5, <3>6, Consed
    <2>3. \A d \in V : d <= n + 1 => d <= n \/ d = n + 1
        BY <1>1, <2>1
    <2> HIDE DEF P
    <2> QED
        BY <2>1, <2>2, <2>3
<1> HIDE DEF P
<1>5. T \in SUBSET Nat
    OBVIOUS
<1> HIDE DEF T
<1>6. T = Nat
    BY <1>3, <1>4, <1>5, SetInduction
<1>7. \A d \in V : P(d)
    <2>1. \A d \in V : d \in T /\ d <= d
        BY <1>1, <1>6
    <2> QED
        BY <2>1 DEF T
<1> QED
    BY <1>7 DEF P

\* One entry of a chain.
LEMMA ChainStep ==
    ASSUME NEW b \in Contents, NEW w \in Offsets, NEW V, Chain(b, w, V), NEW d \in V, d # 0
    PROVE  LET c == Cell(b, w, d)
               R == RestOf(b, w)
           IN  /\ c.len \in 1 .. d /\ c.entry \in Nat
               /\ d - c.len \in V /\ R[d - c.len] \in Seq(Nat)
               /\ R[d] = <<c.entry>> \o R[d - c.len]
<1>1. d \in Offsets /\ WholeAt(b, w, d) /\ d - Cell(b, w, d).len \in V
    BY d # 0 DEF Chain
<1>2. Cell(b, w, d).len \in 1 .. d /\ Cell(b, w, d).entry \in Nat
    BY <1>1, CellType DEF WholeAt
<1>3. RestOf(b, w)[d] = <<Cell(b, w, d).entry>> \o RestOf(b, w)[d - Cell(b, w, d).len]
    BY <1>1, d # 0, RestStep
<1>4. RestOf(b, w)[d - Cell(b, w, d).len] \in Seq(Nat)
    BY <1>1, ChainRest
<1> QED
    BY <1>1, <1>2, <1>3, <1>4

\* The entries are numbered by their first cells; n cells have been written.
Numbered(b, w, V, n) == \A d \in V \ {0} : Cell(b, w, d).entry + d = n + 1

\* What begins d cells before the end has no lower number.
NotBelow(s, n, d) == \A i \in 1 .. Len(s) : s[i] + d >= n + 1

\* So the entries of a chain are in ascending order.
LEMMA ChainNumbers ==
    ASSUME NEW b \in Contents, NEW w \in Offsets, NEW V, Chain(b, w, V),
           NEW n \in Nat, Numbered(b, w, V, n)
    PROVE  \A d \in V : NotBelow(RestOf(b, w)[d], n, d)
<1> DEFINE P(d) == NotBelow(RestOf(b, w)[d], n, d)
           T == {m \in Nat : \A d \in V : d <= m => P(d)}
<1>1. V \subseteq Offsets /\ Offsets \subseteq Nat
    BY SizeAssumption DEF Chain, Offsets
<1>2. P(0)
    <2>1. Len(<<>>) = 0
        OBVIOUS
    <2> QED
        BY <2>1, RestEmpty DEF NotBelow
<1>3. 0 \in T
    BY <1>1, <1>2
<1>4. ASSUME NEW m \in T PROVE m + 1 \in T
    <2>1. m \in Nat /\ \A d \in V : d <= m => P(d)
        OBVIOUS
    <2>2. ASSUME NEW d \in V, d = m + 1 PROVE P(d)
        <3> DEFINE y == Cell(b, w, d).entry
                   l == Cell(b, w, d).len
                   e == d - l
                   u == RestOf(b, w)[e]
        <3>1. d # 0 /\ d \in Nat
            BY <1>1, <2>1, <2>2
        <3>2. /\ l \in 1 .. d /\ y \in Nat /\ e \in V /\ u \in Seq(Nat)
              /\ RestOf(b, w)[d] = <<y>> \o u
            BY <3>1, ChainStep
        <3>3. y + d = n + 1
            BY <3>1 DEF Numbered
        <3> HIDE DEF y, l
        <3>4. e <= m /\ e <= d /\ e \in Nat
            BY <2>1, <2>2, <3>1, <3>2
        <3> HIDE DEF e
        <3>5. NotBelow(u, n, e)
            BY <2>1, <3>2, <3>4
        <3> HIDE DEF u
        <3> DEFINE c == <<y>> \o u
        <3>6. Len(c) = Len(u) + 1 /\ \A i \in 1 .. Len(u) + 1 : c[i] = IF i = 1 THEN y ELSE u[i - 1]
            BY <3>2, Consed
        <3> HIDE DEF c
        <3>7. ASSUME NEW i \in 1 .. Len(c) PROVE c[i] + d >= n + 1
            <4>0. Len(u) \in Nat
                BY <3>2
            <4>1. CASE i = 1
                BY <3>1, <3>2, <3>3, <3>6, <4>0, <4>1
            <4>2. CASE i # 1
                <5>1. i - 1 \in 1 .. Len(u) /\ c[i] = u[i - 1] /\ u[i - 1] \in Nat
                    BY <3>2, <3>6, <4>0, <4>2
                <5>2. u[i - 1] + e >= n + 1
                    BY <3>5, <5>1 DEF NotBelow
                <5> QED
                    BY <3>1, <3>4, <5>1, <5>2
            <4> QED
                BY <4>1, <4>2
        <3> QED
            BY <3>2, <3>7 DEF NotBelow, c
    <2>3. \A d \in V : d <= m + 1 => d <= m \/ d = m + 1
        BY <1>1, <2>1
    <2> HIDE DEF P
    <2> QED
        BY <2>1, <2>2, <2>3
<1> HIDE DEF P
<1>5. T \in SUBSET Nat
    OBVIOUS
<1> HIDE DEF T
<1>6. T = Nat
    BY <1>3, <1>4, <1>5, SetInduction
<1>7. \A d \in V : P(d)
    <2>1. \A d \in V : d \in T /\ d <= d
        BY <1>1, <1>6
    <2> QED
        BY <2>1 DEF T
<1> QED
    BY <1>7 DEF P

-----------------------------------------------------------------------------
(***************************************************************************)
(* What a write leaves of the entries before it: those at most m cells     *)
(* before the old end are s cells further from the new one.                *)
(***************************************************************************)
Moved(b, w, c, x, m, s) ==
    /\ m \in Nat /\ s \in Nat /\ m + s < Size
    /\ \A d \in 1 .. m : Cell(c, x, d + s) = Cell(b, w, d)

\* An entry that a write left alone is still whole.
LEMMA MovedWhole ==
    ASSUME NEW b \in Contents, NEW w \in Offsets, NEW V, Chain(b, w, V),
           NEW c, NEW x, NEW m, NEW s, Moved(b, w, c, x, m, s), NEW d \in V, d # 0, d <= m
    PROVE  WholeAt(c, x, d + s) /\ Cell(c, x, d + s) = Cell(b, w, d)
<1>1. d \in Offsets /\ WholeAt(b, w, d)
    BY d # 0 DEF Chain
<1>2. d \in 1 .. m /\ m \in Nat /\ s \in Nat
    BY <1>1, d # 0, d <= m DEF Moved, Offsets
<1>3. Cell(c, x, d + s) = Cell(b, w, d)
    BY <1>2 DEF Moved
<1> DEFINE l == Cell(b, w, d).len
<1>4. l \in 1 .. d
    BY <1>1 DEF WholeAt
<1>5. l \in 1 .. d + s
    BY <1>2, <1>4
<1>6. ASSUME NEW k \in 1 .. l - 1 PROVE Cell(c, x, (d + s) - k) = Payload(Cell(b, w, d).entry)
    <2>1. d - k \in 1 .. m /\ (d - k) + s = (d + s) - k
        BY <1>2, <1>4
    <2>2. Cell(c, x, (d - k) + s) = Cell(b, w, d - k)
        BY <2>1 DEF Moved
    <2> QED
        BY <1>1, <2>1, <2>2 DEF WholeAt
<1> QED
    BY <1>3, <1>5, <1>6 DEF WholeAt

RestMoved(b, w, V, c, x, m, s) ==
    \A d \in V : d <= m => RestOf(c, x)[d + s] = RestOf(b, w)[d] \o RestOf(c, x)[s]

\* What a reader of the old entries has before it: they, and then the new ones.
LEMMA MovedRest ==
    ASSUME NEW b \in Contents, NEW w \in Offsets, NEW V, Chain(b, w, V),
           NEW c \in Contents, NEW x \in Offsets, NEW m, NEW s, Moved(b, w, c, x, m, s),
           RestOf(c, x)[s] \in Seq(Nat)
    PROVE  RestMoved(b, w, V, c, x, m, s)
<1> DEFINE P(d) == d <= m => RestOf(c, x)[d + s] = RestOf(b, w)[d] \o RestOf(c, x)[s]
           T == {n \in Nat : \A d \in V : d <= n => P(d)}
<1>1. V \subseteq Offsets /\ Offsets \subseteq Nat /\ m \in Nat /\ s \in Nat
    BY SizeAssumption DEF Chain, Offsets, Moved
<1>2. P(0)
    <2>1. RestOf(b, w)[0] = <<>> /\ 0 + s = s
        BY <1>1, RestEmpty
    <2> DEFINE t == RestOf(c, x)[s]
    <2> HIDE DEF t
    <2>2. t \in Seq(Nat)
        BY DEF t
    <2>3. <<>> \o t = t
        BY <2>2
    <2> QED
        BY <2>1, <2>3 DEF t
<1>3. 0 \in T
    <2>1. \A d \in V : d <= 0 => d = 0
        BY <1>1
    <2> HIDE DEF P
    <2> QED
        BY <1>2, <2>1
<1>4. ASSUME NEW n \in T PROVE n + 1 \in T
    <2>1. n \in Nat /\ \A d \in V : d <= n => P(d)
        OBVIOUS
    <2>2. ASSUME NEW d \in V, d = n + 1, d <= m
          PROVE  RestOf(c, x)[d + s] = RestOf(b, w)[d] \o RestOf(c, x)[s]
        <3> DEFINE y == Cell(b, w, d).entry
                   l == Cell(b, w, d).len
                   e == d - l
        <3>1. d # 0 /\ d \in Nat /\ d + s \in Offsets /\ d + s # 0
            BY <1>1, <2>1, <2>2, SizeAssumption DEF Moved, Offsets
        <3>2. /\ l \in 1 .. d /\ y \in Nat /\ e \in V /\ RestOf(b, w)[e] \in Seq(Nat)
              /\ RestOf(b, w)[d] = <<y>> \o RestOf(b, w)[e]
            BY <3>1, ChainStep
        <3>3. WholeAt(c, x, d + s) /\ Cell(c, x, d + s) = Cell(b, w, d)
            BY <2>2, <3>1, MovedWhole
        <3>4. RestOf(c, x)[d + s] = <<y>> \o RestOf(c, x)[(d + s) - l]
            <4> DEFINE z == d + s
            <4>1. z \in Offsets /\ z # 0 /\ WholeAt(c, x, z)
                BY <3>1, <3>3
            <4> HIDE DEF z
            <4>2. RestOf(c, x)[z] = <<Cell(c, x, z).entry>> \o RestOf(c, x)[z - Cell(c, x, z).len]
                BY <4>1, RestStep
            <4>3. Cell(c, x, z).entry = y /\ Cell(c, x, z).len = l
                BY <3>3 DEF z
            <4> QED
                BY <4>2, <4>3 DEF z
        <3> HIDE DEF y, l
        <3>5. (d + s) - l = e + s /\ e <= n /\ e <= m
            BY <1>1, <2>1, <2>2, <3>2
        <3> HIDE DEF e
        <3>6. RestOf(c, x)[e + s] = RestOf(b, w)[e] \o RestOf(c, x)[s]
            BY <2>1, <3>2, <3>5
        <3> DEFINE u == RestOf(b, w)[e]
                   t == RestOf(c, x)[s]
        <3>7. y \in Nat /\ u \in Seq(Nat) /\ t \in Seq(Nat)
            BY <3>2
        <3> HIDE DEF u, t
        <3>8. (<<y>> \o u) \o t = <<y>> \o (u \o t)
            BY <3>7
        <3> QED
            BY <3>2, <3>4, <3>5, <3>6, <3>8 DEF u, t
    <2>3. \A d \in V : d <= n + 1 => d <= n \/ d = n + 1
        BY <1>1, <2>1
    <2>4. \A d \in V : d = n + 1 => P(d)
        BY <2>2
    <2> HIDE DEF P
    <2> QED
        BY <2>1, <2>3, <2>4
<1> HIDE DEF P
<1>5. T \in SUBSET Nat
    OBVIOUS
<1> HIDE DEF T
<1>6. T = Nat
    BY <1>3, <1>4, <1>5, SetInduction
<1>7. \A d \in V : P(d)
    <2>1. \A d \in V : d \in T /\ d <= d
        BY <1>1, <1>6
    <2> QED
        BY <2>1 DEF T
<1> QED
    BY <1>7 DEF P, RestMoved

-----------------------------------------------------------------------------
(***************************************************************************)
(* The cells of an entry, while it is written from offset w on: Back(i, w) *)
(* is also how far offset i is ahead of w.                                 *)
(***************************************************************************)
\* How far an offset is from w, forward.
LEMMA Ahead ==
    ASSUME NEW w \in Offsets, NEW i \in Offsets
    PROVE  logger_offset(i + Size - w) = Back(i, w) /\ Back(i, w) \in Offsets
<1>1. w \in 0 .. Size
    BY SizeAssumption DEF Offsets
<1> QED
    BY <1>1, BackValue

\* Only the len cells from w on differ.
Beside(b, c, w, len) == \A i \in Offsets : Back(i, w) >= len => c[i] = b[i]

\* A write of at most len cells and a new offset len cells on, or the old one.
LEMMA BesideMoves ==
    ASSUME NEW b \in Contents, NEW c \in Contents, NEW w \in Offsets, NEW len \in Lengths,
           Beside(b, c, w, len), NEW s \in {0, len}, NEW m \in Nat, m + len < Size
    PROVE  /\ logger_offset(w + s) \in Offsets
           /\ Moved(b, w, c, logger_offset(w + s), m, s)
           /\ \A d \in Offsets : d + len < Size => Back(logger_offset(w + s), Back(w, d)) = d + s
<1> DEFINE x == logger_offset(w + s)
<1>2. len \in Nat /\ s \in Nat /\ s <= len /\ m + s < Size /\ len < Size
    BY SizeAssumption DEF Lengths
<1>3. x = (IF w + s < Size THEN w + s ELSE w + s - Size) /\ x \in Offsets
    <2> DEFINE n == w + s
    <2>1. n \in 0 .. 2 * Size - 1
        BY <1>2, SizeAssumption DEF Offsets
    <2> HIDE DEF n
    <2>2. logger_offset(n) = IF n < Size THEN n ELSE n - Size
        BY <2>1, Wrap
    <2> QED
        BY <1>2, <2>2, SizeAssumption DEF Offsets, n
<1>4. ASSUME NEW d \in Offsets, d + len < Size PROVE Back(x, Back(w, d)) = d + s
    <2> HIDE DEF x
    <2> QED
        BY <1>2, <1>3, <1>4, SizeAssumption DEF Offsets, Back
<1>5. ASSUME NEW d \in 1 .. m PROVE Cell(c, x, d + s) = Cell(b, w, d)
    <2>1. d \in Offsets /\ d # 0 /\ d + len < Size
        BY <1>2, <1>5, SizeAssumption DEF Offsets
    <2> DEFINE i == Back(w, d)
    <2>2. i \in Offsets
        BY <2>1, BackBack
    <2>3. Back(x, d + s) = i
        <3> HIDE DEF x
        <3> QED
            BY <1>2, <1>3, <2>1, SizeAssumption DEF Offsets, Back
    <2>4. Back(i, w) = Size - d /\ Size - d >= len
        BY <1>2, <2>1, SizeAssumption DEF Offsets, Back
    <2> HIDE DEF i
    <2>7. c[i] = b[i]
        BY <2>2, <2>4 DEF Beside
    <2> HIDE DEF x
    <2> QED
        BY <2>3, <2>7 DEF Cell, i
<1>6. Moved(b, w, c, x, m, s)
    BY <1>2, <1>5 DEF Moved
<1> QED
    BY <1>3, <1>4, <1>6

\* The first done cells of entry n are in the log, from offset w on.
NewCell(n, len, k) == IF k = 0 THEN Header(n, len) ELSE Payload(n)
Begun(c, w, n, len, done) ==
    \A i \in Offsets : Back(i, w) < done => c[i] = NewCell(n, len, Back(i, w))

Grown(V, len) == {0} \cup {d \in Offsets : d >= len /\ d - len \in V}
Shrunk(V, len) == {d \in V : d + len < Size}

\* The log c, x is the log b, w with an entry of len cells at the end; what begins
\* at an offset that is out of its way stays.
Longer(b, w, V, c, x, n, len) ==
    /\ x \in Offsets /\ Chain(c, x, Grown(V, len)) /\ Numbered(c, x, Grown(V, len), n + len)
    /\ \A off \in Offsets : Back(w, off) \in V /\ Back(w, off) + len < Size =>
          /\ Back(x, off) \in Grown(V, len)
          /\ RestOf(c, x)[Back(x, off)] = Append(RestOf(b, w)[Back(w, off)], n + 1)

\* The new entry itself is whole.
LEMMA NewWhole ==
    ASSUME NEW c \in Contents, NEW w \in Offsets, NEW n \in Nat, NEW len \in Lengths,
           Begun(c, w, n, len, len)
    PROVE  LET x == logger_offset(w + len)
           IN  Cell(c, x, len) = Header(n, len) /\ WholeAt(c, x, len)
<1> DEFINE x == logger_offset(w + len)
<1>1. x = (IF w + len < Size THEN w + len ELSE w + len - Size) /\ x \in Offsets
    BY ForwardValue
<1>2. len \in Nat /\ len >= 2 /\ len < Size
    BY SizeAssumption DEF Lengths
<1>3. ASSUME NEW j \in 0 .. len - 1 PROVE Cell(c, x, len - j) = NewCell(n, len, j)
    <2> DEFINE i == Back(x, len - j)
    <2> HIDE DEF x
    <2>1. i \in Offsets /\ Back(i, w) = j /\ j < len
        BY <1>1, <1>2, SizeAssumption DEF Offsets, Back
    <2> HIDE DEF i
    <2>4. c[i] = NewCell(n, len, j)
        BY <2>1 DEF Begun
    <2> QED
        BY <2>4 DEF Cell, i
<1>4. NewCell(n, len, 0) = Header(n, len) /\ \A j \in 1 .. len - 1 : NewCell(n, len, j) = Payload(n)
    BY <1>2 DEF NewCell
<1> HIDE DEF x
<1>5. Cell(c, x, len) = Header(n, len)
    <2>1. 0 \in 0 .. len - 1 /\ len - 0 = len
        BY <1>2
    <2> QED
        BY <1>3, <1>4, <2>1
<1>6. Header(n, len).len = len /\ Header(n, len).entry = n
    BY DEF Header
<1>7. \A j \in 1 .. len - 1 : Cell(c, x, len - j) = Payload(n)
    <2>1. \A j \in 1 .. len - 1 : j \in 0 .. len - 1
        BY <1>2
    <2> QED
        BY <1>3, <1>4, <2>1
<1>8. WholeAt(c, x, len)
    BY <1>2, <1>5, <1>6, <1>7 DEF WholeAt
<1> QED
    BY <1>5, <1>8 DEF x

\* A whole entry is copied to the log.
LEMMA Copied ==
    ASSUME NEW b \in Contents, NEW w \in Offsets, NEW V, Chain(b, w, V),
           NEW total \in Nat, NEW len \in Lengths, Numbered(b, w, V, total),
           NEW c \in Contents, Beside(b, c, w, len), Begun(c, w, total + 1, len, len)
    PROVE  Longer(b, w, V, c, logger_offset(w + len), total, len)
<1> DEFINE n == total + 1
           x == logger_offset(w + len)
           m == Size - len - 1
           G == Grown(V, len)
<1>1. len \in Nat /\ len >= 2 /\ len < Size /\ len \in Offsets /\ V \subseteq Offsets /\ 0 \in V
    BY SizeAssumption DEF Lengths, Offsets, Chain
<1>2. m \in Nat /\ m + len < Size /\ len \in {0, len} /\ n \in Nat
    BY <1>1, SizeAssumption
<1>4. Cell(c, x, len) = Header(n, len) /\ WholeAt(c, x, len)
    BY <1>2, NewWhole
<1> HIDE DEF m
<1>5. /\ x \in Offsets /\ Moved(b, w, c, x, m, len)
      /\ \A d \in Offsets : d + len < Size => Back(x, Back(w, d)) = d + len
    BY <1>2, BesideMoves
<1> HIDE DEF x, n
<1>6. RestOf(c, x)[len] = <<n>>
    <2>1. Header(n, len).len = len /\ Header(n, len).entry = n /\ len - len = 0 /\ len # 0
        BY <1>1 DEF Header
    <2>a. RestOf(c, x)[len] = <<Cell(c, x, len).entry>> \o RestOf(c, x)[len - Cell(c, x, len).len]
        BY <1>1, <1>4, <1>5, <2>1, RestStep
    <2>2. RestOf(c, x)[len] = <<n>> \o RestOf(c, x)[0]
        BY <1>4, <2>1, <2>a
    <2>3. <<n>> \o <<>> = <<n>>
        OBVIOUS
    <2> QED
        BY <2>2, <2>3, RestEmpty
<1>7. RestOf(c, x)[len] \in Seq(Nat)
    BY <1>2, <1>6
<1>8. \A d \in V : d <= m => RestOf(c, x)[d + len] = RestOf(b, w)[d] \o <<n>>
    <2>1. \A d \in V : d <= m => RestOf(c, x)[d + len] = RestOf(b, w)[d] \o RestOf(c, x)[len]
        <3>1. RestMoved(b, w, V, c, x, m, len)
            BY <1>5, <1>7, MovedRest
        <3> QED
            BY <3>1 DEF RestMoved
    <2> QED
        BY <1>6, <2>1
<1>9. Chain(c, x, G) /\ Numbered(c, x, G, total + len)
    <2>1. G \subseteq Offsets /\ 0 \in G
        BY <1>1 DEF Grown
    <2>2. ASSUME NEW d \in G \ {0}
          PROVE  /\ WholeAt(c, x, d) /\ d - Cell(c, x, d).len \in G
                 /\ Cell(c, x, d).entry + d = total + len + 1
        <3>1. d \in Offsets /\ d >= len /\ d - len \in V /\ d \in Nat
            BY <2>2 DEF Grown, Offsets
        <3>2. CASE d = len
            <4>1. Cell(c, x, d).len = len /\ Cell(c, x, d).entry = n
                BY <1>4, <3>2 DEF Header
            <4>2. n + d = total + len + 1
                BY <1>1, <3>2 DEF n
            <4> QED
                BY <1>1, <1>4, <2>1, <3>2, <4>1, <4>2
        <3>3. CASE d # len
            <4> DEFINE e == d - len
            <4>1. e \in V /\ e # 0 /\ e <= m /\ e + len = d /\ e \in Nat
                BY <1>1, <3>1, <3>3, SizeAssumption DEF m, Offsets
            <4> HIDE DEF e
            <4>2. WholeAt(c, x, d) /\ Cell(c, x, d) = Cell(b, w, e)
                BY <1>5, <4>1, MovedWhole
            <4> DEFINE l == Cell(b, w, e).len
            <4>3. l \in 1 .. e /\ e - l \in V /\ Cell(b, w, e).entry \in Nat
                BY <4>1, ChainStep
            <4>6. Cell(b, w, e).entry + e = total + 1
                BY <4>1 DEF Numbered
            <4>7. Cell(c, x, d).entry + d = total + len + 1
                BY <1>1, <4>1, <4>2, <4>3, <4>6
            <4> HIDE DEF l
            <4>4. d - l \in Offsets /\ d - l >= len /\ (d - l) - len = e - l
                BY <1>1, <3>1, <4>1, <4>3, SizeAssumption DEF Offsets
            <4>5. d - l \in G
                BY <4>3, <4>4 DEF Grown
            <4> QED
                BY <4>2, <4>5, <4>7 DEF l
        <3> QED
            BY <3>2, <3>3
    <2> QED
        BY <2>1, <2>2 DEF Chain, Numbered
<1>10. ASSUME NEW off \in Offsets, Back(w, off) \in V, Back(w, off) + len < Size
       PROVE  /\ Back(x, off) \in G
              /\ RestOf(c, x)[Back(x, off)] = Append(RestOf(b, w)[Back(w, off)], n)
    <2> DEFINE d == Back(w, off)
    <2>1. d \in Offsets /\ d \in V /\ d + len < Size /\ Back(w, d) = off
        BY <1>10, BackBack
    <2> HIDE DEF d
    <2>2. Back(x, off) = d + len
        BY <1>5, <2>1
    <2>3. d + len \in Offsets /\ d + len >= len /\ (d + len) - len \in V /\ d <= m
        BY <1>1, <2>1, SizeAssumption DEF m, Offsets
    <2>4. d + len \in G
        BY <2>3 DEF Grown
    <2> DEFINE u == RestOf(b, w)[d]
    <2>5. u \in Seq(Nat) /\ RestOf(c, x)[d + len] = u \o <<n>>
        BY <1>8, <2>1, <2>3, ChainRest
    <2> HIDE DEF u
    <2>6. u \o <<n>> = Append(u, n)
        BY <2>5
    <2> QED
        BY <2>2, <2>4, <2>5, <2>6 DEF d, u
<1> QED
    BY <1>5, <1>9, <1>10 DEF Longer, x, n

\* Part of an entry is written, and the end of the log stays where it is.
Same(b, w, V, c, n, len) ==
    /\ Chain(c, w, Shrunk(V, len)) /\ Numbered(c, w, Shrunk(V, len), n)
    /\ \A d \in Shrunk(V, len) : RestOf(c, w)[d] = RestOf(b, w)[d]

\* What is out of its way is not touched.
LEMMA Untouched ==
    ASSUME NEW b \in Contents, NEW w \in Offsets, NEW V, Chain(b, w, V), NEW n, Numbered(b, w, V, n),
           NEW len \in Lengths, NEW c \in Contents, Beside(b, c, w, len)
    PROVE  Same(b, w, V, c, n, len)
<1> DEFINE m == Size - len - 1
           G == Shrunk(V, len)
<1>1. len \in Nat /\ len >= 2 /\ len < Size /\ V \subseteq Offsets /\ 0 \in V
    BY SizeAssumption DEF Lengths, Offsets, Chain
<1>2. m \in Nat /\ m + len < Size /\ 0 \in {0, len}
    BY <1>1, SizeAssumption
<1> HIDE DEF m
<1>4. Moved(b, w, c, logger_offset(w + 0), m, 0)
    BY <1>2, BesideMoves
<1>5. logger_offset(w + 0) = w
    BY SizeAssumption DEF logger_offset, Offsets
<1>6. \A d \in G : d \in V /\ d <= m /\ d \in Nat /\ d + 0 = d
    BY <1>1, SizeAssumption DEF Shrunk, m, Offsets
<1>7. RestOf(c, w)[0] = <<>> /\ <<>> \in Seq(Nat)
    BY RestEmpty
<1>8. ASSUME NEW d \in G PROVE RestOf(c, w)[d] = RestOf(b, w)[d]
    <2>a. Moved(b, w, c, w, m, 0) /\ RestOf(c, w)[0] \in Seq(Nat) /\ d \in V /\ d <= m
        BY <1>4, <1>5, <1>6, <1>7
    <2>b. RestOf(c, w)[d + 0] = RestOf(b, w)[d] \o RestOf(c, w)[0]
        <3>1. RestMoved(b, w, V, c, w, m, 0)
            BY <1>4, <2>a, MovedRest
        <3> QED
            BY <2>a, <3>1 DEF RestMoved
    <2>1. RestOf(c, w)[d + 0] = RestOf(b, w)[d] \o <<>>
        BY <1>7, <2>b
    <2> DEFINE u == RestOf(b, w)[d]
    <2>2. u \in Seq(Nat)
        BY <1>6, ChainRest
    <2> HIDE DEF u
    <2>3. u \o <<>> = u
        BY <2>2
    <2> QED
        BY <1>6, <2>1, <2>3 DEF u
<1>9. G \subseteq Offsets /\ 0 \in G
    BY <1>1 DEF Shrunk
<1>10. ASSUME NEW d \in G \ {0}
       PROVE  /\ WholeAt(c, w, d) /\ d - Cell(c, w, d).len \in G
              /\ Cell(c, w, d).entry + d = n + 1
    <2>1. d \in V /\ d # 0 /\ d <= m /\ d \in Nat /\ d + 0 = d /\ d + len < Size
        BY <1>6 DEF Shrunk
    <2>2. WholeAt(c, w, d) /\ Cell(c, w, d) = Cell(b, w, d)
        BY <1>4, <1>5, <2>1, MovedWhole
    <2> DEFINE l == Cell(b, w, d).len
    <2>3. l \in 1 .. d /\ d - l \in V
        BY <2>1, ChainStep
    <2> HIDE DEF l
    <2>5. Cell(b, w, d).entry + d = n + 1
        BY <2>1 DEF Numbered
    <2>4. (d - l) + len < Size
        BY <1>1, <2>1, <2>3, SizeAssumption
    <2> QED
        BY <2>2, <2>3, <2>4, <2>5 DEF Shrunk, l
<1>11. Chain(c, w, G) /\ Numbered(c, w, G, n)
    BY <1>9, <1>10 DEF Chain, Numbered
<1> QED
    BY <1>8, <1>11 DEF Same

-----------------------------------------------------------------------------
(***************************************************************************)
(* get_next_entry: one round, and the rounds of a walk over n cells.       *)
(***************************************************************************)
WalkRound(off, n, p) ==
    IF n = 0 THEN [off |-> off, count |-> 0]
    ELSE IF p.count >= n THEN p
         ELSE [off |-> logger_offset(p.off + get_entry_len(p.off)),
               count |-> p.count + get_entry_len(p.off)]

Walks(off, len, f) == f = [n \in 0 .. len |-> WalkRound(off, n, f[n - 1])]

\* The recursion of get_next_entry defines a function.
LEMMA WalksExist == \A off : \A len \in Nat : \E f : Walks(off, len, f)
<1> SUFFICES ASSUME NEW off PROVE \A len \in Nat : \E f : Walks(off, len, f)
    OBVIOUS
<1> DEFINE T == {n \in Nat : \E f : Walks(off, n, f)}
<1>1. 0 \in T
    <2> DEFINE f == [d \in 0 .. 0 |-> [off |-> off, count |-> 0]]
    <2>1. f = [d \in 0 .. 0 |-> WalkRound(off, d, f[d - 1])]
        BY DEF WalkRound
    <2>2. Walks(off, 0, f)
        BY <2>1 DEF Walks
    <2> QED
        BY <2>2
<1>2. ASSUME NEW n \in T PROVE n + 1 \in T
    <2>1. PICK f : Walks(off, n, f)
        OBVIOUS
    <2>2. n \in Nat /\ \A d \in 0 .. n : f[d] = WalkRound(off, d, f[d - 1])
        BY <2>1 DEF Walks
    <2> DEFINE g == [d \in 0 .. n + 1 |-> IF d <= n THEN f[d] ELSE WalkRound(off, d, f[d - 1])]
    <2>3. ASSUME NEW d \in 0 .. n + 1 PROVE g[d] = WalkRound(off, d, g[d - 1])
        <3>1. g[d] = WalkRound(off, d, f[d - 1])
            BY <2>2
        <3>2. d # 0 => g[d - 1] = f[d - 1]
            BY <2>2
        <3> HIDE DEF g
        <3> QED
            BY <3>1, <3>2 DEF WalkRound
    <2>4. g = [d \in 0 .. n + 1 |-> g[d]]
        OBVIOUS
    <2> HIDE DEF g
    <2>5. Walks(off, n + 1, g)
        BY <2>3, <2>4 DEF Walks
    <2> QED
        BY <2>2, <2>5
<1> HIDE DEF T
<1>3. T = Nat
    <2>1. T \in SUBSET Nat
        BY DEF T
    <2> QED
        BY <1>1, <1>2, <2>1, SetInduction
<1> QED
    BY <1>3 DEF T

\* get_next_entry is where that function ends.
LEMMA WalkIs ==
    ASSUME NEW off, NEW len \in Nat
    PROVE  \E f : /\ get_next_entry(off, len) = f[len].off
                  /\ \A n \in 0 .. len : f[n] = WalkRound(off, n, f[n - 1])
<1> DEFINE f == CHOOSE f : Walks(off, len, f)
<1>1. get_next_entry(off, len) = f[len].off
    BY DEF get_next_entry, Walks, WalkRound
<1>2. Walks(off, len, f)
    BY WalksExist
<1> HIDE DEF f
<1>3. \A n \in 0 .. len : f[n] = WalkRound(off, n, f[n - 1])
    BY <1>2 DEF Walks
<1> QED
    BY <1>1, <1>3

-----------------------------------------------------------------------------
(***************************************************************************)
(* fix_up_readers.                                                         *)
(***************************************************************************)
\* An offset of d cells is in the way of an entry of len cells.
LEMMA Crossed ==
    ASSUME tip \in Offsets, w_off = tip, NEW off \in Offsets, NEW len \in Lengths
    PROVE  clock_interval(w_off, logger_offset(w_off + len), off)
               <=> Back(tip, off) + len >= Size
<1> DEFINE x == logger_offset(tip + len)
<1>1. x = IF tip + len < Size THEN tip + len ELSE tip + len - Size
    BY ForwardValue
<1> HIDE DEF x
<1>2. len \in Nat /\ len >= 2 /\ len < Size
    BY SizeAssumption DEF Lengths
<1>3. CASE tip + len < Size
    BY <1>1, <1>2, <1>3, SizeAssumption DEF clock_interval, Back, Offsets, x
<1>4. CASE tip + len >= Size
    BY <1>1, <1>2, <1>4, SizeAssumption DEF clock_interval, Back, Offsets, x
<1> QED
    BY <1>2, <1>3, <1>4, w_off = tip, SizeAssumption DEF Offsets, x

\* After n cells of the walk from an offset of d cells: e cells are left.
WalkAt(V, d, n, p) ==
    \E e \in V : /\ p = [off |-> Back(tip, e), count |-> d - e] /\ e <= d /\ d - e >= n
                 /\ n = 0 => e = d
                 /\ Lost(RestOf(buffer, tip)[d], RestOf(buffer, tip)[e], written + 1 - d + n)

\* One round goes to where the next entry begins, unless it is far enough.
LEMMA WalkRoundFacts ==
    ASSUME buffer \in Contents, tip \in Offsets, NEW V, Chain(buffer, tip, V),
           written \in Nat, Numbered(buffer, tip, V, written),
           NEW d \in V, NEW n \in Nat, n < d, NEW p, WalkAt(V, d, n, p), NEW off
    PROVE  WalkAt(V, d, n + 1, WalkRound(off, n + 1, p))
<1> DEFINE R == RestOf(buffer, tip)
<1>0. V \subseteq Offsets /\ Offsets \subseteq Nat
    BY SizeAssumption DEF Chain, Offsets
<1>1. PICK e \in V :
         /\ p = [off |-> Back(tip, e), count |-> d - e] /\ e <= d /\ d - e >= n
         /\ n = 0 => e = d
         /\ Lost(R[d], R[e], written + 1 - d + n)
    BY DEF WalkAt
<1>2. p.off = Back(tip, e) /\ p.count = d - e /\ d \in Nat /\ e \in Nat /\ e \in Offsets
    BY <1>0, <1>1
<1>a. R[d] \in Seq(Nat) /\ R[e] \in Seq(Nat)
    BY ChainRest
<1>b. PICK first \in Nat : first = written + 1 - d
    <2>1. d # 0
        BY <1>2, n < d
    <2>2. Cell(buffer, tip, d).entry \in Nat
        BY <2>1, ChainStep
    <2>3. Cell(buffer, tip, d).entry + d = written + 1
        BY <2>1 DEF Numbered
    <2> QED
        BY <1>2, <2>2, <2>3
<1>c. Lost(R[d], R[e], first + n)
    BY <1>1, <1>b
<1>3. CASE d - e >= n + 1
    <2>1. WalkRound(off, n + 1, p) = p
        BY <1>2, <1>3 DEF WalkRound
    <2>2. n + 1 # 0
        OBVIOUS
    <2>3. Lost(R[d], R[e], first + (n + 1))
        <3> HIDE DEF R
        <3>1. PICK k \in 0 .. Len(R[d]) :
                 R[e] = SubSeq(R[d], k + 1, Len(R[d])) /\ \A i \in 1 .. k : R[d][i] < first + n
            BY <1>c DEF Lost
        <3>a. \A i \in 1 .. Len(R[d]) : R[d][i] \in Nat
            BY <1>a, ElementOfSeq
        <3>2. \A i \in 1 .. k : R[d][i] \in Nat
            BY <3>a
        <3>3. \A i \in 1 .. k : R[d][i] < first + (n + 1)
            BY <1>b, <3>1, <3>2
        <3> QED
            BY <3>1, <3>3 DEF Lost
    <2> QED
        BY <1>1, <1>3, <1>b, <2>1, <2>2, <2>3 DEF WalkAt
<1>4. CASE ~(d - e >= n + 1)
    <2> DEFINE l == Cell(buffer, tip, e).len
               y == Cell(buffer, tip, e).entry
               g == e - l
    <2>1. e # 0 /\ n + 1 # 0
        BY <1>2, <1>4, n < d
    <2>2. /\ l \in 1 .. e /\ y \in Nat /\ g \in V /\ R[g] \in Seq(Nat)
          /\ R[e] = <<y>> \o R[g]
        BY <2>1, ChainStep
    <2>3. get_entry_len(p.off) = l
        BY <1>2 DEF get_entry_len, Cell
    <2> HIDE DEF l, y
    <2>4. logger_offset(Back(tip, e) + l) = Back(tip, g)
        <3>1. l \in 0 .. e
            BY <2>2
        <3> QED
            BY <1>2, <3>1, BackMoves
    <2>5. (d - e) + l = d - g /\ g <= d /\ d - g >= n + 1
        BY <1>1, <1>2, <2>2
    <2>6. WalkRound(off, n + 1, p) = [off |-> Back(tip, g), count |-> d - g]
        BY <1>2, <1>4, <2>1, <2>3, <2>4, <2>5 DEF WalkRound
    <2> HIDE DEF g
    <2>7. y = first + n
        <3>1. y + e = written + 1
            BY <2>1 DEF Numbered, y
        <3> QED
            BY <1>1, <1>2, <1>4, <1>b, <2>2, <3>1
    <2> HIDE DEF R
    <2>8. Lost(R[d], R[g], first + (n + 1))
        <3>1. Lost(R[d], <<y>> \o R[g], first + n)
            BY <1>c, <2>2
        <3>2. /\ first + n \in Nat /\ first + (n + 1) \in Nat /\ first + n <= first + (n + 1)
              /\ y < first + (n + 1)
            BY <1>b, <2>7
        <3>3. R[d] \in Seq(Nat) /\ y \in Nat /\ R[g] \in Seq(Nat)
            BY <1>a, <2>2
        <3> QED
            BY <3>1, <3>2, <3>3, LostFurther
    <2> QED
        BY <1>b, <2>1, <2>2, <2>5, <2>6, <2>8 DEF WalkAt, R
<1> QED
    BY <1>3, <1>4

\* What is left of a sequence without its first k elements.
LEMMA Dropped ==
    ASSUME NEW s \in Seq(Nat), NEW k \in 0 .. Len(s)
    PROVE  LET u == SubSeq(s, k + 1, Len(s))
           IN  Len(u) = Len(s) - k /\ \A j \in 1 .. Len(s) - k : u[j] = s[k + j]
<1> DEFINE a == k + 1
<1>1. Len(s) \in Nat /\ k \in Nat /\ a \in 1 .. Len(s) + 1 /\ Len(s) \in a - 1 .. Len(s)
    OBVIOUS
<1>2. Len(s) - a + 1 = Len(s) - k /\ \A j \in 1 .. Len(s) - k : a + j - 1 = k + j
    BY <1>1
<1> HIDE DEF a
<1>3. /\ Len(SubSeq(s, a, Len(s))) = Len(s) - a + 1
      /\ \A j \in 1 .. Len(s) - a + 1 : SubSeq(s, a, Len(s))[j] = s[a + j - 1]
    BY <1>1, SubSeqProperties
<1>4. /\ Len(SubSeq(s, a, Len(s))) = Len(s) - k
      /\ \A j \in 1 .. Len(s) - k : SubSeq(s, a, Len(s))[j] = s[k + j]
    BY <1>2, <1>3
<1> QED
    BY <1>4 DEF a

\* The entries of t are those of s that are left when an entry of len cells is written.
Given(s, len, t) ==
    \E n \in 0 .. Len(s) : Channel!Gives(s, len, n) /\ t = Channel!Without(s, n)

\* What becomes of an offset: it is out of the way of the entry, at the beginning of
\* another one, and the oldest entries that have to go are lost, or none.
PulledTo(V, off, len, new) ==
    /\ new \in Offsets /\ Back(tip, new) \in V /\ Back(tip, new) + len < Size
    /\ Given(RestOf(buffer, tip)[Back(tip, off)], len, RestOf(buffer, tip)[Back(tip, new)])

\* There is room for an entry beside what an offset that it does not cross has before it.
LEMMA FitsIs ==
    ASSUME buffer \in Contents, tip \in Offsets, NEW V, Chain(buffer, tip, V),
           written \in Nat, Numbered(buffer, tip, V, written), NEW d \in V, NEW len \in Lengths
    PROVE  /\ Channel!Fits(RestOf(buffer, tip)[d], len) <=> d + len < Size
           /\ d # 0 => /\ Head(RestOf(buffer, tip)[d]) = written + 1 - d
                       /\ Head(RestOf(buffer, tip)[d]) \in Nat
<1> DEFINE R == RestOf(buffer, tip)
<1>0. V \subseteq Offsets /\ Offsets \subseteq Nat /\ len \in Nat /\ len < Size
    BY SizeAssumption DEF Chain, Offsets, Lengths
<1>1. CASE d = 0
    <2>1. R[d] = <<>>
        BY <1>1, RestEmpty
    <2> HIDE DEF R
    <2> QED
        BY <1>0, <1>1, <2>1 DEF Channel!Fits, R
<1>2. CASE d # 0
    <2> DEFINE y == Cell(buffer, tip, d).entry
               u == R[d - Cell(buffer, tip, d).len]
    <2>1. y \in Nat /\ u \in Seq(Nat) /\ R[d] = <<y>> \o u
        BY <1>2, ChainStep
    <2>2. y + d = written + 1
        BY <1>2 DEF Numbered
    <2> HIDE DEF y, u, R
    <2>3. Head(<<y>> \o u) = y /\ <<y>> \o u # <<>>
        BY <2>1, Consed
    <2>4. Head(R[d]) = y /\ R[d] # <<>>
        BY <2>1, <2>3
    <2>5. y = written + 1 - d /\ written + 1 - y = d /\ d \in Nat
        BY <1>0, <2>1, <2>2
    <2>6. Channel!Fits(R[d], len) <=> d + len < Size
        BY <2>4, <2>5 DEF Channel!Fits
    <2> QED
        BY <2>1, <2>4, <2>5, <2>6 DEF R
<1> QED
    BY <1>1, <1>2

\* Nothing has to go when there is room.
LEMMA GivenNone ==
    ASSUME NEW s \in Seq(Nat), NEW len, Channel!Fits(s, len)
    PROVE  Given(s, len, s)
<1> DEFINE u == SubSeq(s, 1, Len(s))
<1>1. Len(s) \in Nat
    OBVIOUS
<1>2. u \in Seq(Nat) /\ Len(u) = Len(s) /\ \A i \in 1 .. Len(s) : u[i] = s[i]
    BY <1>1
<1> HIDE DEF u
<1>3. u = s
    BY <1>2, SeqEqual
<1>4. 0 \in 0 .. Len(s) /\ 0 + 1 = 1
    BY <1>1
<1>5. Channel!Gives(s, len, 0)
    BY DEF Channel!Gives
<1>6. s = Channel!Without(s, 0)
    BY <1>3, <1>4 DEF Channel!Without, u
<1> QED
    BY <1>4, <1>5, <1>6 DEF Given

\* fix_up_readers does that to an offset where an entry begins.
LEMMA Pulled ==
    ASSUME buffer \in Contents, tip \in Offsets, w_off = tip, NEW V, Chain(buffer, tip, V),
           written \in Nat, Numbered(buffer, tip, V, written),
           NEW off \in Offsets, Back(tip, off) \in V, NEW len \in Lengths
    PROVE  PulledTo(V, off, len, PulledForward(off, len))
<1> DEFINE d == Back(tip, off)
<1>0. /\ V \subseteq Offsets /\ Offsets \subseteq Nat
      /\ d \in Offsets /\ d \in V /\ Back(tip, d) = off
    BY BackBack, SizeAssumption DEF Chain, Offsets
<1>1. len \in Nat /\ len >= 2 /\ 2 * len <= Size /\ d < Size
    BY <1>0, SizeAssumption DEF Lengths, Offsets
<1>a. clock_interval(w_off, logger_offset(w_off + len), off) <=> d + len >= Size
    BY Crossed
<1> HIDE DEF d
<1>2. CASE d + len < Size
    <2>1. ~clock_interval(w_off, logger_offset(w_off + len), off)
        BY <1>0, <1>1, <1>2, <1>a, SizeAssumption
    <2>2. Channel!Fits(RestOf(buffer, tip)[d], len) /\ RestOf(buffer, tip)[d] \in Seq(Nat)
        BY <1>0, <1>2, FitsIs, ChainRest
    <2>3. Given(RestOf(buffer, tip)[d], len, RestOf(buffer, tip)[d])
        BY <2>2, GivenNone
    <2> QED
        BY <1>0, <1>2, <2>1, <2>3 DEF PulledForward, PulledTo, d
<1>3. CASE ~(d + len < Size)
    <2>a. d + len >= Size /\ len <= d
        BY <1>0, <1>1, <1>3, SizeAssumption
    <2>1. PulledForward(off, len) = get_next_entry(off, len)
        BY <2>a, <1>a DEF PulledForward
    <2>2. PICK f : /\ get_next_entry(off, len) = f[len].off
                   /\ \A n \in 0 .. len : f[n] = WalkRound(off, n, f[n - 1])
        BY <1>1, WalkIs
    <2> DEFINE T == {n \in Nat : n <= len => WalkAt(V, d, n, f[n])}
    <2>3. 0 \in T
        <3>1. f[0] = [off |-> off, count |-> 0]
            <4>1. 0 \in 0 .. len
                BY <1>1
            <4>2. f[0] = WalkRound(off, 0, f[0 - 1])
                BY <2>2, <4>1
            <4> QED
                BY <4>2 DEF WalkRound
        <3>2. d - d = 0 /\ d <= d /\ d \in Nat
            BY <1>0
        <3>3. Lost(RestOf(buffer, tip)[d], RestOf(buffer, tip)[d], written + 1 - d + 0)
            BY <1>0, ChainRest, LostNone
        <3>4. WalkAt(V, d, 0, f[0])
            BY <1>0, <3>1, <3>2, <3>3 DEF WalkAt
        <3> QED
            BY <3>4
    <2>4. ASSUME NEW n \in T PROVE n + 1 \in T
        <3>1. n \in Nat /\ n + 1 \in Nat /\ (n <= len => WalkAt(V, d, n, f[n]))
            OBVIOUS
        <3>2. ASSUME n + 1 <= len PROVE WalkAt(V, d, n + 1, f[n + 1])
            <4>1. n < d /\ n <= len /\ n + 1 \in 0 .. len /\ (n + 1) - 1 = n
                BY <1>0, <1>1, <2>a, <3>1, <3>2
            <4>2. f[n + 1] = WalkRound(off, n + 1, f[n])
                BY <2>2, <4>1
            <4>3. WalkAt(V, d, n, f[n]) /\ d \in V
                BY <1>0, <3>1, <4>1
            <4> QED
                BY <3>1, <4>1, <4>2, <4>3, WalkRoundFacts
        <3> QED
            BY <3>1, <3>2
    <2>5. T \in SUBSET Nat
        OBVIOUS
    <2> HIDE DEF T
    <2>6. T = Nat
        BY <2>3, <2>4, <2>5, SetInduction
    <2>7. WalkAt(V, d, len, f[len])
        <3>1. len \in T /\ len <= len
            BY <1>1, <2>6
        <3> QED
            BY <3>1 DEF T
    <2> DEFINE R == RestOf(buffer, tip)
    <2>8. PICK e \in V :
             /\ f[len] = [off |-> Back(tip, e), count |-> d - e] /\ e <= d /\ d - e >= len
             /\ Lost(R[d], R[e], written + 1 - d + len)
        BY <2>7 DEF WalkAt
    <2>9. f[len].off = Back(tip, e) /\ e \in Offsets /\ e \in Nat
        BY <1>0, <2>8
    <2>10. Back(tip, e) \in Offsets /\ Back(tip, Back(tip, e)) = e
        BY <2>9, BackBack
    <2>11. e + len < Size
        BY <1>0, <1>1, <2>8, <2>9, SizeAssumption
    <2>12. R[d] \in Seq(Nat) /\ R[e] \in Seq(Nat) /\ NotBelow(R[e], written, e)
        BY <1>0, ChainRest, ChainNumbers
    <2>13. ~Channel!Fits(R[d], len) /\ Head(R[d]) = written + 1 - d /\ Head(R[d]) \in Nat
        <3>1. d # 0
            BY <1>0, <1>1, <2>a
        <3> QED
            BY <1>0, <1>3, <3>1, FitsIs
    <2> HIDE DEF R
    <2>14. PICK k \in 0 .. Len(R[d]) :
              /\ R[e] = SubSeq(R[d], k + 1, Len(R[d]))
              /\ \A i \in 1 .. k : R[d][i] < written + 1 - d + len
        BY <2>8 DEF Lost
    <2>15. ASSUME NEW i \in 1 .. Len(R[d]) PROVE i <= k <=> R[d][i] < Head(R[d]) + len
        <3>0. k \in Nat /\ i \in Nat /\ Len(R[d]) \in Nat /\ R[d][i] \in Nat
            BY <2>12
        <3>1. CASE i <= k
            <4>1. i \in 1 .. k
                BY <3>0, <3>1
            <4> QED
                BY <2>13, <2>14, <3>1, <4>1
        <3>2. CASE ~(i <= k)
            <4>1. Len(R[e]) = Len(R[d]) - k /\ \A j \in 1 .. Len(R[d]) - k : R[e][j] = R[d][k + j]
                BY <2>12, <2>14, Dropped
            <4>2. i - k \in 1 .. Len(R[d]) - k /\ k + (i - k) = i
                BY <3>0, <3>2
            <4>3. R[e][i - k] = R[d][i] /\ R[e][i - k] + e >= written + 1
                BY <2>12, <4>1, <4>2 DEF NotBelow
            <4>4. R[d][i] + e >= written + 1 /\ e + len <= d
                BY <1>0, <1>1, <2>8, <2>9, <4>3
            <4>5. ~(R[d][i] < written + 1 - d + len)
                <5>1. PICK z \in Nat : z = R[d][i]
                    BY <3>0
                <5>2. d \in Nat /\ e \in Nat /\ len \in Nat /\ z + e >= written + 1 /\ e + len <= d
                    BY <1>0, <1>1, <2>9, <4>4, <5>1
                <5>3. ~(z < written + 1 - d + len)
                    BY <5>2
                <5> QED
                    BY <5>1, <5>3
            <4> QED
                BY <2>13, <3>2, <4>5
        <3> QED
            BY <3>1, <3>2
    <2>16. Given(R[d], len, R[e])
        BY <2>13, <2>14, <2>15 DEF Given, Channel!Gives, Channel!Without
    <2> QED
        BY <2>1, <2>2, <2>8, <2>9, <2>10, <2>11, <2>16 DEF PulledTo, d, R
<1> QED
    BY <1>2, <1>3

-----------------------------------------------------------------------------
(***************************************************************************)
(* The invariant.  Until a fault has put w_off elsewhere, the offsets of   *)
(* head and of the readers are where entries begin, what a writer has      *)
(* fixed up already is out of the way of its entry, and w_off is behind    *)
(* the part of an entry that has been copied, if any.                      *)
(***************************************************************************)
LogOK ==
    /\ buffer \in Contents /\ w_off \in Offsets /\ tip \in Offsets /\ head \in Offsets
    /\ written \in Nat

ReadPlaces == {"idle", "start", "queued", "empty", "asleep", "ready"}

ReadersOK ==
    /\ readers \in Seq(Readers)
    /\ \A i, j \in 1 .. Len(readers) : readers[i] = readers[j] => i = j
    /\ r_off \in [Readers -> Offsets]
    /\ read \in [Readers -> ReadPlaces]
    /\ \A r \in Readers : read[r] # "idle" => IsOpen(r)

WritePlaces == {"idle", "begun", "walking", "copying", "oops", "unlocked"}
WriteRecords ==
    [pc : WritePlaces, orig : Nat, len : Nat, done : Nat, cursor : Readers \cup {NoReader}]

RecordOK(rec) ==
    /\ rec \in WriteRecords
    /\ rec.pc \in {"begun", "walking", "copying", "oops"} => rec.len \in Lengths
    /\ rec.pc = "copying" => rec.done \in 1 .. rec.len - 1 /\ rec.cursor = NoReader

WritersOK ==
    /\ write \in [Writers -> WriteRecords]
    /\ \A w \in Writers : RecordOK(write[w])
    /\ \A w, x \in Writers : Holds(w) /\ Holds(x) => w = x

Placed(V) ==
    /\ Back(tip, head) \in V
    /\ \A i \in 1 .. Len(readers) : Back(tip, r_off[readers[i]]) \in V

Clear(off, len) == Back(tip, off) + len < Size

\* The walk of writer w over the readers has left place i behind.
Passed(w, i) ==
    write[w].cursor = NoReader \/ \E j \in i + 1 .. Len(readers) : readers[j] = write[w].cursor

Fixed(w) ==
    write[w].pc \in {"walking", "copying"} =>
        /\ Clear(head, write[w].len)
        /\ \A i \in 1 .. Len(readers) : Passed(w, i) => Clear(r_off[readers[i]], write[w].len)

AllFixed == \A w \in Writers : Fixed(w)

\* Where w_off is, while no writer copies and while one does.
Aimed ==
    /\ (\A w \in Writers : write[w].pc # "copying") => w_off = tip
    /\ \A w \in Writers : write[w].pc = "copying" =>
          /\ w_off = logger_offset(tip + write[w].done)
          /\ Begun(buffer, tip, written + 1, write[w].len, write[w].done)

LogIs(V) == Chain(buffer, tip, V) /\ Numbered(buffer, tip, V, written) /\ Placed(V)

Sound == LogOK /\ ReadersOK /\ WritersOK /\ AllFixed /\ Aimed /\ \E V : LogIs(V)

Invariant == undone \in BOOLEAN /\ (undone \/ Sound)

Implemented == Invariant' /\ (Channel!Next \/ undone' \/ UNCHANGED <<Channel!vars, undone>>)

-----------------------------------------------------------------------------
\* What the refinement says is unread.
Unread == [r \in Readers |-> IF IsOpen(r) THEN EntriesFrom(r_off[r]) ELSE <<>>]
Start == EntriesFrom(head)
Writing == IF MutexFree THEN 0 ELSE write[CHOOSE w \in Writers : Holds(w)].len

Held(off) == RestOf(buffer, tip)[Back(tip, off)]

View ==
    /\ Unread = [r \in Readers |-> IF IsOpen(r) THEN Held(r_off[r]) ELSE <<>>]
    /\ Start = Held(head)

\* EntriesFrom, for the offsets of the log.
LEMMA ViewNow == LogOK /\ r_off \in [Readers -> Offsets] => View
<1> SUFFICES ASSUME LogOK, r_off \in [Readers -> Offsets] PROVE View
    OBVIOUS
<1>1. ASSUME NEW off \in Offsets PROVE EntriesFrom(off) = Held(off)
    <2>1. EntriesFrom(off) = RestOf(buffer, tip)[logger_offset(tip + Size - off)]
        BY EntriesAreRest
    <2>2. off \in 0 .. Size /\ tip \in Offsets
        BY SizeAssumption DEF LogOK, Offsets
    <2>3. logger_offset(tip + Size - off) = Back(tip, off)
        BY <2>2, BackValue
    <2> QED
        BY <2>1, <2>3 DEF Held
<1>2. \A r \in Readers : r_off[r] \in Offsets
    OBVIOUS
<1> QED
    BY <1>1, <1>2 DEF View, Unread, Start, LogOK

\* The same in the next state.
LEMMA ViewNext == (LogOK /\ r_off \in [Readers -> Offsets])' => View'
BY ViewNow, PTL

\* Both of them, for a step between good states.
LEMMA Views ==
    ASSUME LogOK, ReadersOK, LogOK', ReadersOK'
    PROVE  View /\ View'
BY ViewNow, ViewNext DEF ReadersOK

\* The length of the entry that the holder of the mutex writes.
WritingShown ==
    /\ MutexFree => Writing = 0
    /\ \A w \in Writers : Holds(w) => Writing = write[w].len

\* There is at most one holder.
LEMMA WritingNow == WritersOK => WritingShown
<1> SUFFICES ASSUME WritersOK PROVE WritingShown
    OBVIOUS
<1>1. ASSUME NEW w \in Writers, Holds(w) PROVE Writing = write[w].len
    <2>1. ~MutexFree
        BY <1>1 DEF MutexFree
    <2>2. Holds(CHOOSE x \in Writers : Holds(x)) /\ (CHOOSE x \in Writers : Holds(x)) \in Writers
        BY <1>1
    <2>3. (CHOOSE x \in Writers : Holds(x)) = w
        BY <1>1, <2>2 DEF WritersOK
    <2> QED
        BY <2>1, <2>3 DEF Writing
<1> QED
    BY <1>1 DEF Writing, WritingShown

\* The same in the next state.
LEMMA WritingNext == WritersOK' => WritingShown'
BY WritingNow, PTL

\* A step after which the same writer has the mutex, for the same entry.
LEMMA WritingStays ==
    ASSUME WritersOK, WritersOK',
           \A x \in Writers : /\ Holds(x)' <=> Holds(x)
                              /\ Holds(x) => write'[x].len = write[x].len
    PROVE  Writing' = Writing
<1>1. CASE MutexFree
    <2>1. MutexFree'
        BY <1>1 DEF MutexFree
    <2> QED
        BY <1>1, <2>1, WritingNow, WritingNext DEF WritingShown
<1>2. CASE ~MutexFree
    <2>1. PICK w \in Writers : Holds(w)
        BY <1>2 DEF MutexFree
    <2>2. Holds(w)' /\ write'[w].len = write[w].len
        BY <2>1
    <2>3. Writing = write[w].len
        BY <2>1, WritingNow DEF WritingShown
    <2>4. Writing' = write'[w].len
        BY <2>2, WritingNext DEF WritingShown
    <2> QED
        BY <2>2, <2>3, <2>4
<1> QED
    BY <1>1, <1>2

\* A step of the log and what it means for its readers.
LEMMA ChannelStutters ==
    ASSUME UNCHANGED <<readers, written, undone>>, Unread' = Unread, Start' = Start,
           Writing' = Writing
    PROVE  UNCHANGED <<Channel!vars, undone>>
BY DEF Channel!vars, Unread, Start, Writing

\* The others, while one writer has the mutex.
LEMMA OthersFixed ==
    ASSUME WritersOK, NEW w \in Writers, Holds(w), NEW x \in Writers, x # w
    PROVE  write[x].pc \notin {"walking", "copying"} /\ ~Holds(x)
BY DEF WritersOK, Holds

\* A step of one writer; it takes the mutex only when no other has it.
LEMMA WriterMoves ==
    ASSUME WritersOK, NEW w \in Writers, NEW new, RecordOK(new),
           write' = [write EXCEPT ![w] = new],
           new.pc \in {"walking", "copying", "oops"} => MutexFree \/ Holds(w)
    PROVE  WritersOK' /\ \A x \in Writers : write'[x] = IF x = w THEN new ELSE write[x]
<1>1. write \in [Writers -> WriteRecords] /\ new \in WriteRecords
    BY DEF WritersOK, RecordOK
<1>2. \A x \in Writers : write'[x] = IF x = w THEN new ELSE write[x]
    BY <1>1
<1>3. write' \in [Writers -> WriteRecords]
    BY <1>1
<1>4. \A x \in Writers : RecordOK(write[x])' <=> RecordOK(write'[x])
    BY DEF RecordOK
<1>5. \A x \in Writers : RecordOK(write'[x])
    BY <1>2 DEF WritersOK
<1>6. ASSUME NEW x \in Writers, NEW y \in Writers, x # y, Holds(x)', Holds(y)'
      PROVE  FALSE
    <2>0. \A z \in Writers : Holds(z)' <=> write'[z].pc \in {"walking", "copying", "oops"}
        BY DEF Holds
    <2>1. ASSUME NEW z \in Writers, z # w, Holds(z), new.pc \in {"walking", "copying", "oops"}
          PROVE  FALSE
        BY <2>1 DEF MutexFree, WritersOK
    <2>2. CASE x = w
        BY <1>2, <1>6, <2>0, <2>1, <2>2 DEF Holds
    <2>3. CASE y = w
        BY <1>2, <1>6, <2>0, <2>1, <2>3 DEF Holds
    <2>4. CASE x # w /\ y # w
        <3>1. Holds(x) /\ Holds(y)
            BY <1>2, <1>6, <2>0, <2>4 DEF Holds
        <3> QED
            BY <1>6, <3>1 DEF WritersOK
    <2> QED
        BY <2>2, <2>3, <2>4
<1>7. WritersOK'
    BY <1>3, <1>4, <1>5, <1>6 DEF WritersOK
<1> QED
    BY <1>2, <1>7

\* A step of one writer that stays where it is with the mutex, or stays without.
LEMMA WriterStays ==
    ASSUME WritersOK, WritersOK', NEW w \in Writers, NEW new,
           \A x \in Writers : write'[x] = IF x = w THEN new ELSE write[x],
           Holds(w) <=> new.pc \in {"walking", "copying", "oops"},
           Holds(w) => new.len = write[w].len
    PROVE  Writing' = Writing
<1>1. \A x \in Writers : /\ Holds(x)' <=> Holds(x)
                         /\ Holds(x) => write'[x].len = write[x].len
    BY DEF Holds
<1> QED
    BY <1>1, WritingStays

\* A step that changes neither the log nor the readers' offsets.
LEMMA SameLog ==
    ASSUME Sound, ~undone, undone \in BOOLEAN, UNCHANGED <<logVars, readers, r_off>>,
           ReadersOK', WritersOK', AllFixed', Aimed', Writing' = Writing
    PROVE  Implemented
<1>1. LogOK' /\ undone' \in BOOLEAN
    BY DEF Sound, LogOK, logVars
<1>2. PICK V : LogIs(V)
    BY DEF Sound
<1>3. LogIs(V)'
    BY <1>2 DEF LogIs, Placed, logVars
<1>4. Sound'
    BY <1>1, <1>3 DEF Sound
<1>5. View /\ View'
    BY <1>1, Views DEF Sound
<1>6. /\ Held(head)' = Held(head)
      /\ \A r \in Readers : Held(r_off[r])' = Held(r_off[r]) /\ IsOpen(r)' = IsOpen(r)
    BY DEF Held, logVars, IsOpen
<1>7. Unread' = Unread /\ Start' = Start
    BY <1>5, <1>6 DEF View
<1> QED
    BY <1>1, <1>4, <1>7, ChannelStutters DEF Implemented, Invariant, logVars

-----------------------------------------------------------------------------
(***************************************************************************)
(* Steps that the readers do not see.                                      *)
(***************************************************************************)
LEMMA BeginsImplemented ==
    ASSUME Sound, ~undone, undone \in BOOLEAN, NEW w \in Writers, NEW len \in Lengths,
           write_begins(w, len)
    PROVE  Implemented
<1> DEFINE new == [Idle EXCEPT !.pc = "begun", !.orig = w_off, !.len = len]
<1>1. WritersOK /\ ReadersOK /\ AllFixed /\ Aimed /\ w_off \in Nat /\ len \in Nat
    BY SizeAssumption DEF Sound, LogOK, Offsets, Lengths
<1>2. /\ write' = [write EXCEPT ![w] = new] /\ UNCHANGED <<logVars, readerVars>>
      /\ write[w].pc = "idle"
    BY DEF write_begins
<1>3. RecordOK(new) /\ new.pc = "begun"
    BY <1>1 DEF RecordOK, WriteRecords, WritePlaces, Idle
<1> HIDE DEF new
<1>5. WritersOK' /\ \A x \in Writers : write'[x] = IF x = w THEN new ELSE write[x]
    BY <1>1, <1>2, <1>3, WriterMoves
<1>6. Writing' = Writing
    BY <1>1, <1>2, <1>3, <1>5, WriterStays DEF Holds
<1>8. ReadersOK'
    BY <1>1, <1>2 DEF ReadersOK, readerVars, IsOpen
<1>9. AllFixed'
    <2> SUFFICES ASSUME NEW x \in Writers, write'[x].pc \in {"walking", "copying"}
                 PROVE  Fixed(x)'
        BY DEF AllFixed, Fixed
    <2>1. write'[x] = write[x] /\ Fixed(x)
        BY <1>1, <1>3, <1>5 DEF AllFixed
    <2> QED
        BY <1>2, <2>1 DEF Fixed, Passed, Clear, readerVars, logVars
<1>10. Aimed'
    BY <1>1, <1>2, <1>3, <1>5 DEF Aimed, logVars
<1> QED
    BY <1>2, <1>5, <1>6, <1>8, <1>9, <1>10, SameLog DEF readerVars

\* The writer stops at a reader that was freed; it keeps the mutex.
LEMMA OopsImplemented ==
    ASSUME Sound, ~undone, undone \in BOOLEAN, NEW w \in Writers, write_oops(w)
    PROVE  Implemented
<1> DEFINE new == [write[w] EXCEPT !.pc = "oops"]
<1>1. WritersOK /\ ReadersOK /\ AllFixed /\ Aimed
    BY DEF Sound
<1>2. /\ write' = [write EXCEPT ![w] = new] /\ UNCHANGED <<logVars, readerVars>>
      /\ write[w].pc = "walking" /\ Holds(w)
    BY <1>1 DEF write_oops, WritersOK, Holds
<1>3. RecordOK(new) /\ new.pc = "oops" /\ new.len = write[w].len
    BY <1>1, <1>2 DEF WritersOK, RecordOK, WriteRecords, WritePlaces
<1> HIDE DEF new
<1>5. WritersOK' /\ \A x \in Writers : write'[x] = IF x = w THEN new ELSE write[x]
    BY <1>1, <1>2, <1>3, WriterMoves
<1>6. Writing' = Writing
    BY <1>1, <1>2, <1>3, <1>5, WriterStays
<1>8. ReadersOK'
    BY <1>1, <1>2 DEF ReadersOK, readerVars, IsOpen
<1>9. AllFixed'
    BY <1>1, <1>2, <1>3, <1>5, OthersFixed DEF AllFixed, Fixed
<1>10. Aimed'
    BY <1>1, <1>2, <1>3, <1>5 DEF Aimed, logVars
<1> QED
    BY <1>2, <1>5, <1>6, <1>8, <1>9, <1>10, SameLog DEF readerVars

\* wake_up_interruptible concerns only the waiting of readers.
LEMMA WakesImplemented ==
    ASSUME Sound, ~undone, undone \in BOOLEAN, NEW w \in Writers, write_wakes(w)
    PROVE  Implemented
<1>1. WritersOK /\ ReadersOK /\ AllFixed /\ Aimed
    BY DEF Sound
<1>2. /\ write' = [write EXCEPT ![w] = Idle] /\ UNCHANGED <<logVars, readers, r_off>>
      /\ read' = [r \in Readers |-> Woken(r)] /\ write[w].pc = "unlocked"
    BY DEF write_wakes
<1>3. RecordOK(Idle) /\ Idle.pc = "idle"
    BY DEF RecordOK, WriteRecords, WritePlaces, Idle
<1>5. WritersOK' /\ \A x \in Writers : write'[x] = IF x = w THEN Idle ELSE write[x]
    BY <1>1, <1>2, <1>3, WriterMoves
<1>6. Writing' = Writing
    BY <1>1, <1>2, <1>3, <1>5, WriterStays DEF Holds
<1>8. ReadersOK'
    <2>1. ASSUME NEW r \in Readers
          PROVE  read'[r] \in ReadPlaces /\ (read'[r] # "idle" => read[r] # "idle")
        <3>1. read[r] \in ReadPlaces /\ read'[r] = Woken(r)
            BY <1>1, <1>2 DEF ReadersOK
        <3> QED
            BY <3>1 DEF Woken, ReadPlaces
    <2>2. read' \in [Readers -> ReadPlaces]
        BY <1>2, <2>1
    <2>3. \A r \in Readers : read'[r] # "idle" => IsOpen(r)'
        BY <1>1, <1>2, <2>1 DEF ReadersOK, IsOpen
    <2> QED
        BY <1>1, <1>2, <2>2, <2>3 DEF ReadersOK
<1>9. AllFixed'
    <2> SUFFICES ASSUME NEW x \in Writers, write'[x].pc \in {"walking", "copying"}
                 PROVE  Fixed(x)'
        BY DEF AllFixed, Fixed
    <2>1. write'[x] = write[x] /\ Fixed(x)
        BY <1>1, <1>3, <1>5 DEF AllFixed
    <2> QED
        BY <1>2, <2>1 DEF Fixed, Passed, Clear, logVars
<1>10. Aimed'
    BY <1>1, <1>2, <1>3, <1>5 DEF Aimed, logVars
<1> QED
    BY <1>2, <1>5, <1>6, <1>8, <1>9, <1>10, SameLog

\* A reader that goes on, without an entry, is an open one.
LEMMA ReadGoesImplemented ==
    ASSUME Sound, ~undone, undone \in BOOLEAN, NEW r \in Readers, NEW from, NEW to \in ReadPlaces,
           ReadGoes(r, from, to), "idle" \notin from \/ IsOpen(r)
    PROVE  Implemented
<1>1. WritersOK /\ ReadersOK /\ AllFixed /\ Aimed
    BY DEF Sound
<1>2. /\ read[r] \in from /\ read' = [read EXCEPT ![r] = to]
      /\ UNCHANGED <<logVars, readers, r_off, write>>
    BY DEF ReadGoes
<1>3. IsOpen(r)
    BY <1>1, <1>2 DEF ReadersOK
<1>4. ReadersOK'
    BY <1>1, <1>2, <1>3 DEF ReadersOK, IsOpen
<1>5. WritersOK' /\ Writing' = Writing
    BY <1>1, <1>2 DEF WritersOK, Holds, Writing, MutexFree
<1>6. AllFixed'
    BY <1>1, <1>2 DEF AllFixed, Fixed, Passed, Clear, logVars
<1>7. Aimed'
    BY <1>1, <1>2 DEF Aimed, logVars
<1> QED
    BY <1>2, <1>4, <1>5, <1>6, <1>7, SameLog

\* The steps of logger_read before it has an entry.
LEMMA QuietReadImplemented ==
    ASSUME Sound, ~undone, undone \in BOOLEAN, NEW r \in Readers,
           \/ read_begins(r) \/ read_prepares(r) \/ read_looks(r) \/ read_sleeps(r)
           \/ read_gives_up(r) \/ read_raced(r)
    PROVE  Implemented
<1>1. CASE read_begins(r)
    BY <1>1, ReadGoesImplemented DEF read_begins, ReadPlaces
<1>2. CASE read_prepares(r)
    BY <1>2, ReadGoesImplemented DEF read_prepares, ReadPlaces
<1>3. CASE read_looks(r)
    BY <1>3, ReadGoesImplemented DEF read_looks, ReadPlaces
<1>4. CASE read_sleeps(r)
    BY <1>4, ReadGoesImplemented DEF read_sleeps, ReadPlaces
<1>5. CASE read_gives_up(r)
    BY <1>5, ReadGoesImplemented DEF read_gives_up, ReadPlaces
<1>6. CASE read_raced(r)
    BY <1>6, ReadGoesImplemented DEF read_raced, ReadPlaces
<1> QED
    BY <1>1, <1>2, <1>3, <1>4, <1>5, <1>6

-----------------------------------------------------------------------------
(***************************************************************************)
(* The writer's steps.                                                     *)
(***************************************************************************)
LEMMA LocksImplemented ==
    ASSUME Sound, ~undone, undone \in BOOLEAN, NEW w \in Writers, write_locks(w)
    PROVE  Implemented
<1>0. PICK len : len = write[w].len
    OBVIOUS
<1> DEFINE first == IF readers = <<>> THEN NoReader ELSE Head(readers)
           new == [write[w] EXCEPT !.pc = "walking", !.cursor = first]
<1>1. LogOK /\ WritersOK /\ ReadersOK /\ AllFixed /\ Aimed
    BY DEF Sound
<1>2. /\ write[w].pc = "begun" /\ MutexFree /\ head' = PulledForward(head, len)
      /\ UNCHANGED <<buffer, w_off, written, tip, undone, readers, r_off, read>>
    BY <1>0 DEF write_locks, readerVars
<1>3. /\ write[w] \in WriteRecords /\ len \in Lengths /\ w_off = tip
      /\ \A x \in Writers : ~Holds(x) /\ write[x].pc \notin {"walking", "copying"}
    <2>1. write[w] \in WriteRecords /\ len \in Lengths
        BY <1>0, <1>1, <1>2 DEF WritersOK, RecordOK
    <2>2. \A x \in Writers : ~Holds(x) /\ write[x].pc \notin {"walking", "copying"}
        BY <1>2 DEF MutexFree, Holds
    <2> QED
        BY <1>1, <2>1, <2>2 DEF Aimed
<1>4. first \in Readers \cup {NoReader} /\ (first = NoReader => readers = <<>>)
      /\ (readers # <<>> => Len(readers) >= 1 /\ first = readers[1])
    BY <1>1, ReaderAssumption DEF ReadersOK
<1> HIDE DEF first
<1>5. RecordOK(new) /\ new.pc = "walking" /\ new.cursor = first /\ new.len = len
    BY <1>0, <1>3, <1>4 DEF RecordOK, WriteRecords, WritePlaces
<1>6. write' = [write EXCEPT ![w] = new]
    BY <1>1 DEF write_locks, WritersOK, first
<1> HIDE DEF new
<1>7. WritersOK' /\ \A x \in Writers : write'[x] = IF x = w THEN new ELSE write[x]
    BY <1>1, <1>2, <1>3, <1>5, <1>6, WriterMoves
<1>a. Holds(w)' /\ write'[w].len = len
    BY <1>5, <1>7 DEF Holds
<1>b. Writing = 0 /\ Writing' = len /\ len # 0 /\ len \in 1 .. Size - 1
    <2>1. Writing = 0
        BY <1>1, <1>2, WritingNow DEF WritingShown
    <2>2. Writing' = len
        BY <1>7, <1>a, WritingNext DEF WritingShown
    <2> QED
        BY <1>3, <2>1, <2>2, SizeAssumption DEF Lengths
<1>8. PICK V : LogIs(V)
    BY DEF Sound
<1>9. PulledTo(V, head, len, head')
    BY <1>1, <1>2, <1>3, <1>8, Pulled DEF LogOK, LogIs, Placed
<1>10. LogOK' /\ ReadersOK'
    BY <1>1, <1>2, <1>9 DEF LogOK, ReadersOK, IsOpen, PulledTo
<1>11. LogIs(V)'
    BY <1>2, <1>8, <1>9 DEF LogIs, Placed, PulledTo
<1>c. Aimed'
    BY <1>2, <1>3, <1>5, <1>7 DEF Aimed
<1>12. AllFixed'
    <2>1. ASSUME NEW x \in Writers, x # w PROVE Fixed(x)'
        BY <1>2, <1>3, <1>7, <2>1 DEF Fixed
    <2>2. Clear(head, len)'
        BY <1>2, <1>9 DEF Clear, PulledTo
    <2>3. ASSUME NEW i \in 1 .. Len(readers'), Passed(w, i)' PROVE FALSE
        <3>1. i \in 1 .. Len(readers) /\ Len(readers) \in Nat /\ readers # <<>>
            BY <1>1, <1>2 DEF ReadersOK
        <3>2. write'[w].cursor = readers[1] /\ write'[w].cursor # NoReader /\ 1 \in 1 .. Len(readers)
            BY <1>4, <1>5, <1>7, <3>1
        <3>3. PICK j \in i + 1 .. Len(readers) : readers[j] = readers[1]
            BY <1>2, <2>3, <3>2 DEF Passed
        <3>4. j \in 1 .. Len(readers) /\ j # 1
            BY <3>1
        <3> QED
            BY <1>1, <3>2, <3>3, <3>4 DEF ReadersOK
    <2>4. write'[w].len = len
        BY <1>5, <1>7
    <2>5. Fixed(w)'
        BY <2>2, <2>3, <2>4 DEF Fixed, Clear
    <2> QED
        BY <2>1, <2>5 DEF AllFixed
<1>13. Sound'
    BY <1>7, <1>10, <1>11, <1>12, <1>c DEF Sound
<1>14. View /\ View'
    BY <1>1, <1>10, Views
<1>15. Unread' = Unread
    <2>1. \A r \in Readers : Held(r_off[r])' = Held(r_off[r]) /\ IsOpen(r)' = IsOpen(r)
        BY <1>2 DEF Held, IsOpen
    <2> QED
        BY <1>14, <2>1 DEF View
<1>16. Given(Start, len, Start')
    <2>1. Start = RestOf(buffer, tip)[Back(tip, head)]
        BY <1>14 DEF View, Held
    <2>2. Start' = RestOf(buffer, tip)[Back(tip, head')]
        BY <1>2, <1>14 DEF View, Held
    <2> QED
        BY <1>9, <2>1, <2>2 DEF PulledTo
<1>17. Channel!Begin(len)
    BY <1>2, <1>15, <1>16, <1>b DEF Channel!Begin, Given, Start, Unread, Writing
<1> QED
    BY <1>2, <1>13, <1>17, <1>b DEF Implemented, Invariant, Channel!Next

\* The place of a reader in the list.
LEMMA Places ==
    ASSUME ReadersOK, NEW r, IsOpen(r)
    PROVE  /\ r \in Readers /\ PlaceOf(r) \in 1 .. Len(readers) /\ readers[PlaceOf(r)] = r
           /\ Len(readers) \in Nat
<1>1. readers \in Seq(Readers) /\ Len(readers) \in Nat /\ DOMAIN readers = 1 .. Len(readers)
    BY DEF ReadersOK
<1>2. \E i \in 1 .. Len(readers) : readers[i] = r
    BY <1>1 DEF IsOpen, ToSet
<1> QED
    BY <1>1, <1>2 DEF PlaceOf

\* The open readers are those that have a place.
LEMMA OpenIs ==
    ASSUME ReadersOK, NEW r
    PROVE  IsOpen(r) <=> \E i \in 1 .. Len(readers) : readers[i] = r
BY DEF ReadersOK, IsOpen, ToSet

\* One reader is pulled forward: it loses its oldest entries, or nothing.
LEMMA FixesImplemented ==
    ASSUME Sound, ~undone, undone \in BOOLEAN, NEW w \in Writers, write_fixes_reader(w)
    PROVE  Implemented
<1>0. PICK len, r : len = write[w].len /\ r = write[w].cursor
    OBVIOUS
<1> DEFINE p == PlaceOf(r)
           next == After(r)
           new == [write[w] EXCEPT !.cursor = next]
<1>1. LogOK /\ WritersOK /\ ReadersOK /\ AllFixed /\ Aimed
    BY DEF Sound
<1>2. /\ write[w].pc = "walking" /\ r # NoReader /\ IsOpen(r)
      /\ r_off' = [r_off EXCEPT ![r] = PulledForward(@, len)]
      /\ UNCHANGED <<buffer, w_off, head, written, tip, undone, readers, read>>
    BY <1>0 DEF write_fixes_reader, logVars
<1>3. /\ write[w] \in WriteRecords /\ len \in Lengths /\ w_off = tip /\ Holds(w)
      /\ \A x \in Writers : x # w => write[x].pc \notin {"walking", "copying"} /\ ~Holds(x)
    <2>1. write[w] \in WriteRecords /\ len \in Lengths /\ Holds(w)
        BY <1>0, <1>1, <1>2 DEF WritersOK, RecordOK, Holds
    <2>2. \A x \in Writers : x # w => write[x].pc \notin {"walking", "copying"} /\ ~Holds(x)
        BY <1>1, <2>1, OthersFixed
    <2>3. \A x \in Writers : write[x].pc # "copying"
        BY <1>2, <2>2
    <2> QED
        BY <1>1, <2>1, <2>2, <2>3 DEF Aimed
<1>4. r \in Readers /\ p \in 1 .. Len(readers) /\ readers[p] = r /\ Len(readers) \in Nat
    BY <1>1, <1>2, Places
<1>5. next = IF p = Len(readers) THEN NoReader ELSE readers[p + 1]
    BY DEF After
<1>6. write' = [write EXCEPT ![w] = new]
    BY <1>0, <1>1 DEF write_fixes_reader, WritersOK
<1> HIDE DEF p, next
<1>7. readers \in Seq(Readers) /\ r_off \in [Readers -> Offsets]
    BY <1>1 DEF ReadersOK
<1>8. p < Len(readers) => p + 1 \in 1 .. Len(readers) /\ readers[p + 1] \in Readers
    BY <1>4, <1>7
<1>9. next \in Readers \cup {NoReader}
    BY <1>4, <1>5, <1>8
<1>10. RecordOK(new) /\ new.pc = "walking" /\ new.cursor = next /\ new.len = len
    BY <1>0, <1>2, <1>3, <1>9 DEF RecordOK, WriteRecords
<1> HIDE DEF new
<1>11. WritersOK' /\ \A x \in Writers : write'[x] = IF x = w THEN new ELSE write[x]
    <2>1. WritersOK /\ Holds(w)
        BY <1>1, <1>3
    <2> QED
        BY <1>6, <1>10, <2>1, WriterMoves
<1>a. Writing = len /\ Writing' = Writing /\ len # 0
    <2>1. Writing = len
        BY <1>0, <1>1, <1>3, WritingNow DEF WritingShown
    <2>2. Writing' = Writing
        BY <1>0, <1>1, <1>3, <1>10, <1>11, WriterStays
    <2> QED
        BY <1>3, <2>1, <2>2, SizeAssumption DEF Lengths
<1>b. Aimed'
    BY <1>2, <1>3, <1>10, <1>11 DEF Aimed
<1>12. /\ Clear(head, len)
       /\ \A i \in 1 .. Len(readers) : Passed(w, i) => Clear(r_off[readers[i]], len)
    BY <1>0, <1>1, <1>2 DEF AllFixed, Fixed
<1>13. ASSUME NEW i \in 1 .. p - 1 PROVE Passed(w, i)
    <2>1. p \in i + 1 .. Len(readers)
        BY <1>4
    <2> QED
        BY <1>0, <1>4, <2>1 DEF Passed
<1>14. PICK V : LogIs(V)
    BY DEF Sound
<1>15. r_off[r] \in Offsets /\ Back(tip, r_off[r]) \in V
    BY <1>4, <1>7, <1>14 DEF LogIs, Placed
<1>16. r_off'[r] = PulledForward(r_off[r], len) /\ \A s \in Readers : s # r => r_off'[s] = r_off[s]
    BY <1>2, <1>4, <1>7
<1>17. PulledTo(V, r_off[r], len, r_off'[r])
    BY <1>1, <1>3, <1>14, <1>15, <1>16, Pulled DEF LogOK, LogIs
<1>18. r_off' \in [Readers -> Offsets]
    BY <1>2, <1>4, <1>7, <1>16, <1>17 DEF PulledTo
<1>19. LogOK' /\ ReadersOK'
    BY <1>1, <1>2, <1>18 DEF LogOK, ReadersOK, IsOpen
<1>20. \A i \in 1 .. Len(readers) : readers[i] \in Readers /\ (i # p => readers[i] # r)
    BY <1>1, <1>4, <1>7 DEF ReadersOK
<1>21. LogIs(V)'
    <2>1. Placed(V)'
        BY <1>2, <1>4, <1>14, <1>16, <1>17, <1>20 DEF LogIs, Placed, PulledTo
    <2> QED
        BY <1>2, <1>14, <2>1 DEF LogIs
<1>22. AllFixed'
    <2>1. ASSUME NEW x \in Writers, x # w PROVE Fixed(x)'
        BY <1>3, <1>11, <2>1 DEF Fixed
    <2>2. Clear(head, len)'
        BY <1>2, <1>12 DEF Clear
    <2>3. ASSUME NEW i \in 1 .. Len(readers), Passed(w, i)' PROVE Clear(r_off[readers[i]], len)'
        <3>1. i <= p
            <4>1. CASE p = Len(readers)
                BY <1>4, <4>1
            <4>2. CASE p # Len(readers)
                <5>1. p + 1 \in 1 .. Len(readers) /\ write'[w].cursor = readers[p + 1]
                      /\ readers[p + 1] \in Readers
                    BY <1>4, <1>5, <1>8, <1>10, <1>11, <4>2
                <5>2. PICK j \in i + 1 .. Len(readers) : readers[j] = readers[p + 1]
                    BY <1>2, <2>3, <5>1, ReaderAssumption DEF Passed
                <5>3. j \in 1 .. Len(readers) /\ i < j
                    BY <1>4
                <5>4. j = p + 1
                    BY <1>1, <5>1, <5>2, <5>3 DEF ReadersOK
                <5> QED
                    BY <1>4, <5>3, <5>4
            <4> QED
                BY <4>1, <4>2
        <3>2. CASE i = p
            BY <1>2, <1>4, <1>17, <3>2 DEF Clear, PulledTo
        <3>3. CASE i # p
            <4>1. i \in 1 .. p - 1
                BY <1>4, <3>1, <3>3
            <4>2. Clear(r_off[readers[i]], len)
                BY <1>12, <1>13, <4>1
            <4>3. r_off'[readers[i]] = r_off[readers[i]]
                BY <1>16, <1>20, <3>3
            <4> QED
                BY <1>2, <4>2, <4>3 DEF Clear
        <3> QED
            BY <3>2, <3>3
    <2>4. write'[w].len = len
        BY <1>10, <1>11
    <2>5. Fixed(w)'
        BY <1>2, <2>2, <2>3, <2>4 DEF Fixed, Clear
    <2> QED
        BY <2>1, <2>5 DEF AllFixed
<1>23. Sound'
    BY <1>11, <1>19, <1>21, <1>22, <1>b DEF Sound
<1>24. View /\ View'
    BY <1>1, <1>19, Views
<1>25. Start' = Start
    BY <1>2, <1>24 DEF View, Held
<1>26. \A s \in Readers : IsOpen(s)' = IsOpen(s) /\ (s # r => Held(r_off[s])' = Held(r_off[s]))
    BY <1>2, <1>16 DEF Held, IsOpen
<1>27. Given(Held(r_off[r]), len, Held(r_off[r])')
    BY <1>2, <1>17 DEF PulledTo, Held
<1>28. Unread' = [Unread EXCEPT ![r] = Held(r_off[r])'] /\ Unread[r] = Held(r_off[r])
    BY <1>2, <1>4, <1>24, <1>26 DEF View
<1>29. PICK n \in 0 .. Len(Unread[r]) :
          /\ Channel!Gives(Unread[r], len, n)
          /\ Unread' = [Unread EXCEPT ![r] = Channel!Without(Unread[r], n)]
    BY <1>27, <1>28 DEF Given
<1>30. Channel!Lose(r)
    <2>1. r \in ToSet(readers)
        BY <1>2 DEF IsOpen
    <2> QED
        BY <1>2, <1>25, <1>29, <1>a, <2>1 DEF Channel!Lose, Unread, Start, Writing
<1> QED
    BY <1>2, <1>4, <1>23, <1>30 DEF Implemented, Invariant, Channel!Next

\* The writer that copies has fixed up head and every reader.
Copies(w) == (write[w].pc = "walking" /\ write[w].cursor = NoReader) \/ write[w].pc = "copying"

\* Nothing that is unread is in its way.
LEMMA AllClear ==
    ASSUME Sound, NEW w \in Writers, Copies(w)
    PROVE  /\ write[w].len \in Lengths /\ Holds(w)
           /\ Clear(head, write[w].len)
           /\ \A r \in Readers : IsOpen(r) => Clear(r_off[r], write[w].len)
<1>1. WritersOK /\ ReadersOK /\ Fixed(w)
    BY DEF Sound, AllFixed
<1>2. write[w].len \in Lengths /\ write[w].cursor = NoReader /\ Holds(w)
    BY <1>1 DEF WritersOK, RecordOK, Copies, Holds
<1>3. /\ Clear(head, write[w].len)
      /\ \A i \in 1 .. Len(readers) : Clear(r_off[readers[i]], write[w].len)
    BY <1>1, <1>2 DEF Fixed, Passed, Copies
<1>4. \A r \in Readers : IsOpen(r) => Clear(r_off[r], write[w].len)
    BY <1>1, <1>3, OpenIs
<1> QED
    BY <1>2, <1>3, <1>4

\* The offset of an open reader is where an entry begins.
LEMMA PlacedOpen ==
    ASSUME ReadersOK, NEW V, Placed(V), NEW r \in Readers, IsOpen(r)
    PROVE  Back(tip, r_off[r]) \in V
BY OpenIs DEF Placed

\* A copy of count cells to w_off, which is done cells behind the end of the log.
LEMMA StoredCells ==
    ASSUME LogOK, NEW len \in Lengths, NEW done \in 0 .. len, NEW count \in 0 .. len - done,
           w_off = logger_offset(tip + done), NEW cell \in Cells, NEW c, c = Stored(count, cell)
    PROVE  /\ c \in Contents /\ Beside(buffer, c, tip, len)
           /\ \A i \in Offsets :
                 c[i] = IF Back(i, tip) < done \/ Back(i, tip) >= done + count
                        THEN buffer[i] ELSE cell
           /\ logger_offset(w_off + count) \in Offsets
           /\ logger_offset(w_off + count) = logger_offset(tip + (done + count))
<1>1. buffer \in Contents /\ tip \in Offsets /\ w_off \in Offsets
    BY DEF LogOK
<1>2. len \in Nat /\ done \in Nat /\ count \in Nat /\ done + count <= len /\ 2 * len <= Size
    BY SizeAssumption DEF Lengths
<1>3. w_off = IF tip + done < Size THEN tip + done ELSE tip + done - Size
    <2> DEFINE n == tip + done
    <2>1. n \in 0 .. 2 * Size - 1
        BY <1>1, <1>2, SizeAssumption DEF Offsets
    <2> HIDE DEF n
    <2>2. logger_offset(n) = IF n < Size THEN n ELSE n - Size
        BY <2>1, Wrap
    <2>3. w_off = logger_offset(n)
        BY DEF n
    <2>4. w_off = IF n < Size THEN n ELSE n - Size
        BY <2>2, <2>3
    <2> QED
        BY <1>1, <1>2, <2>4, SizeAssumption DEF n, Offsets
<1>4. ASSUME NEW i \in Offsets
      PROVE  /\ c[i] = IF Back(i, w_off) < count THEN cell ELSE buffer[i]
             /\ c[i] \in Cells
    <2>1. logger_offset(i + Size - w_off) = Back(i, w_off)
        BY <1>1, Ahead
    <2>2. c[i] = IF logger_offset(i + Size - w_off) < count THEN cell ELSE buffer[i]
        BY DEF Stored
    <2>3. buffer[i] \in Cells
        BY <1>1 DEF Contents
    <2> QED
        BY <2>1, <2>2, <2>3
<1>5. c \in Contents
    BY <1>4 DEF Contents, Stored
<1>6. ASSUME NEW i \in Offsets
      PROVE  Back(i, w_off) < count <=> ~(Back(i, tip) < done \/ Back(i, tip) >= done + count)
    <2>1. CASE tip + done < Size
        BY <1>1, <1>2, <1>3, <2>1, SizeAssumption DEF Offsets, Back
    <2>2. CASE ~(tip + done < Size)
        BY <1>1, <1>2, <1>3, <2>2, SizeAssumption DEF Offsets, Back
    <2> QED
        BY <2>1, <2>2
<1>7. \A i \in Offsets :
          c[i] = IF Back(i, tip) < done \/ Back(i, tip) >= done + count THEN buffer[i] ELSE cell
    BY <1>4, <1>6
<1>8. Beside(buffer, c, tip, len)
    <2>1. \A i \in Offsets : Back(i, tip) \in Nat
        BY <1>1, Ahead, SizeAssumption DEF Offsets
    <2>2. \A i \in Offsets : Back(i, tip) >= len => Back(i, tip) >= done + count
        BY <1>2, <2>1
    <2> QED
        BY <1>7, <2>2 DEF Beside
<1>9. /\ logger_offset(w_off + count) \in Offsets
      /\ logger_offset(w_off + count) = logger_offset(tip + (done + count))
    <2> DEFINE n == w_off + count
               m == tip + (done + count)
    <2>1. n \in 0 .. 2 * Size - 1 /\ m \in 0 .. 2 * Size - 1
        BY <1>1, <1>2, SizeAssumption DEF Offsets
    <2>2. (IF n < Size THEN n ELSE n - Size) = (IF m < Size THEN m ELSE m - Size)
        BY <1>1, <1>2, <1>3, SizeAssumption DEF Offsets
    <2> HIDE DEF n, m
    <2>3. /\ logger_offset(n) = IF n < Size THEN n ELSE n - Size
          /\ logger_offset(m) = IF m < Size THEN m ELSE m - Size
        BY <2>1, Wrap
    <2>4. logger_offset(n) \in Offsets
        BY <2>1, <2>3, SizeAssumption DEF Offsets
    <2> QED
        BY <2>2, <2>3, <2>4 DEF n, m
<1> QED
    BY <1>5, <1>7, <1>8, <1>9

\* Part of an entry is copied: what there is to read stays.
LEMMA PartWritten ==
    ASSUME Sound, ~undone, undone \in BOOLEAN, NEW w \in Writers, Copies(w),
           buffer' \in Contents, Beside(buffer, buffer', tip, write[w].len), w_off' \in Offsets,
           UNCHANGED <<head, written, tip, undone, readers, r_off, read>>,
           WritersOK', AllFixed', Aimed'
    PROVE  Invariant' /\ Unread' = Unread /\ Start' = Start
<1>0. PICK len : len = write[w].len
    OBVIOUS
<1>1. LogOK /\ WritersOK /\ ReadersOK
    BY DEF Sound
<1>2. len \in Lengths /\ Clear(head, len) /\ \A r \in Readers : IsOpen(r) => Clear(r_off[r], len)
    BY <1>0, AllClear
<1>3. PICK V : LogIs(V)
    BY DEF Sound
<1> DEFINE G == Shrunk(V, len)
<1>4. Same(buffer, tip, V, buffer', written, len)
    BY <1>0, <1>1, <1>2, <1>3, Untouched DEF LogOK, LogIs
<1>5. /\ Chain(buffer', tip, G) /\ Numbered(buffer', tip, G, written)
      /\ \A d \in G : RestOf(buffer', tip)[d] = RestOf(buffer, tip)[d]
    BY <1>4 DEF Same
<1>6. LogOK' /\ ReadersOK'
    BY <1>1 DEF LogOK, ReadersOK, IsOpen
<1>7. Back(tip, head) \in G
    BY <1>2, <1>3 DEF LogIs, Placed, Clear, Shrunk
<1>8. \A r \in Readers : IsOpen(r) => Back(tip, r_off[r]) \in G
    BY <1>1, <1>2, <1>3, PlacedOpen DEF LogIs, Clear, Shrunk
<1> HIDE DEF G
<1>9. Placed(G)'
    <2>1. ASSUME NEW i \in 1 .. Len(readers) PROVE Back(tip, r_off[readers[i]]) \in G
        <3>1. readers[i] \in Readers /\ IsOpen(readers[i])
            BY <1>1, OpenIs DEF ReadersOK
        <3> QED
            BY <1>8, <3>1
    <2> QED
        BY <1>7, <2>1 DEF Placed
<1>10. LogIs(G)'
    BY <1>5, <1>9 DEF LogIs
<1>11. Sound'
    BY <1>6, <1>10 DEF Sound
<1>12. View /\ View'
    BY <1>1, <1>6, Views
<1>13. /\ Held(head)' = Held(head)
       /\ \A r \in Readers : /\ IsOpen(r)' = IsOpen(r)
                             /\ IsOpen(r) => Held(r_off[r])' = Held(r_off[r])
    BY <1>5, <1>7, <1>8 DEF Held, IsOpen
<1>14. Unread' = Unread /\ Start' = Start
    BY <1>12, <1>13 DEF View
<1> QED
    BY <1>11, <1>14 DEF Invariant

\* Where the writer that copies is, and what it has copied.
LEMMA CopyPlace ==
    ASSUME Sound, NEW w \in Writers, write[w].pc = "copying"
    PROVE  /\ write[w].len \in Lengths /\ write[w].done \in 1 .. write[w].len - 1
           /\ w_off = logger_offset(tip + write[w].done)
           /\ Begun(buffer, tip, written + 1, write[w].len, write[w].done)
           /\ write[w] \in WriteRecords /\ Holds(w)
BY DEF Sound, WritersOK, RecordOK, Aimed, Holds

\* The writer copies more of its entry: the invariant.
LEMMA CopyGoesOn ==
    ASSUME Sound, ~undone, undone \in BOOLEAN, NEW w \in Writers, Copies(w), NEW new, RecordOK(new),
           new.pc = "copying", new.len = write[w].len, write' = [write EXCEPT ![w] = new],
           buffer' \in Contents, Beside(buffer, buffer', tip, new.len), w_off' \in Offsets,
           w_off' = logger_offset(tip + new.done),
           Begun(buffer', tip, written + 1, new.len, new.done),
           UNCHANGED <<head, written, tip, undone, readers, r_off, read>>
    PROVE  Implemented
<1>1. WritersOK /\ AllFixed
    BY DEF Sound
<1>2. /\ Holds(w) /\ Clear(head, new.len)
      /\ \A r \in Readers : IsOpen(r) => Clear(r_off[r], new.len)
    BY AllClear
<1>3. WritersOK' /\ \A x \in Writers : write'[x] = IF x = w THEN new ELSE write[x]
    BY <1>1, <1>2, WriterMoves
<1>4. Writing' = Writing
    BY <1>1, <1>2, <1>3, WriterStays
<1>5. \A x \in Writers : x # w => write[x].pc \notin {"walking", "copying"}
    BY <1>1, <1>2, OthersFixed
<1>6. AllFixed'
    <2>1. ASSUME NEW x \in Writers, x # w PROVE Fixed(x)'
        BY <1>3, <1>5, <2>1 DEF Fixed
    <2>2. Clear(head, new.len)'
        BY <1>2 DEF Clear
    <2>3. \A i \in 1 .. Len(readers) : Clear(r_off[readers[i]], new.len)
        <3>1. \A i \in 1 .. Len(readers) : readers[i] \in Readers /\ IsOpen(readers[i])
            BY OpenIs DEF Sound, ReadersOK
        <3> QED
            BY <1>2, <3>1
    <2>4. write'[w].len = new.len
        BY <1>3
    <2>5. Fixed(w)'
        BY <2>2, <2>3, <2>4 DEF Fixed, Clear
    <2> QED
        BY <2>1, <2>5 DEF AllFixed
<1>7. Aimed'
    <2>1. write'[w].pc = "copying"
        BY <1>3
    <2>2. ASSUME NEW x \in Writers, write'[x].pc = "copying" PROVE write'[x] = new
        BY <1>3, <1>5, <2>2
    <2> QED
        BY <2>1, <2>2 DEF Aimed
<1>8. Invariant' /\ Unread' = Unread /\ Start' = Start
    BY <1>3, <1>6, <1>7, PartWritten
<1> QED
    BY <1>4, <1>8, ChannelStutters DEF Implemented

\* The header of the entry.
LEMMA HeaderImplemented ==
    ASSUME Sound, ~undone, undone \in BOOLEAN, NEW w \in Writers, write_header(w)
    PROVE  Implemented
<1>0. PICK len, cell : len = write[w].len /\ cell = Header(written + 1, len)
    OBVIOUS
<1> DEFINE new == [write[w] EXCEPT !.pc = "copying", !.done = 1]
<1>1. LogOK /\ WritersOK /\ Aimed
    BY DEF Sound
<1>2. /\ write[w].pc = "walking" /\ write[w].cursor = NoReader /\ Copies(w)
      /\ buffer' = Stored(1, cell) /\ w_off' = logger_offset(w_off + 1)
      /\ UNCHANGED <<head, written, tip, undone, readers, r_off, read>>
    BY <1>0 DEF write_header, Copies, readerVars
<1>3. write' = [write EXCEPT ![w] = new]
    BY <1>1 DEF write_header, WritersOK
<1>4. len \in Lengths /\ Holds(w) /\ write[w] \in WriteRecords
    BY <1>0, <1>1, <1>2, AllClear DEF WritersOK
<1>5. len \in Nat /\ len >= 2 /\ 1 \in 0 .. len - 0 /\ 0 \in 0 .. len /\ 1 \in 1 .. len - 1
    BY <1>4, SizeAssumption DEF Lengths
<1>6. w_off = tip
    <2>1. \A x \in Writers : x # w => write[x].pc # "copying"
        BY <1>1, <1>4, OthersFixed
    <2> QED
        BY <1>1, <1>2, <2>1 DEF Aimed
<1>7. w_off = logger_offset(tip + 0)
    BY <1>1, <1>6, SizeAssumption DEF LogOK, logger_offset, Offsets
<1>8. RecordOK(new) /\ new.pc = "copying" /\ new.len = len /\ new.done = 1
    BY <1>0, <1>2, <1>4, <1>5 DEF RecordOK, WriteRecords, WritePlaces
<1> HIDE DEF new
<1>9. cell \in Cells
    BY <1>0, <1>1, <1>5 DEF Header, Cells, LogOK
<1>10. /\ buffer' \in Contents /\ Beside(buffer, buffer', tip, len)
       /\ \A i \in Offsets :
             buffer'[i] = IF Back(i, tip) < 0 \/ Back(i, tip) >= 0 + 1 THEN buffer[i] ELSE cell
       /\ logger_offset(w_off + 1) \in Offsets
       /\ logger_offset(w_off + 1) = logger_offset(tip + (0 + 1))
    BY <1>1, <1>2, <1>4, <1>5, <1>7, <1>9, StoredCells
<1>11. w_off' \in Offsets /\ w_off' = logger_offset(tip + new.done)
    <2>1. 0 + 1 = new.done
        BY <1>8
    <2> QED
        BY <1>2, <1>10, <2>1
<1>12. Begun(buffer', tip, written + 1, new.len, new.done)
    <2>1. ASSUME NEW i \in Offsets, Back(i, tip) < 1
          PROVE  buffer'[i] = NewCell(written + 1, len, Back(i, tip))
        <3>1. Back(i, tip) \in Nat
            BY <1>1, Ahead, SizeAssumption DEF LogOK, Offsets
        <3>2. Back(i, tip) = 0 /\ ~(Back(i, tip) < 0 \/ Back(i, tip) >= 0 + 1)
            BY <2>1, <3>1
        <3>3. buffer'[i] = cell
            BY <1>10, <3>2
        <3> QED
            BY <1>0, <3>2, <3>3 DEF NewCell
    <2> QED
        BY <1>8, <2>1 DEF Begun
<1> QED
    BY <1>0, <1>2, <1>3, <1>8, <1>10, <1>11, <1>12, CopyGoesOn

\* What a segment of the payload leaves in the buffer.
LEMMA SegmentCopied ==
    ASSUME Sound, NEW w \in Writers, NEW n, Segment(w, n)
    PROVE  LET len == write[w].len
               done == write[w].done
           IN  /\ len \in Lengths /\ done \in 1 .. len - 1 /\ n \in 1 .. len - done
               /\ buffer' \in Contents /\ Beside(buffer, buffer', tip, len)
               /\ Begun(buffer', tip, written + 1, len, done + n)
               /\ w_off' \in Offsets /\ w_off' = logger_offset(tip + (done + n))
<1>0. PICK len, done, cell : len = write[w].len /\ done = write[w].done /\ cell = Payload(written + 1)
    OBVIOUS
<1>1. /\ write[w].pc = "copying" /\ n \in 1 .. len - done
      /\ buffer' = Stored(n, cell) /\ w_off' = logger_offset(w_off + n)
    BY <1>0 DEF Segment
<1>2. /\ len \in Lengths /\ done \in 1 .. len - 1 /\ w_off = logger_offset(tip + done)
      /\ Begun(buffer, tip, written + 1, len, done)
    BY <1>0, <1>1, CopyPlace
<1>3. LogOK /\ done \in 0 .. len /\ n \in 0 .. len - done /\ len \in Nat /\ done \in Nat /\ n \in Nat
    BY <1>1, <1>2, SizeAssumption DEF Sound, Lengths
<1>4. cell \in Cells
    BY <1>0, <1>3 DEF Payload, Cells, LogOK
<1>5. /\ buffer' \in Contents /\ Beside(buffer, buffer', tip, len)
      /\ \A i \in Offsets :
            buffer'[i] = IF Back(i, tip) < done \/ Back(i, tip) >= done + n THEN buffer[i] ELSE cell
      /\ logger_offset(w_off + n) \in Offsets
      /\ logger_offset(w_off + n) = logger_offset(tip + (done + n))
    BY <1>1, <1>2, <1>3, <1>4, StoredCells
<1>6. Begun(buffer', tip, written + 1, len, done + n)
    <2>1. ASSUME NEW i \in Offsets, Back(i, tip) < done + n
          PROVE  buffer'[i] = NewCell(written + 1, len, Back(i, tip))
        <3>1. Back(i, tip) \in Nat
            BY <1>3, Ahead, SizeAssumption DEF LogOK, Offsets
        <3>2. CASE Back(i, tip) < done
            BY <1>2, <1>5, <3>2 DEF Begun
        <3>3. CASE ~(Back(i, tip) < done)
            <4>1. buffer'[i] = cell
                BY <1>3, <1>5, <2>1, <3>1, <3>3
            <4>2. Back(i, tip) # 0
                BY <1>2, <3>1, <3>3
            <4> QED
                BY <1>0, <4>1, <4>2 DEF NewCell
        <3> QED
            BY <3>2, <3>3
    <2> QED
        BY <2>1 DEF Begun
<1> QED
    BY <1>0, <1>1, <1>2, <1>5, <1>6

\* A segment that is not the last one.
LEMMA SegmentImplemented ==
    ASSUME Sound, ~undone, undone \in BOOLEAN, NEW w \in Writers, NEW n, write_segment(w, n)
    PROVE  Implemented
<1>0. PICK len, done : len = write[w].len /\ done = write[w].done
    OBVIOUS
<1> DEFINE new == [write[w] EXCEPT !.done = done + n]
<1>1. WritersOK
    BY DEF Sound
<1>2. /\ Segment(w, n) /\ write[w].pc = "copying" /\ Copies(w) /\ done + n < len
      /\ UNCHANGED <<head, written, tip, undone, readers, r_off, read>>
    BY <1>0 DEF write_segment, Segment, Copies, readerVars
<1>3. write' = [write EXCEPT ![w] = new]
    BY <1>0, <1>1 DEF write_segment, WritersOK
<1>4. /\ len \in Lengths /\ done \in 1 .. len - 1 /\ n \in 1 .. len - done
      /\ buffer' \in Contents /\ Beside(buffer, buffer', tip, len)
      /\ Begun(buffer', tip, written + 1, len, done + n)
      /\ w_off' \in Offsets /\ w_off' = logger_offset(tip + (done + n))
    BY <1>0, <1>2, SegmentCopied
<1>5. done + n \in 1 .. len - 1 /\ done + n \in Nat
    BY <1>2, <1>4, SizeAssumption DEF Lengths
<1>6. write[w] \in WriteRecords /\ RecordOK(write[w])
    BY <1>1 DEF WritersOK
<1>7. RecordOK(new) /\ new.pc = "copying" /\ new.len = len /\ new.done = done + n
    BY <1>0, <1>2, <1>4, <1>5, <1>6 DEF RecordOK, WriteRecords
<1> HIDE DEF new
<1> QED
    BY <1>0, <1>2, <1>3, <1>4, <1>7, CopyGoesOn

\* The entry is in the log: every open reader has one more to read.
LEMMA EndsImplemented ==
    ASSUME Sound, ~undone, undone \in BOOLEAN, NEW w \in Writers, NEW k, write_ends(w, k)
    PROVE  Implemented
<1>0. PICK len, n : len = write[w].len /\ n = written + 1
    OBVIOUS
<1> DEFINE new == [Idle EXCEPT !.pc = "unlocked"]
<1>1. LogOK /\ WritersOK /\ ReadersOK /\ AllFixed
    BY DEF Sound
<1>2. /\ Segment(w, k) /\ write[w].pc = "copying" /\ Copies(w) /\ write[w].done + k = len
      /\ tip' = w_off' /\ written' = written + len
      /\ UNCHANGED <<head, undone, readers, r_off, read>>
    BY <1>0 DEF write_ends, Segment, Copies, readerVars
<1>3. write' = [write EXCEPT ![w] = new]
    BY DEF write_ends
<1>4. RecordOK(new) /\ new.pc = "unlocked"
    BY DEF RecordOK, WriteRecords, WritePlaces, Idle
<1> HIDE DEF new
<1>5. WritersOK' /\ \A x \in Writers : write'[x] = IF x = w THEN new ELSE write[x]
    BY <1>1, <1>3, <1>4, WriterMoves
<1>6. /\ len \in Lengths /\ Holds(w) /\ Clear(head, len)
      /\ \A r \in Readers : IsOpen(r) => Clear(r_off[r], len)
    BY <1>0, <1>2, AllClear
<1>a. \A x \in Writers : x # w => write[x].pc \notin {"walking", "copying"} /\ ~Holds(x)
    BY <1>1, <1>6, OthersFixed
<1>b. MutexFree' /\ \A x \in Writers : write'[x].pc \notin {"walking", "copying"}
    <2>1. \A x \in Writers : write'[x].pc \notin {"walking", "copying", "oops"}
        BY <1>4, <1>5, <1>a DEF Holds
    <2> QED
        BY <2>1 DEF MutexFree, Holds
<1>c. Writing = len /\ Writing' = 0 /\ len # 0
    <2>1. Writing = len
        BY <1>0, <1>1, <1>6, WritingNow DEF WritingShown
    <2>2. Writing' = 0
        BY <1>5, <1>b, WritingNext DEF WritingShown
    <2> QED
        BY <1>6, <2>1, <2>2, SizeAssumption DEF Lengths
<1>7. PICK V : LogIs(V)
    BY DEF Sound
<1>8. n \in Nat /\ buffer \in Contents /\ tip \in Offsets /\ head \in Offsets /\ written \in Nat
    BY <1>0, <1>1 DEF LogOK
<1>d. /\ buffer' \in Contents /\ Beside(buffer, buffer', tip, len)
      /\ Begun(buffer', tip, written + 1, len, len) /\ tip' = logger_offset(tip + len)
      /\ w_off' \in Offsets
    BY <1>0, <1>2, SegmentCopied
<1>9. Longer(buffer, tip, V, buffer', tip', written, len)
    BY <1>6, <1>7, <1>8, <1>d, Copied DEF LogIs
<1> DEFINE G == Grown(V, len)
<1>10. /\ tip' \in Offsets /\ Chain(buffer', tip', G) /\ Numbered(buffer', tip', G, written')
       /\ written' \in Nat
    BY <1>2, <1>6, <1>8, <1>9, SizeAssumption DEF Longer, Lengths
<1>11. ASSUME NEW off \in Offsets, Back(tip, off) \in V, Clear(off, len)
       PROVE  /\ Back(tip', off) \in G
              /\ RestOf(buffer', tip')[Back(tip', off)]
                    = Append(RestOf(buffer, tip)[Back(tip, off)], n)
    BY <1>0, <1>9, <1>11 DEF Longer, Clear
<1> HIDE DEF G
<1>12. LogOK' /\ ReadersOK'
    BY <1>1, <1>2, <1>8, <1>10, <1>d DEF LogOK, ReadersOK, IsOpen
<1>13. AllFixed' /\ Aimed'
    BY <1>2, <1>b DEF AllFixed, Fixed, Aimed
<1>14. \A r \in Readers : IsOpen(r) =>
           r_off[r] \in Offsets /\ Back(tip, r_off[r]) \in V /\ Clear(r_off[r], len)
    BY <1>1, <1>6, <1>7, PlacedOpen DEF ReadersOK, LogIs
<1>15. Back(tip, head) \in V
    BY <1>7 DEF LogIs, Placed
<1>16. Placed(G)'
    <2>1. Back(tip', head) \in G
        BY <1>6, <1>8, <1>11, <1>15
    <2>2. ASSUME NEW i \in 1 .. Len(readers) PROVE Back(tip', r_off[readers[i]]) \in G
        <3>1. readers[i] \in Readers /\ IsOpen(readers[i])
            BY <1>1, OpenIs DEF ReadersOK
        <3> QED
            BY <1>11, <1>14, <3>1
    <2> QED
        BY <1>2, <2>1, <2>2 DEF Placed
<1>17. Sound'
    <2>1. LogIs(G)'
        BY <1>10, <1>16 DEF LogIs
    <2> QED
        BY <1>5, <1>12, <1>13, <2>1 DEF Sound
<1>18. View /\ View'
    BY <1>1, <1>12, Views
<1>19. Start' = Append(Start, n)
    <2>1. Start = RestOf(buffer, tip)[Back(tip, head)]
        BY <1>18 DEF View, Held
    <2>2. Start' = RestOf(buffer', tip')[Back(tip', head)]
        BY <1>2, <1>18 DEF View, Held
    <2> QED
        BY <1>6, <1>8, <1>11, <1>15, <2>1, <2>2
<1>20. \A r \in Readers :
           /\ IsOpen(r)' = IsOpen(r)
           /\ IsOpen(r) => Held(r_off[r])' = Append(Held(r_off[r]), n)
    BY <1>2, <1>11, <1>14 DEF Held, IsOpen
<1>21. Unread' = [r \in Readers |-> IF r \in ToSet(readers) THEN Append(Unread[r], n) ELSE <<>>]
    BY <1>18, <1>20 DEF View, IsOpen
<1>22. Channel!Fits(Start, len) /\ \A r \in ToSet(readers) : Channel!Fits(Unread[r], len)
    <2>1. ASSUME NEW off \in Offsets, Back(tip, off) \in V, Clear(off, len)
          PROVE  Channel!Fits(Held(off), len)
        <3>1. Back(tip, off) + len < Size
            BY <2>1 DEF Clear
        <3>2. Channel!Fits(RestOf(buffer, tip)[Back(tip, off)], len)
            BY <1>6, <1>7, <1>8, <2>1, <3>1, FitsIs DEF LogIs
        <3> QED
            BY <3>2 DEF Held
    <2>2. Channel!Fits(Held(head), len)
        BY <1>6, <1>8, <1>15, <2>1
    <2>3. ASSUME NEW r \in ToSet(readers) PROVE Channel!Fits(Unread[r], len)
        <3>1. IsOpen(r) /\ r \in Readers
            BY <1>1, <2>3, Places DEF IsOpen
        <3>2. Channel!Fits(Held(r_off[r]), len)
            BY <1>14, <2>1, <3>1
        <3> QED
            BY <1>18, <3>1, <3>2 DEF View
    <2> QED
        BY <1>18, <2>2, <2>3 DEF View
<1>23. Channel!Write
    BY <1>0, <1>2, <1>19, <1>21, <1>22, <1>c DEF Channel!Write, Unread, Start, Writing
<1> QED
    BY <1>2, <1>17, <1>23 DEF Implemented, Invariant, Channel!Next

\* A fault leaves what there is to read alone, or w_off at a wrong offset.
LEMMA FaultsImplemented ==
    ASSUME Sound, ~undone, undone \in BOOLEAN, NEW w \in Writers, write_faults(w)
    PROVE  Implemented
<1>1. CASE w_off' # tip
    <2>1. undone' = TRUE
        BY <1>1 DEF write_faults
    <2> QED
        BY <2>1 DEF Implemented, Invariant
<1>2. CASE w_off' = tip
    <2>0. PICK len, done : len = write[w].len /\ done = write[w].done
        OBVIOUS
    <2>1. LogOK /\ WritersOK /\ ReadersOK /\ AllFixed
        BY DEF Sound
    <2>2. /\ write[w].pc = "copying" /\ Copies(w)
          /\ undone' = undone /\ write' = [write EXCEPT ![w] = Idle]
          /\ UNCHANGED <<head, written, tip, readers, r_off, read>>
        BY <1>2 DEF write_faults, CopyFails, Copies, readerVars
    <2>3. PICK n \in 0 .. len - done : buffer' = Stored(n, Junk)
        BY <2>0 DEF write_faults, CopyFails
    <2>4. RecordOK(Idle) /\ Idle.pc = "idle"
        BY DEF RecordOK, WriteRecords, WritePlaces, Idle
    <2>5. WritersOK' /\ \A x \in Writers : write'[x] = IF x = w THEN Idle ELSE write[x]
        BY <2>1, <2>2, <2>4, WriterMoves
    <2>6. len \in Lengths /\ done \in 1 .. len - 1 /\ w_off = logger_offset(tip + done) /\ Holds(w)
        BY <2>0, <2>2, CopyPlace
    <2>7. done \in 0 .. len /\ Junk \in Cells
        BY <2>6, SizeAssumption DEF Lengths, Junk, Cells
    <2>8. buffer' \in Contents /\ Beside(buffer, buffer', tip, len)
        BY <2>1, <2>3, <2>6, <2>7, StoredCells
    <2>9. \A x \in Writers : x # w => write[x].pc \notin {"walking", "copying"} /\ ~Holds(x)
        BY <2>1, <2>6, OthersFixed
    <2>10. MutexFree' /\ \A x \in Writers : write'[x].pc \notin {"walking", "copying"}
        <3>1. \A x \in Writers : write'[x].pc \notin {"walking", "copying", "oops"}
            BY <2>4, <2>5, <2>9 DEF Holds
        <3> QED
            BY <3>1 DEF MutexFree, Holds
    <2>11. AllFixed' /\ Aimed' /\ w_off' \in Offsets
        BY <1>2, <2>1, <2>2, <2>10 DEF AllFixed, Fixed, Aimed, LogOK
    <2>12. Invariant' /\ Unread' = Unread /\ Start' = Start
        BY <2>0, <2>2, <2>5, <2>8, <2>11, PartWritten
    <2>13. Writing # 0 /\ Writing' = 0
        <3>1. Writing = len
            BY <2>0, <2>1, <2>6, WritingNow DEF WritingShown
        <3>2. Writing' = 0
            BY <2>5, <2>10, WritingNext DEF WritingShown
        <3> QED
            BY <2>6, <3>1, <3>2, SizeAssumption DEF Lengths
    <2>14. Channel!Abort
        BY <2>2, <2>12, <2>13 DEF Channel!Abort, Unread, Start, Writing
    <2> QED
        BY <2>12, <2>14 DEF Implemented, Channel!Next
<1> QED
    BY <1>1, <1>2

-----------------------------------------------------------------------------
(***************************************************************************)
(* The readers' steps.                                                     *)
(***************************************************************************)
\* A step of a reader or of a flush, without the mutex' being held.
LEMMA QuietMutex ==
    ASSUME WritersOK, AllFixed, Aimed, MutexFree,
           UNCHANGED <<buffer, w_off, written, tip, write>>
    PROVE  /\ WritersOK' /\ AllFixed' /\ Aimed' /\ w_off = tip
           /\ Writing = 0 /\ Writing' = 0
<1>1. \A w \in Writers : write[w].pc \notin {"walking", "copying", "oops"}
    BY DEF MutexFree, Holds
<1>2. MutexFree' /\ WritersOK'
    BY <1>1 DEF MutexFree, WritersOK, Holds
<1>3. AllFixed' /\ Aimed' /\ w_off = tip
    BY <1>1 DEF AllFixed, Fixed, Aimed
<1>4. Writing = 0 /\ Writing' = 0
    BY <1>2, WritingNow, WritingNext DEF WritingShown
<1> QED
    BY <1>2, <1>3, <1>4

LEMMA TakesImplemented ==
    ASSUME Sound, ~undone, undone \in BOOLEAN, NEW r \in Readers, read_takes(r)
    PROVE  Implemented
<1>0. PICK off : off = r_off[r]
    OBVIOUS
<1>1. LogOK /\ WritersOK /\ ReadersOK /\ AllFixed /\ Aimed
    BY DEF Sound
<1>2. /\ read[r] = "ready" /\ MutexFree /\ w_off # off
      /\ r_off' = [r_off EXCEPT ![r] = logger_offset(off + buffer[off].len)]
      /\ read' = [read EXCEPT ![r] = "idle"]
      /\ UNCHANGED <<buffer, w_off, head, written, tip, undone, readers, write>>
    BY <1>0 DEF read_takes, HasData, get_entry_len, logVars
<1>a. WritersOK' /\ AllFixed' /\ Aimed' /\ w_off = tip /\ Writing = 0 /\ Writing' = 0
    BY <1>1, <1>2, QuietMutex
<1>3. IsOpen(r) /\ off \in Offsets
    BY <1>0, <1>1, <1>2 DEF ReadersOK
<1>4. PICK V : LogIs(V)
    BY DEF Sound
<1> DEFINE d == Back(tip, off)
           l == Cell(buffer, tip, d).len
           y == Cell(buffer, tip, d).entry
           R == RestOf(buffer, tip)
<1>5. buffer \in Contents /\ tip \in Offsets /\ d \in V /\ d \in Offsets /\ Back(tip, d) = off
    BY <1>0, <1>1, <1>3, <1>4, PlacedOpen, BackBack DEF LogOK, LogIs
<1>6. d # 0
    BY <1>2, <1>5, <1>a, SizeAssumption DEF Back, Offsets
<1>7. buffer[off].len = l
    BY <1>5 DEF Cell
<1> HIDE DEF d
<1>8. l \in 1 .. d /\ y \in Nat /\ d - l \in V /\ R[d - l] \in Seq(Nat) /\ R[d] = <<y>> \o R[d - l]
    BY <1>4, <1>5, <1>6, ChainStep DEF LogIs
<1> HIDE DEF l, y
<1>9. logger_offset(off + l) = Back(tip, d - l)
    <2>1. l \in 0 .. d
        BY <1>8
    <2> QED
        BY <1>5, <2>1, BackMoves
<1>10. d - l \in Offsets
    BY <1>4, <1>8 DEF LogIs, Chain
<1>11. PICK new : new = logger_offset(off + l)
    OBVIOUS
<1>12. new \in Offsets /\ Back(tip, new) = d - l
    BY <1>5, <1>9, <1>10, <1>11, BackBack
<1>13. r_off' = [r_off EXCEPT ![r] = new] /\ r_off \in [Readers -> Offsets]
    BY <1>1, <1>2, <1>7, <1>11 DEF ReadersOK
<1>14. r_off'[r] = new /\ \A s \in Readers : s # r => r_off'[s] = r_off[s]
    BY <1>13
<1>15. r_off' \in [Readers -> Offsets] /\ read' \in [Readers -> ReadPlaces]
    BY <1>1, <1>2, <1>12, <1>13 DEF ReadersOK, ReadPlaces
<1>16. ReadersOK'
    <2>1. \A s \in Readers : read'[s] # "idle" => IsOpen(s)'
        BY <1>1, <1>2 DEF ReadersOK, IsOpen
    <2> QED
        BY <1>1, <1>2, <1>15, <2>1 DEF ReadersOK
<1>17. LogOK'
    BY <1>1, <1>2 DEF LogOK
<1>19. Placed(V)'
    <2>1. ASSUME NEW i \in 1 .. Len(readers) PROVE Back(tip, r_off'[readers[i]]) \in V
        <3>1. readers[i] \in Readers
            BY <1>1 DEF ReadersOK
        <3> QED
            BY <1>4, <1>8, <1>12, <1>14, <3>1 DEF LogIs, Placed
    <2> QED
        BY <1>2, <1>4, <2>1 DEF LogIs, Placed
<1>20. Sound'
    <2>1. LogIs(V)'
        BY <1>2, <1>4, <1>19 DEF LogIs
    <2> QED
        BY <1>16, <1>17, <1>a, <2>1 DEF Sound
<1>21. View /\ View'
    BY <1>1, <1>16, <1>17, Views
<1>22. Start' = Start
    BY <1>2, <1>21 DEF View, Held
<1>23. Held(off) = R[d] /\ Held(r_off[r])' = R[d - l]
    BY <1>2, <1>12, <1>14 DEF Held, d
<1> HIDE DEF R
<1>24. Tail(R[d]) = R[d - l] /\ R[d] # <<>>
    <2> DEFINE u == R[d - l]
    <2>1. y \in Nat /\ u \in Seq(Nat) /\ R[d] = <<y>> \o u
        BY <1>8
    <2> HIDE DEF u
    <2>2. Tail(<<y>> \o u) = u /\ <<y>> \o u # <<>>
        BY <2>1, Consed
    <2> QED
        BY <2>1, <2>2 DEF u
<1>25. \A s \in Readers : IsOpen(s)' = IsOpen(s) /\ (s # r => Held(r_off[s])' = Held(r_off[s]))
    BY <1>2, <1>14 DEF Held, IsOpen
<1>26. Unread[r] = R[d]
    BY <1>0, <1>3, <1>21, <1>23 DEF View
<1>27. Unread' = [Unread EXCEPT ![r] = Tail(Unread[r])]
    BY <1>3, <1>21, <1>23, <1>24, <1>25, <1>26 DEF View
<1>28. Channel!Read(r)
    <2>1. r \in ToSet(readers)
        BY <1>3 DEF IsOpen
    <2> QED
        BY <1>2, <1>22, <1>24, <1>26, <1>27, <1>a, <2>1 DEF Channel!Read, Unread, Start, Writing
<1> QED
    BY <1>2, <1>20, <1>28 DEF Implemented, Invariant, Channel!Next

\* A new reader starts at head.
LEMMA OpenImplemented ==
    ASSUME Sound, ~undone, undone \in BOOLEAN, NEW r \in Readers, logger_open(r)
    PROVE  Implemented
<1>1. LogOK /\ WritersOK /\ ReadersOK /\ AllFixed /\ Aimed
    BY DEF Sound
<1>2. /\ ~IsOpen(r) /\ MutexFree /\ readers' = Append(readers, r)
      /\ r_off' = [r_off EXCEPT ![r] = head]
      /\ UNCHANGED <<buffer, w_off, head, written, tip, undone, read, write>>
    BY DEF logger_open, logVars
<1>3. PICK V : LogIs(V)
    BY DEF Sound
<1>4. readers \in Seq(Readers) /\ Len(readers) \in Nat /\ r_off \in [Readers -> Offsets]
    BY <1>1 DEF ReadersOK
<1>5. /\ readers' \in Seq(Readers) /\ Len(readers') = Len(readers) + 1
      /\ readers'[Len(readers) + 1] = r /\ \A i \in 1 .. Len(readers) : readers'[i] = readers[i]
    BY <1>2, <1>4
<1>6. \A i \in 1 .. Len(readers) : readers[i] # r /\ readers[i] \in Readers
    BY <1>1, <1>2, <1>4, OpenIs
<1>7. \A i, j \in 1 .. Len(readers') : readers'[i] = readers'[j] => i = j
    <2>1. \A i \in 1 .. Len(readers') : i \in 1 .. Len(readers) \/ i = Len(readers) + 1
        BY <1>4, <1>5
    <2> QED
        BY <1>1, <1>5, <1>6, <2>1 DEF ReadersOK
<1>8. ToSet(readers') = ToSet(readers) \cup {r}
    <2>1. DOMAIN readers = 1 .. Len(readers) /\ DOMAIN readers' = 1 .. Len(readers) + 1
        BY <1>4, <1>5
    <2>2. \A i : i \in 1 .. Len(readers) + 1 <=> i \in 1 .. Len(readers) \/ i = Len(readers) + 1
        BY <1>4
    <2> QED
        BY <1>5, <2>1, <2>2 DEF ToSet
<1>9. r_off'[r] = head /\ \A s \in Readers : s # r => r_off'[s] = r_off[s]
    BY <1>2, <1>4
<1>10. r_off' \in [Readers -> Offsets]
    BY <1>1, <1>2, <1>4 DEF LogOK
<1>11. \A s \in Readers : IsOpen(s)' <=> IsOpen(s) \/ s = r
    BY <1>8 DEF IsOpen
<1>12. ReadersOK'
    BY <1>1, <1>2, <1>5, <1>7, <1>10, <1>11 DEF ReadersOK
<1>13. LogOK'
    BY <1>1, <1>2 DEF LogOK
<1>14. WritersOK' /\ AllFixed' /\ Aimed' /\ Writing = 0 /\ Writing' = 0
    BY <1>1, <1>2, QuietMutex
<1>15. Placed(V)'
    <2>1. ASSUME NEW i \in 1 .. Len(readers') PROVE Back(tip, r_off'[readers'[i]]) \in V
        <3>1. CASE i \in 1 .. Len(readers)
            BY <1>3, <1>5, <1>6, <1>9, <3>1 DEF LogIs, Placed
        <3>2. CASE i = Len(readers) + 1
            BY <1>3, <1>5, <1>9, <3>2 DEF LogIs, Placed
        <3> QED
            BY <1>4, <1>5, <3>1, <3>2
    <2> QED
        BY <1>2, <1>3, <2>1 DEF LogIs, Placed
<1>16. Sound'
    <2>1. LogIs(V)'
        BY <1>2, <1>3, <1>15 DEF LogIs
    <2> QED
        BY <1>12, <1>13, <1>14, <2>1 DEF Sound
<1>17. View /\ View'
    BY <1>1, <1>12, <1>13, Views
<1>18. Start' = Start /\ Start = Held(head)
    BY <1>2, <1>17 DEF View, Held
<1>19. Held(r_off[r])' = Held(head) /\ \A s \in Readers : s # r => Held(r_off[s])' = Held(r_off[s])
    BY <1>2, <1>9 DEF Held
<1>20. Unread' = [Unread EXCEPT ![r] = Start]
    BY <1>11, <1>17, <1>18, <1>19 DEF View
<1>21. Channel!Open(r)
    <2>1. r \notin ToSet(readers)
        BY <1>2 DEF IsOpen
    <2> QED
        BY <1>2, <1>8, <1>14, <1>18, <1>20, <2>1 DEF Channel!Open, Unread, Start, Writing
<1> QED
    BY <1>2, <1>16, <1>21 DEF Implemented, Invariant, Channel!Next

\* Nothing is left to read after a flush.
LEMMA FlushImplemented ==
    ASSUME Sound, ~undone, undone \in BOOLEAN, logger_flush
    PROVE  Implemented
<1>1. LogOK /\ WritersOK /\ ReadersOK /\ AllFixed /\ Aimed
    BY DEF Sound
<1>2. /\ MutexFree /\ r_off' = [r \in Readers |-> IF IsOpen(r) THEN w_off ELSE r_off[r]]
      /\ head' = w_off /\ UNCHANGED <<buffer, w_off, written, tip, undone, readers, read, write>>
    BY DEF logger_flush
<1>3. PICK V : LogIs(V)
    BY DEF Sound
<1>a. WritersOK' /\ AllFixed' /\ Aimed' /\ w_off = tip /\ Writing = 0 /\ Writing' = 0
    BY <1>1, <1>2, QuietMutex
<1>4. Back(tip, tip) = 0 /\ 0 \in V /\ w_off = tip /\ tip \in Offsets
    BY <1>1, <1>3, <1>a DEF LogOK, Back, Offsets, LogIs, Chain
<1>5. r_off' \in [Readers -> Offsets]
    BY <1>1, <1>2, <1>4 DEF ReadersOK
<1>6. LogOK' /\ ReadersOK'
    BY <1>1, <1>2, <1>4, <1>5 DEF LogOK, ReadersOK, IsOpen
<1>8. Placed(V)'
    <2>1. ASSUME NEW i \in 1 .. Len(readers) PROVE r_off'[readers[i]] = w_off
        <3>1. readers[i] \in Readers /\ IsOpen(readers[i])
            BY <1>1, OpenIs DEF ReadersOK
        <3> QED
            BY <1>2, <3>1
    <2> QED
        BY <1>2, <1>4, <2>1 DEF Placed
<1>9. Sound'
    <2>1. LogIs(V)'
        BY <1>2, <1>3, <1>8 DEF LogIs
    <2> QED
        BY <1>6, <1>a, <2>1 DEF Sound
<1>10. View'
    BY <1>1, <1>6, Views
<1>11. RestOf(buffer, tip)[0] = <<>>
    BY RestEmpty
<1>12. Held(head)' = <<>> /\ \A r \in Readers : IsOpen(r)' => Held(r_off[r])' = <<>>
    BY <1>2, <1>4, <1>11 DEF Held, IsOpen
<1>13. Start' = <<>> /\ Unread' = [r \in Readers |-> <<>>]
    BY <1>10, <1>12 DEF View
<1>14. Channel!Flush
    BY <1>2, <1>13, <1>a DEF Channel!Flush, Unread, Start, Writing
<1> QED
    BY <1>2, <1>9, <1>14 DEF Implemented, Invariant, Channel!Next

\* list_del of the reader at place p.
LEMMA RemovePlaces ==
    ASSUME NEW q \in Seq(Readers), NEW p \in 1 .. Len(q)
    PROVE  /\ RemoveAt(q, p) \in Seq(Readers) /\ Len(RemoveAt(q, p)) = Len(q) - 1
           /\ \A i \in 1 .. Len(q) - 1 : RemoveAt(q, p)[i] = IF i < p THEN q[i] ELSE q[i + 1]
<1> DEFINE r == RemoveAt(q, p)
           front == SubSeq(q, 1, p - 1)
           back == SubSeq(q, p + 1, Len(q))
<1>1. r = front \o back
    BY DEF RemoveAt
<1> HIDE DEF r
<1>2. Len(q) \in Nat /\ \A i \in 1 .. Len(q) : q[i] \in Readers
    OBVIOUS
<1>3. front \in Seq(Readers) /\ Len(front) = p - 1 /\ \A i \in 1 .. p - 1 : front[i] = q[i]
    BY <1>2
<1>4. /\ back \in Seq(Readers) /\ Len(back) = Len(q) - p
      /\ \A i \in 1 .. Len(q) - p : back[i] = q[p + i]
    BY <1>2
<1> HIDE DEF front, back
<1>5. /\ r \in Seq(Readers) /\ Len(r) = Len(front) + Len(back)
      /\ \A i \in 1 .. Len(front) + Len(back) :
            r[i] = IF i <= Len(front) THEN front[i] ELSE back[i - Len(front)]
    BY <1>1, <1>3, <1>4, ConcatProperties
<1>6. p \in Nat /\ Len(r) = Len(q) - 1
    BY <1>2, <1>3, <1>4, <1>5
<1>7. ASSUME NEW i \in 1 .. Len(q) - 1 PROVE r[i] = IF i < p THEN q[i] ELSE q[i + 1]
    <2>1. i \in 1 .. Len(front) + Len(back)
        BY <1>2, <1>3, <1>4, <1>6
    <2>2. CASE i < p
        BY <1>3, <1>5, <1>6, <2>1, <2>2
    <2>3. CASE ~(i < p)
        <3>1. /\ i - Len(front) \in 1 .. Len(q) - p /\ p + (i - Len(front)) = i + 1
              /\ ~(i <= Len(front))
            BY <1>2, <1>3, <1>6, <2>3
        <3> QED
            BY <1>4, <1>5, <2>1, <2>3, <3>1
    <2> QED
        BY <2>2, <2>3
<1> QED
    BY <1>5, <1>6, <1>7 DEF r

\* A reader leaves the list, even under a writer that walks it.
LEMMA ReleaseImplemented ==
    ASSUME Sound, ~undone, undone \in BOOLEAN, NEW r \in Readers, logger_release(r)
    PROVE  Implemented
<1>0. PICK p : p = PlaceOf(r)
    OBVIOUS
<1>1. LogOK /\ WritersOK /\ ReadersOK /\ AllFixed /\ Aimed
    BY DEF Sound
<1>2. /\ IsOpen(r) /\ read[r] = "idle" /\ readers' = RemoveAt(readers, p)
      /\ UNCHANGED <<buffer, w_off, head, written, tip, undone, r_off, read, write>>
    BY <1>0 DEF logger_release, logVars
<1>3. PICK V : LogIs(V)
    BY DEF Sound
<1>4. p \in 1 .. Len(readers) /\ readers[p] = r /\ Len(readers) \in Nat /\ readers \in Seq(Readers)
    BY <1>0, <1>1, <1>2, Places DEF ReadersOK
<1>5. /\ readers' \in Seq(Readers) /\ Len(readers') = Len(readers) - 1
      /\ \A i \in 1 .. Len(readers) - 1 : readers'[i] = IF i < p THEN readers[i] ELSE readers[i + 1]
    BY <1>2, <1>4, RemovePlaces
<1> DEFINE Old(i) == IF i < p THEN i ELSE i + 1
<1>6. ASSUME NEW i \in 1 .. Len(readers')
      PROVE  Old(i) \in 1 .. Len(readers) /\ Old(i) # p /\ readers'[i] = readers[Old(i)]
    BY <1>4, <1>5
<1>7. \A i, j \in 1 .. Len(readers') : /\ Old(i) = Old(j) => i = j
                                       /\ i < j => Old(i) < Old(j)
    BY <1>4, <1>5
<1>8. ASSUME NEW k \in 1 .. Len(readers), k # p PROVE \E i \in 1 .. Len(readers') : Old(i) = k
    <2>1. CASE k < p
        <3>1. k \in 1 .. Len(readers') /\ Old(k) = k
            BY <1>4, <1>5, <2>1
        <3> QED
            BY <3>1
    <2>2. CASE ~(k < p)
        <3>1. k - 1 \in 1 .. Len(readers') /\ Old(k - 1) = k
            BY <1>4, <1>5, <1>8, <2>2
        <3> QED
            BY <3>1
    <2> QED
        BY <2>1, <2>2
<1> HIDE DEF Old
<1>9. \A i, j \in 1 .. Len(readers') : readers'[i] = readers'[j] => i = j
    BY <1>1, <1>6, <1>7 DEF ReadersOK
<1>10. ToSet(readers') = ToSet(readers) \ {r}
    <2>1. ToSet(readers) = {readers[k] : k \in 1 .. Len(readers)}
          /\ ToSet(readers') = {readers'[i] : i \in 1 .. Len(readers')}
        BY <1>4, <1>5 DEF ToSet
    <2>2. \A k \in 1 .. Len(readers) : readers[k] = r => k = p
        BY <1>1, <1>4 DEF ReadersOK
    <2>3. ASSUME NEW s \in ToSet(readers') PROVE s \in ToSet(readers) \ {r}
        BY <1>6, <2>1, <2>2, <2>3
    <2>4. ASSUME NEW s \in ToSet(readers) \ {r} PROVE s \in ToSet(readers')
        <3>1. PICK k \in 1 .. Len(readers) : readers[k] = s /\ k # p
            BY <1>4, <2>1, <2>4
        <3>2. PICK i \in 1 .. Len(readers') : Old(i) = k
            BY <1>8, <3>1
        <3>3. readers'[i] = s
            BY <1>6, <3>1, <3>2
        <3> QED
            BY <2>1, <3>3
    <2> QED
        BY <2>3, <2>4
<1>11. \A s \in Readers : IsOpen(s)' <=> IsOpen(s) /\ s # r
    BY <1>10 DEF IsOpen
<1>12. ReadersOK'
    BY <1>1, <1>2, <1>5, <1>9, <1>11 DEF ReadersOK
<1>13. LogOK' /\ WritersOK' /\ Aimed' /\ Writing' = Writing
    BY <1>1, <1>2 DEF LogOK, WritersOK, Aimed, Writing, MutexFree, Holds
<1>14. AllFixed'
    <2> SUFFICES ASSUME NEW w \in Writers, write[w].pc \in {"walking", "copying"}
                 PROVE  Fixed(w)'
        BY <1>2 DEF AllFixed, Fixed
    <2>1. /\ Clear(head, write[w].len)
          /\ \A i \in 1 .. Len(readers) : Passed(w, i) => Clear(r_off[readers[i]], write[w].len)
        BY <1>1 DEF AllFixed, Fixed
    <2>2. ASSUME NEW i \in 1 .. Len(readers'), Passed(w, i)' PROVE Passed(w, Old(i))
        <3>1. CASE write[w].cursor = NoReader
            BY <3>1 DEF Passed
        <3>2. CASE write[w].cursor # NoReader
            <4>1. PICK j \in i + 1 .. Len(readers') : readers'[j] = write[w].cursor
                BY <1>2, <2>2, <3>2 DEF Passed
            <4>2. j \in 1 .. Len(readers') /\ i < j
                BY <1>4, <1>5
            <4>3. readers[Old(j)] = write[w].cursor /\ Old(j) \in 1 .. Len(readers)
                  /\ Old(i) \in 1 .. Len(readers) /\ Old(i) < Old(j)
                BY <1>6, <1>7, <4>1, <4>2
            <4>4. Old(j) \in Old(i) + 1 .. Len(readers)
                BY <1>4, <4>3
            <4> QED
                BY <4>3, <4>4 DEF Passed
        <3> QED
            BY <3>1, <3>2
    <2>3. \A i \in 1 .. Len(readers') : Passed(w, i)' => Clear(r_off[readers'[i]], write[w].len)
        BY <1>6, <2>1, <2>2
    <2> QED
        BY <1>2, <2>1, <2>3 DEF Fixed, Clear
<1>15. Placed(V)'
    BY <1>2, <1>3, <1>6 DEF LogIs, Placed
<1>16. Sound'
    <2>1. LogIs(V)'
        BY <1>2, <1>3, <1>15 DEF LogIs
    <2> QED
        BY <1>12, <1>13, <1>14, <2>1 DEF Sound
<1>17. View /\ View'
    BY <1>1, <1>12, <1>13, Views
<1>18. Start' = Start
    BY <1>2, <1>17 DEF View, Held
<1>19. \A s \in Readers : Held(r_off[s])' = Held(r_off[s])
    BY <1>2 DEF Held
<1>20. Unread' = [Unread EXCEPT ![r] = <<>>]
    BY <1>11, <1>17, <1>19 DEF View
<1>21. Channel!Close(r)
    <2>1. r \in ToSet(readers)
        BY <1>2 DEF IsOpen
    <2> QED
        BY <1>2, <1>10, <1>13, <1>18, <1>20, <2>1 DEF Channel!Close, Unread, Start, Writing
<1> QED
    BY <1>2, <1>16, <1>21 DEF Implemented, Invariant, Channel!Next

-----------------------------------------------------------------------------
\* Every step, while no fault has left w_off at a wrong offset.
LEMMA SoundStep ==
    ASSUME Sound, ~undone, undone \in BOOLEAN, Next
    PROVE  Implemented
<1>1. ASSUME NEW w \in Writers, NEW len \in Lengths, write_begins(w, len) PROVE Implemented
    BY <1>1, BeginsImplemented
<1>2. ASSUME NEW w \in Writers, WriteSteps(w) PROVE Implemented
    <2>1. ASSUME NEW n, write_segment(w, n) \/ write_ends(w, n) PROVE Implemented
        BY <2>1, SegmentImplemented, EndsImplemented
    <2> QED
        BY <1>2, <2>1, LocksImplemented, FixesImplemented, OopsImplemented, HeaderImplemented,
           WakesImplemented DEF WriteSteps
<1>3. ASSUME NEW w \in Writers, write_faults(w) PROVE Implemented
    BY <1>3, FaultsImplemented
<1>4. ASSUME NEW r \in Readers, read_begins(r) \/ ReadSteps(r) \/ read_gives_up(r)
      PROVE  Implemented
    BY <1>4, QuietReadImplemented, TakesImplemented DEF ReadSteps
<1>5. ASSUME NEW r \in Readers, logger_open(r) \/ logger_release(r) PROVE Implemented
    BY <1>5, OpenImplemented, ReleaseImplemented
<1>6. CASE logger_flush
    BY <1>6, FlushImplemented
<1> QED
    BY <1>1, <1>2, <1>3, <1>4, <1>5, <1>6 DEF Next

\* What a fault has done stays so.
LEMMA UndoneStays ==
    ASSUME undone = TRUE, Next
    PROVE  undone' = TRUE
<1>1. \A w \in Writers : write_faults(w) => undone' = TRUE
    BY DEF write_faults, CopyFails
<1>2. \A w \in Writers : \A len \in Lengths : write_begins(w, len) => undone' = TRUE
    BY DEF write_begins, logVars
<1>3. \A w \in Writers : WriteSteps(w) => undone' = TRUE
    BY DEF WriteSteps, write_locks, write_fixes_reader, write_oops, write_header, write_segment,
           write_ends, Segment, write_wakes, logVars
<1>4. \A r \in Readers : read_begins(r) \/ ReadSteps(r) \/ read_gives_up(r) => undone' = TRUE
    BY DEF ReadSteps, read_begins, read_prepares, read_looks, read_sleeps, read_raced, read_takes,
           read_gives_up, ReadGoes, logVars
<1>5. \A r \in Readers : logger_open(r) \/ logger_release(r) => undone' = TRUE
    BY DEF logger_open, logger_release, logVars
<1>6. logger_flush => undone' = TRUE
    BY DEF logger_flush
<1> QED
    BY <1>1, <1>2, <1>3, <1>4, <1>5, <1>6 DEF Next

\* Every step.
LEMMA StepImplemented ==
    ASSUME Invariant, [Next]_vars
    PROVE  Implemented
<1>1. CASE UNCHANGED vars
    <2>1. UNCHANGED <<buffer, w_off, head, written, tip, undone, readers, r_off, read, write>>
        BY <1>1 DEF vars, logVars, readerVars
    <2>2. CASE undone
        BY <2>1, <2>2 DEF Implemented, Invariant
    <2>3. CASE ~undone
        <3>1. Sound /\ undone \in BOOLEAN
            BY <2>3 DEF Invariant
        <3>2. ReadersOK' /\ WritersOK' /\ AllFixed'
            BY <2>1, <3>1 DEF Sound, ReadersOK, WritersOK, Holds, AllFixed, Fixed, Passed, Clear,
                              IsOpen
        <3>3. Aimed' /\ Writing' = Writing
            BY <2>1, <3>1 DEF Sound, Aimed, Writing, MutexFree, Holds
        <3> QED
            BY <2>1, <2>3, <3>1, <3>2, <3>3, SameLog DEF logVars
    <2> QED
        BY <2>2, <2>3
<1>2. CASE Next
    <2>1. CASE undone
        <3>1. undone = TRUE
            BY <2>1 DEF Invariant
        <3>2. undone' = TRUE
            BY <1>2, <3>1, UndoneStays
        <3> QED
            BY <3>2 DEF Implemented, Invariant
    <2>2. CASE ~undone
        BY <1>2, <2>2, SoundStep DEF Invariant
    <2> QED
        BY <2>1, <2>2
<1> QED
    BY <1>1, <1>2

\* An empty log.
LEMMA InitImplemented ==
    ASSUME Init
    PROVE  Invariant /\ Channel!Init
<1>1. LogOK
    BY SizeAssumption DEF Init, LogOK, Contents, Cells, Junk, Offsets
<1>2. readers = <<>> /\ Len(readers) = 0 /\ readers \in Seq(Readers)
    BY DEF Init
<1>3. ReadersOK
    BY <1>1, <1>2, SizeAssumption DEF Init, ReadersOK, ReadPlaces, Offsets
<1>4. RecordOK(Idle) /\ Idle \in WriteRecords /\ Idle.pc = "idle"
    BY DEF Idle, RecordOK, WriteRecords, WritePlaces
<1>5. WritersOK /\ AllFixed /\ Aimed /\ MutexFree
    BY <1>4 DEF Init, WritersOK, AllFixed, Fixed, Aimed, MutexFree, Holds
<1>6. Back(tip, head) = 0
    BY DEF Init, Back
<1>7. Chain(buffer, tip, {0}) /\ Numbered(buffer, tip, {0}, written)
    BY SizeAssumption DEF Chain, Numbered, Offsets
<1>8. Placed({0})
    BY <1>2, <1>6 DEF Placed
<1>9. Invariant
    BY <1>1, <1>3, <1>5, <1>7, <1>8 DEF Invariant, Sound, LogIs, Init
<1>10. View
    BY <1>1, <1>3, ViewNow DEF ReadersOK
<1>11. Start = <<>>
    BY <1>6, <1>10, RestEmpty DEF View, Held
<1>12. ToSet(readers) = {}
    BY <1>2 DEF ToSet
<1>13. Unread = [r \in Readers |-> <<>>]
    BY <1>12 DEF Unread, IsOpen
<1>14. Channel!Init
    BY <1>5, <1>11, <1>12, <1>13 DEF Channel!Init, Start, Unread, Init
<1> QED
    BY <1>9, <1>14

(***************************************************************************)
(* logger.c implements the log of LogChannel for any number of readers and *)
(* writers, any size of the buffer and any lengths of the entries: readers *)
(* get the entries whole, once and in order, lose them only to a flush or  *)
(* to a write that has no room beside them, and then exactly the oldest    *)
(* that get_next_entry passes over.                                        *)
(***************************************************************************)
THEOREM LogImplemented == Spec => ImplementsLogChannel
<1>1. Init => Invariant /\ Channel!Init
    BY InitImplemented
<1>2. Invariant /\ [Next]_vars
          => Invariant' /\ [Channel!Next \/ undone']_<<Channel!vars, undone>>
    BY StepImplemented DEF Implemented
<1> QED
    BY <1>1, <1>2, PTL DEF Spec, ImplementsLogChannel
=============================================================================
