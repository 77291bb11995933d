-------------------------- MODULE EncoderOrderProof --------------------------
(***************************************************************************)
(* Proofs about EncoderQueue: what comes out.  Receiving keeps the bounds  *)
(* of the queue, so the loop of compute_frame_invariants ends; a packet is *)
(* made, and the calls are answered, as the API says; the packets are the  *)
(* frames in display order, which is what DisplayOrder states.             *)
(***************************************************************************)
EXTENDS EncoderQueueProof

----------------------------------------------------------------------------
(* The schedule, once more *)

\* The group that a place in a group of pictures is in.
GroupOf(d, a) == (a - 1) \div GroupOutputLen(d)

LEMMA DivIs ==
  ASSUME NEW l \in Nat \ {0}, NEW q \in Nat, NEW x \in 0 .. l - 1
  PROVE  l * q + x \in Nat /\ (l * q + x) \div l = q /\ (l * q + x) % l = x
  OBVIOUS

\* A place is that of an entry of the schedule in a group, ...
LEMMA PlaceIs ==
  ASSUME NEW d \in Depths, NEW a \in Nat \ {0}
  PROVE  LET l == GroupOutputLen(d)
             q == GroupOf(d, a)
             j == IdxInGroupOutput(d, a) + 1
         IN /\ q \in Nat /\ j \in 1 .. l /\ l \in Nat \ {0} /\ l * q \in Nat /\ a = l * q + j
            /\ EntryAt(d, a) = Sched[d][j]
            /\ OrderHint(d, a) = GroupInputLen(d) * q + EntryAt(d, a).offset
            /\ GroupInputLen(d) * q \in Nat
<1> DEFINE l == GroupOutputLen(d)
           n == GroupInputLen(d)
           x == a - 1
           q == x \div l
<1>1. l \in Nat \ {0} /\ n \in Nat \ {0} /\ x \in Nat
  BY GroupFacts
<1>2. q \in Nat /\ x % l \in 0 .. l - 1 /\ x = (l * q) + (x % l)
  <2> HIDE DEF l, x
  <2> QED
    BY <1>1, DivFacts
<1>3. l * q \in Nat /\ n * q \in Nat
  <2> HIDE DEF l, n, q
  <2> QED
    BY <1>1, <1>2
<1>4. a = l * q + ((x % l) + 1)
  <2> DEFINE m == l * q
             r == x % l
  <2>1. a = x + 1 /\ m \in Nat /\ r \in Nat /\ x = m + r
    BY <1>2, <1>3
  <2> HIDE DEF m, r, x
  <2>2. a = m + (r + 1)
    BY <2>1
  <2> QED
    BY <2>2 DEF m, r
<1>5. OrderHint(d, a) = n * q + EntryAt(d, a).offset
  BY HintFacts
<1>6. GroupOf(d, a) = q /\ IdxInGroupOutput(d, a) = x % l
  BY DEF GroupOf, IdxInGroupOutput
<1>7. EntryAt(d, a) = Sched[d][(x % l) + 1]
  BY <1>6 DEF EntryAt
<1>8. (x % l) + 1 \in 1 .. l
  <2> DEFINE r == x % l
  <2>1. r \in 0 .. l - 1
    BY <1>2
  <2> HIDE DEF r, l
  <2>2. r + 1 \in 1 .. l
    BY <1>1, <2>1
  <2> QED
    BY <2>2 DEF r
<1> HIDE DEF q, x, l, n
<1> QED
  BY <1>1, <1>2, <1>3, <1>4, <1>5, <1>6, <1>7, <1>8 DEF l, n

\* ... and each entry in each group has one.
LEMMA PlaceOf ==
  ASSUME NEW d \in Depths, NEW q \in Nat, NEW j \in 1 .. GroupOutputLen(d)
  PROVE  LET a == GroupOutputLen(d) * q + j
         IN /\ a \in Nat \ {0} /\ GroupOf(d, a) = q /\ EntryAt(d, a) = Sched[d][j]
            /\ OrderHint(d, a) = GroupInputLen(d) * q + Sched[d][j].offset
<1> DEFINE l == GroupOutputLen(d)
           x == j - 1
           a == l * q + j
<1>1. l \in Nat \ {0} /\ x \in 0 .. l - 1
  BY GroupFacts
<1>2. l * q \in Nat /\ l * q + x \in Nat /\ (l * q + x) \div l = q /\ (l * q + x) % l = x
  <2>1. l * q \in Nat
    <3> HIDE DEF l
    <3> QED
      BY <1>1
  <2> HIDE DEF l, x
  <2> QED
    BY <1>1, <2>1, DivIs
<1>3. a \in Nat \ {0} /\ a - 1 = l * q + x
  <2> DEFINE m == l * q
  <2>1. m \in Nat
    BY <1>2
  <2> HIDE DEF m
  <2>2. m + j \in Nat \ {0} /\ (m + j) - 1 = m + (j - 1)
    BY <1>1, <2>1
  <2> QED
    BY <2>2 DEF m
<1> HIDE DEF a
<1>4. GroupOf(d, a) = q /\ EntryAt(d, a) = Sched[d][j]
  <2>1. (a - 1) % l = x /\ x + 1 = j
    BY <1>2, <1>3
  <2> QED
    BY <1>2, <1>3, <2>1 DEF GroupOf, EntryAt, IdxInGroupOutput
<1>5. OrderHint(d, a) = GroupInputLen(d) * q + EntryAt(d, a).offset
  BY <1>3, <1>4, HintFacts DEF GroupOf
<1> QED
  BY <1>3, <1>4, <1>5 DEF a

\* What the schedule of a group is known to be.
LEMMA SchedIs ==
  ASSUME NEW d \in Depths
  PROVE  LET s == Sched[d]
             l == GroupOutputLen(d)
             n == GroupInputLen(d)
         IN /\ \A i \in 1 .. l : /\ s[i].offset \in 1 .. n /\ s[i].level \in 0 .. d
                                 /\ s[i].shown \in BOOLEAN /\ s[i].sef \in BOOLEAN
                                 /\ s[i].level = PosToLvl(s[i].offset, d)
            /\ \A i, j \in 1 .. l : i < j /\ s[i].shown => s[i].offset < s[j].offset
            /\ \A x \in 1 .. n : \E i \in 1 .. l : s[i].shown /\ s[i].offset = x
            /\ \A i \in 1 .. l : s[i].sef =>
                 \E j \in 1 .. i - 1 : ~s[j].sef /\ ~s[j].shown /\ s[j].offset = s[i].offset
            /\ \A i, j \in 1 .. l : i < j /\ ~s[i].sef /\ ~s[j].sef /\ s[i].level = s[j].level =>
                 \E k \in 1 .. j - 1 : s[k].shown /\ s[k].offset = s[i].offset
<1> DEFINE s == Sched[d]
           l == GroupOutputLen(d)
           n == GroupInputLen(d)
<1>1. n = 2 ^ d /\ n \in Nat
  BY GroupFacts DEF GroupInputLen
<1>2. Schedules(s, 2 ^ d + 1, 1 .. 2 ^ d) /\ l = Len(s) /\ Spaced(s, d)
  BY ScheduleShowsAll, ScheduleSpaced DEF ScheduleOK, GroupOutputLen
<1>3. \A i \in 1 .. l : s[i] \in [offset : 1 .. n, level : 0 .. d, shown : BOOLEAN, sef : BOOLEAN]
  BY SchedFacts
<1> HIDE DEF s, n, l
<1>4. n + 1 - 1 = n /\ Schedules(s, n + 1, 1 .. n)
  BY <1>1, <1>2
<1>5. \A x \in 1 .. n : \E i \in 1 .. l : s[i].shown /\ s[i].offset = x
  <2> DEFINE p == n + 1
  <2>1. p - 1 = n
    BY <1>1
  <2>3. Schedules(s, p, 1 .. n)
    BY <1>4, Zenon
  <2> HIDE DEF p
  <2>2. \A x \in 1 .. p - 1 : \E i \in 1 .. Len(s) : s[i].shown /\ s[i].offset = x
    BY <2>3, Zenon DEF Schedules
  <2> QED
    BY <1>2, <2>1, <2>2
<1>6. \A i \in 1 .. l : s[i].level = PosToLvl(s[i].offset, d)
  BY <1>2 DEF Spaced
<1>7. \A i, j \in 1 .. l : i < j /\ ~s[i].sef /\ ~s[j].sef /\ s[i].level = s[j].level =>
        \E k \in 1 .. j - 1 : s[k].shown /\ s[k].offset = s[i].offset
  BY <1>2 DEF Spaced
<1>8. /\ \A i, j \in 1 .. l : i < j /\ s[i].shown => s[i].offset < s[j].offset
      /\ \A i \in 1 .. l : s[i].sef =>
           \E j \in 1 .. i - 1 : ~s[j].sef /\ ~s[j].shown /\ s[j].offset = s[i].offset
  BY <1>2, <1>4 DEF Schedules
<1> QED
  BY <1>3, <1>5, <1>6, <1>7, <1>8 DEF s, l, n

\* The frames of the groups before that of a place, and before it if it is of a
\* frame that is shown, are shown at earlier places.
LEMMA HintsShown ==
  ASSUME NEW d \in Depths, NEW a \in Nat \ {0}, NEW h \in Nat \ {0},
         \/ h <= GroupInputLen(d) * GroupOf(d, a)
         \/ EntryAt(d, a).shown /\ h < OrderHint(d, a)
  PROVE  \E b \in 1 .. a - 1 : EntryAt(d, b).shown /\ OrderHint(d, b) = h
<1> DEFINE n == GroupInputLen(d)
           l == GroupOutputLen(d)
           p == GroupOf(d, a)
           j == IdxInGroupOutput(d, a) + 1
<1>1. /\ n \in Nat \ {0} /\ l \in Nat \ {0} /\ p \in Nat /\ j \in 1 .. l
      /\ n * p \in Nat /\ l * p \in Nat /\ a = l * p + j
      /\ EntryAt(d, a) = Sched[d][j] /\ OrderHint(d, a) = n * p + Sched[d][j].offset
  BY GroupFacts, PlaceIs
<1>2. Sched[d][j].offset \in 1 .. n
  <2> HIDE DEF j, n, l
  <2> QED
    BY <1>1, SchedIs DEF n, l
<1>3. CASE h <= n * p
  <2> DEFINE m == h - 1
             q == m \div n
             x == (m % n) + 1
  <2>1. m \in Nat
    OBVIOUS
  <2>2. q \in Nat /\ m % n \in 0 .. n - 1 /\ m = (n * q) + (m % n)
    <3> HIDE DEF m, n
    <3> QED
      BY <1>1, <2>1, DivFacts
  <2>3. n * q \in Nat
    <3> HIDE DEF n, q
    <3> QED
      BY <1>1, <2>2
  <2>4. x \in 1 .. n /\ h = n * q + x
    <3> DEFINE u == n * q
               r == m % n
    <3>1. h = m + 1 /\ u \in Nat /\ r \in 0 .. n - 1 /\ m = u + r
      BY <2>2, <2>3
    <3> HIDE DEF u, r, m, n
    <3>2. r + 1 \in 1 .. n /\ h = u + (r + 1)
      BY <1>1, <2>1, <3>1
    <3> QED
      BY <3>2 DEF u, r
  <2> HIDE DEF x
  <2>5. q < p
    <3>1. n * q < n * p
      <4> HIDE DEF n, q, p
      <4> QED
        BY <1>1, <1>3, <2>3, <2>4
    <3>2. p < q \/ p = q => n * p <= n * q
      <4> HIDE DEF n, q, p
      <4> QED
        BY <1>1, <2>2, TimesMono
    <3> HIDE DEF n, q, p
    <3> QED
      BY <1>1, <2>2, <2>3, <3>1, <3>2
  <2>6. PICK i \in 1 .. l : Sched[d][i].shown /\ Sched[d][i].offset = x
    BY <2>4, SchedIs
  <2> DEFINE b == l * q + i
  <2>7. b \in Nat \ {0} /\ EntryAt(d, b).shown /\ OrderHint(d, b) = h
    <3> HIDE DEF q
    <3> QED
      BY <2>2, <2>4, <2>6, PlaceOf
  <2>8. b < a
    <3>1. l * q \in Nat /\ l * q + l <= l * p
      <4> HIDE DEF l, q, p
      <4> QED
        BY <1>1, <2>2, <2>5, TimesMono
    <3> HIDE DEF l, q, p
    <3> QED
      BY <1>1, <2>6, <3>1
  <2> HIDE DEF b
  <2>9. b \in 1 .. a - 1
    BY <2>7, <2>8
  <2> QED
    BY <2>7, <2>9
<1>4. CASE ~(h <= n * p) /\ EntryAt(d, a).shown /\ h < OrderHint(d, a)
  <2> DEFINE m == n * p
             x == h - m
  <2>1. m \in Nat /\ h < m + Sched[d][j].offset /\ ~(h <= m) /\ Sched[d][j].shown
    BY <1>1, <1>4
  <2> HIDE DEF m, n
  <2>2. x \in 1 .. n /\ x < Sched[d][j].offset /\ h = m + x
    BY <1>1, <1>2, <2>1
  <2> HIDE DEF x
  <2>3. PICK i \in 1 .. l : Sched[d][i].shown /\ Sched[d][i].offset = x
    BY <2>2, SchedIs DEF n
  <2>4. i < j
    <3>1. j < i => Sched[d][j].offset < Sched[d][i].offset
      <4> HIDE DEF j
      <4> QED
        BY <1>1, <2>1, <2>3, SchedIs
    <3> HIDE DEF j
    <3> QED
      BY <1>1, <1>2, <2>2, <2>3, <3>1
  <2> DEFINE b == l * p + i
  <2>5. b \in Nat \ {0} /\ EntryAt(d, b).shown /\ OrderHint(d, b) = h
    <3>1. OrderHint(d, b) = GroupInputLen(d) * p + x
      <4> HIDE DEF p
      <4> QED
        BY <1>1, <2>3, PlaceOf
    <3>2. b \in Nat \ {0} /\ EntryAt(d, b).shown
      <4> HIDE DEF p
      <4> QED
        BY <1>1, <2>3, PlaceOf
    <3> QED
      BY <2>2, <3>1, <3>2 DEF m, n
  <2>6. b \in 1 .. a - 1
    <3> HIDE DEF l, p, j
    <3> QED
      BY <1>1, <2>3, <2>4, <2>5
  <2> QED
    BY <2>5, <2>6
<1> QED
  BY <1>3, <1>4

\* A frame that shows again is in the group of the hidden one, at its level.
LEMMA HiddenBefore ==
  ASSUME NEW d \in Depths, NEW b \in Nat \ {0}, EntryAt(d, b).sef
  PROVE  \E a \in 1 .. b - 1 :
           /\ GroupOf(d, a) = GroupOf(d, b) /\ OrderHint(d, a) = OrderHint(d, b)
           /\ ~EntryAt(d, a).sef /\ ~EntryAt(d, a).shown
           /\ EntryAt(d, a).level = EntryAt(d, b).level
<1> DEFINE l == GroupOutputLen(d)
           q == GroupOf(d, b)
           j == IdxInGroupOutput(d, b) + 1
           s == Sched[d]
<1>1. /\ l \in Nat \ {0} /\ q \in Nat /\ j \in 1 .. l /\ l * q \in Nat /\ b = l * q + j
      /\ EntryAt(d, b) = s[j] /\ OrderHint(d, b) = GroupInputLen(d) * q + s[j].offset
  BY GroupFacts, PlaceIs
<1>2. PICK i \in 1 .. j - 1 : ~s[i].sef /\ ~s[i].shown /\ s[i].offset = s[j].offset
  <2> HIDE DEF j
  <2> QED
    BY <1>1, SchedIs
<1>3. i \in 1 .. l
  <2> HIDE DEF l, j
  <2> QED
    BY <1>1
<1>4. s[i].level = s[j].level
  <2> HIDE DEF j
  <2> QED
    BY <1>1, <1>2, <1>3, SchedIs
<1> DEFINE a == l * q + i
<1>5. /\ a \in Nat \ {0} /\ GroupOf(d, a) = q /\ EntryAt(d, a) = s[i]
      /\ OrderHint(d, a) = GroupInputLen(d) * q + s[i].offset
  <2> HIDE DEF q
  <2> QED
    BY <1>1, <1>3, PlaceOf
<1>6. a \in 1 .. b - 1
  <2> DEFINE m == l * q
  <2>1. m \in Nat /\ b = m + j /\ j \in Nat
    BY <1>1
  <2> HIDE DEF m, j
  <2>2. m + i \in 1 .. b - 1
    BY <2>1
  <2> QED
    BY <2>2 DEF m
<1>7. GroupOf(d, a) = GroupOf(d, b) /\ OrderHint(d, a) = OrderHint(d, b)
  BY <1>1, <1>2, <1>5
<1> HIDE DEF a, q, j, s
<1> QED
  BY <1>1, <1>2, <1>4, <1>5, <1>6, <1>7

\* The group of a place between two of a group.
LEMMA GroupBetween ==
  ASSUME NEW d \in Depths, NEW a \in Nat \ {0}, NEW b \in Nat \ {0}, NEW c \in Nat \ {0},
         a < b, b < c, GroupOf(d, a) = GroupOf(d, c)
  PROVE  /\ GroupOf(d, b) = GroupOf(d, a)
         /\ IdxInGroupOutput(d, a) < IdxInGroupOutput(d, b)
         /\ IdxInGroupOutput(d, b) < IdxInGroupOutput(d, c)
<1> DEFINE l == GroupOutputLen(d)
           x == a - 1
           y == b - 1
           z == c - 1
<1>1. l \in Nat \ {0} /\ x \in Nat /\ y \in Nat /\ z \in Nat /\ x < y /\ y < z
  BY GroupFacts
<1>2. x \div l = z \div l
  BY DEF GroupOf
<1> HIDE DEF l, x, y, z
<1>3. /\ x \div l < y \div l \/ (x \div l = y \div l /\ x % l < y % l)
      /\ y \div l < z \div l \/ (y \div l = z \div l /\ y % l < z % l)
  BY <1>1, DivMono
<1>4. x \div l \in Nat /\ y \div l \in Nat /\ z \div l \in Nat
  BY <1>1, DivFacts
<1> DEFINE p == x \div l
           q == y \div l
           r == z \div l
<1>5. /\ p \in Nat /\ q \in Nat /\ r \in Nat /\ p = r
      /\ p < q \/ (p = q /\ x % l < y % l)
      /\ q < r \/ (q = r /\ y % l < z % l)
  BY <1>2, <1>3, <1>4
<1> HIDE DEF p, q, r
<1>6. p = q /\ x % l < y % l /\ y % l < z % l
  BY <1>5
<1> QED
  BY <1>6 DEF p, q, l, x, y, z, GroupOf, IdxInGroupOutput

\* Between a frame that is coded hidden and its turn, no other is coded to its slot.
LEMMA SlotKept ==
  ASSUME NEW d \in Depths, NEW a \in Nat \ {0}, NEW b \in Nat \ {0}, NEW c \in Nat \ {0},
         a < b, b < c, GroupOf(d, a) = GroupOf(d, c), OrderHint(d, a) = OrderHint(d, c),
         ~EntryAt(d, a).sef, ~EntryAt(d, b).sef, EntryAt(d, c).shown
  PROVE  SlotIdx(d, EntryAt(d, a).level, OrderHint(d, a)) #
           SlotIdx(d, EntryAt(d, b).level, OrderHint(d, b))
<1> DEFINE n == GroupInputLen(d)
           l == GroupOutputLen(d)
           q == GroupOf(d, a)
           s == Sched[d]
           i == IdxInGroupOutput(d, a) + 1
           j == IdxInGroupOutput(d, b) + 1
           k == IdxInGroupOutput(d, c) + 1
<1>1. GroupOf(d, b) = q /\ GroupOf(d, c) = q /\ i < j /\ j < k
  <2>1. /\ IdxInGroupOutput(d, a) < IdxInGroupOutput(d, b)
        /\ IdxInGroupOutput(d, b) < IdxInGroupOutput(d, c) /\ GroupOf(d, b) = q
    BY GroupBetween
  <2>2. i \in 1 .. l /\ j \in 1 .. l /\ k \in 1 .. l
    BY PlaceIs
  <2>3. IdxInGroupOutput(d, a) \in Int /\ IdxInGroupOutput(d, b) \in Int /\ IdxInGroupOutput(d, c) \in Int
    BY GroupFacts DEF IdxInGroupOutput
  <2> QED
    BY <2>1, <2>3
<1>2. /\ i \in 1 .. l /\ j \in 1 .. l /\ k \in 1 .. l /\ l \in Nat
      /\ EntryAt(d, a) = s[i] /\ EntryAt(d, b) = s[j] /\ EntryAt(d, c) = s[k]
      /\ OrderHint(d, a) = n * q + s[i].offset /\ OrderHint(d, c) = n * q + s[k].offset
      /\ n * q \in Nat
  BY <1>1, PlaceIs
<1>3. OrderHint(d, a) \in Nat /\ OrderHint(d, b) \in Nat /\ n \in Nat \ {0}
  BY HintFacts, GroupFacts
<1> HIDE DEF i, j, k, q
<1>4. /\ s[i].offset \in 1 .. n /\ s[k].offset \in 1 .. n
      /\ s[i].level \in 0 .. d /\ s[j].level \in 0 .. d
  BY <1>2, SchedIs
<1>5. s[i].offset = s[k].offset
  <2> DEFINE m == n * q
  <2>1. m \in Nat /\ m + s[i].offset = m + s[k].offset
    BY <1>2
  <2> HIDE DEF m, n, s
  <2> QED
    BY <1>4, <2>1
<1>6. s[i].level # s[j].level
  <2> SUFFICES ASSUME s[i].level = s[j].level
               PROVE  FALSE
    OBVIOUS
  <2>1. PICK m \in 1 .. j - 1 : s[m].shown /\ s[m].offset = s[i].offset
    BY <1>1, <1>2, SchedIs
  <2>2. m \in 1 .. l /\ m < k
    BY <1>1, <1>2
  <2>3. s[m].offset < s[k].offset
    BY <1>2, <2>1, <2>2, SchedIs
  <2> QED
    BY <1>4, <1>5, <2>1, <2>3
<1>7. \A h \in Nat : (h \div n) % 4 \in 0 .. 3
  <2> SUFFICES ASSUME NEW h \in Nat
               PROVE  (h \div n) % 4 \in 0 .. 3
    OBVIOUS
  <2> DEFINE x == h \div n
  <2>1. x \in Nat
    <3> HIDE DEF n
    <3> QED
      BY <1>3, DivFacts
  <2> HIDE DEF x
  <2>2. x % 4 \in 0 .. 3
    BY <2>1
  <2> QED
    BY <2>2 DEF x
<1>8. \A h \in Nat : \A level \in 0 .. d :
        IF level = 0 THEN SlotIdx(d, level, h) \in 0 .. 3 ELSE SlotIdx(d, level, h) = 3 + level
  <2> HIDE DEF n
  <2> QED
    BY <1>7 DEF SlotIdx, n
<1>9. d \in Nat
  BY DEF Depths
<1>10. \A h \in Nat, g \in Nat : \A u \in 0 .. d, v \in 0 .. d :
         u # v => SlotIdx(d, u, h) # SlotIdx(d, v, g)
  <2> SUFFICES ASSUME NEW h \in Nat, NEW g \in Nat, NEW u \in 0 .. d, NEW v \in 0 .. d, u # v
               PROVE  SlotIdx(d, u, h) # SlotIdx(d, v, g)
    OBVIOUS
  <2>1. /\ IF u = 0 THEN SlotIdx(d, u, h) \in 0 .. 3 ELSE SlotIdx(d, u, h) = 3 + u
        /\ IF v = 0 THEN SlotIdx(d, v, g) \in 0 .. 3 ELSE SlotIdx(d, v, g) = 3 + v
    BY <1>8
  <2> QED
    BY <1>9, <2>1
<1> HIDE DEF s
<1> QED
  BY <1>2, <1>3, <1>4, <1>6, <1>10

\* Without a pyramid every frame is shown when it is coded.
LEMMA NothingHidden ==
  ASSUME NEW a \in Nat \ {0}
  PROVE  EntryAt(0, a).shown /\ ~EntryAt(0, a).sef
<1> DEFINE s == Sched[0]
           order == CodingOrder(0)
           l == Len(order)
<1>1. 0 \in Depths /\ 2 ^ 0 = 1
  BY PowerFacts DEF Depths
<1>2. Listing(order, 1, 1)
  <2>1. Listing(order, 1, 2 ^ 0)
    BY <1>1, CodingOrderFacts
  <2> QED
    BY <1>1, <2>1
<1>3. PICK F : /\ Sched[0] = F[l].sched /\ F[0] = EmitInit
               /\ \A k \in 1 .. l : F[k] = Emit(0, F[k - 1], order[k], FirstOf(order, k))
               /\ \A k \in 0 .. l : EmitOK(0, F[k], FirstOf(order, k))
  BY <1>1, ScheduleMade
<1> HIDE DEF order
<1>4. l = 1 /\ order[1] = 1
  <2>1. /\ order \in Seq(1 .. 1) /\ \A i, j \in 1 .. l : order[i] = order[j] => i = j
        /\ \E i \in 1 .. l : order[i] = 1
    BY <1>2 DEF Listing
  <2>2. l \in Nat /\ \A i \in 1 .. l : order[i] \in 1 .. 1
    BY <2>1
  <2>3. \A i \in 1 .. l : order[i] = 1
    BY <2>2
  <2> HIDE DEF l
  <2>4. 1 \in 1 .. l
    BY <2>1, <2>2
  <2>5. 2 \notin 1 .. l
    BY <2>1, <2>3, <2>4
  <2> QED
    BY <2>2, <2>3, <2>4, <2>5
<1>5. s = Append(<<>>, Entry(1, 0, TRUE, FALSE)) \o
            [i \in 1 .. Cardinality(CaughtUp(0, 1 + 1, FirstOf(order, 1))) |-> Entry(1 + i, 0, TRUE, TRUE)]
  <2>1. s = Emit(0, EmitInit, 1, FirstOf(order, 1)).sched
    BY <1>3, <1>4
  <2>2. EmitInit.sched = <<>> /\ EmitInit.disp = 1
    BY DEF EmitInit
  <2> QED
    BY <2>1, <2>2 DEF Emit
<1>6. Cardinality(CaughtUp(0, 1 + 1, FirstOf(order, 1))) = 0
  <2>1. CaughtUp(0, 1 + 1, FirstOf(order, 1)) = {}
    BY <1>1 DEF CaughtUp
  <2> QED
    BY <2>1, FS_EmptySet
<1>7. s = <<Entry(1, 0, TRUE, FALSE)>>
  <2> DEFINE x == Entry(1, 0, TRUE, FALSE)
             f == [i \in 1 .. 0 |-> Entry(1 + i, 0, TRUE, TRUE)]
  <2>1. s = Append(<<>>, x) \o f
    BY <1>5, <1>6
  <2>2. f = <<>>
    OBVIOUS
  <2> HIDE DEF x, f, s
  <2>3. s = <<x>>
    BY <2>1, <2>2
  <2> QED
    BY <2>3 DEF x
<1>8. Len(s) = 1 /\ s[1] = Entry(1, 0, TRUE, FALSE)
  BY <1>7
<1>9. Entry(1, 0, TRUE, FALSE).shown /\ ~Entry(1, 0, TRUE, FALSE).sef
  BY DEF Entry
<1>10. IdxInGroupOutput(0, a) + 1 \in 1 .. 1 /\ EntryAt(0, a) = s[IdxInGroupOutput(0, a) + 1]
  <2>1. GroupOutputLen(0) = 1
    BY <1>8 DEF GroupOutputLen
  <2> HIDE DEF s
  <2> QED
    BY <1>1, <2>1, PlaceIs DEF EntryAt, s
<1>11. EntryAt(0, a) = Entry(1, 0, TRUE, FALSE)
  <2> DEFINE i == IdxInGroupOutput(0, a) + 1
  <2>1. i \in 1 .. 1 /\ EntryAt(0, a) = s[i]
    BY <1>10
  <2> HIDE DEF i, s
  <2>2. i = 1
    BY <2>1
  <2> QED
    BY <1>8, <2>1, <2>2
<1> QED
  BY <1>9, <1>11

----------------------------------------------------------------------------
(* What is shown, and when *)

\* A frame that is scheduled will show input frame i.
Shows(c, i) == \E m \in Pending(c) : c.data[m].show /\ c.data[m].input = i

\* The input frame of a place in the last group of pictures.
HintAt(c, a) == LastInput(c) + OrderHint(Depth, a)

\* Of the frames that are not yet shown, those up to the last key frame will be, and
\* those that the schedule has come to.
CoverOK(c) ==
  c.nextOutput > 0 =>
    /\ \A i \in c.processed .. LastInput(c) : Shows(c, i)
    /\ \A a \in 1 .. InLast(c) - 1 :
         EntryAt(Depth, a).shown /\ c.processed <= HintAt(c, a) /\ HintAt(c, a) < NextKey(c)
           => Shows(c, HintAt(c, a))

\* Output frames are at most as many as input frames, and key frames, call for.
LastGroup(c) == IF InLast(c) = 1 THEN 0 ELSE GroupOf(Depth, InLast(c) - 1)
BoundOK(c) ==
  c.nextOutput > 0 =>
    LET i == LastInput(c) + GroupInputLen(Depth) * LastGroup(c)
    IN /\ LastOutput(c) <= LastInput(c) * (GroupOutputLen(Depth) + 1)
       /\ i < c.nextFrame /\ i < NextKey(c)

\* What is not yet shown is still there, with what was sent along.
StockOK(c) ==
  /\ c.processed <= c.count
  /\ \A i \in c.processed .. c.count - 1 : i \in c.frames /\ i \in c.opaque

\* After the end all frames that are not yet shown are scheduled.
AllOK(c) == c.end => \A i \in c.processed .. c.count - 1 : Shows(c, i)

FlowOK(c) == CoverOK(c) /\ BoundOK(c) /\ StockOK(c)

\* The frames before n that are to be coded to slot s, and whether it holds
\* input frame x after them.
Writers(c, n, s) == {m \in Pending(c) : m < n /\ IsCoded(c, m) /\ s \in c.data[m].refresh}
Holds(c, dec, n, s, x) ==
  /\ Writers(c, n, s) = {} => dec[s].input = x
  /\ \A m \in Writers(c, n, s) : (\A l \in Writers(c, n, s) : l <= m) => c.data[m].input = x

\* A frame that is shown again will then be in its slot, ...
SefOK(c, dec) ==
  \A m \in Pending(c) : c.data[m].sef => Holds(c, dec, m, c.data[m].slot, c.data[m].input)

\* ... also if that is not yet scheduled.
SlotAt(a) == SlotIdx(Depth, EntryAt(Depth, a).level, OrderHint(Depth, a))
FutureOK(c, dec) ==
  c.nextOutput > 0 =>
    \A a \in 1 .. InLast(c) - 1 : \A b \in Nat \ {0} :
      /\ InLast(c) <= b /\ GroupOf(Depth, a) = GroupOf(Depth, b)
      /\ OrderHint(Depth, a) = OrderHint(Depth, b) /\ HintAt(c, a) < NextKey(c)
      /\ ~EntryAt(Depth, a).sef /\ ~EntryAt(Depth, a).shown /\ EntryAt(Depth, b).sef
      => Holds(c, dec, c.nextOutput, SlotAt(a), HintAt(c, a))

ShowOK(c, dec) == SefOK(c, dec) /\ FutureOK(c, dec)

----------------------------------------------------------------------------
(* Before the next key frame *)

LEMMA LastFacts ==
  ASSUME setup \in Setups, NEW c, CtxOK(c), c.nextOutput > 0
  PROVE  /\ LastInput(c) \in Nat /\ LastOutput(c) \in Nat /\ LastOutput(c) < c.nextOutput
         /\ InLast(c) \in Nat \ {0} /\ c.nextOutput = LastOutput(c) + InLast(c)
         /\ NextKey(c) \in Nat /\ c.nextOutput \in Nat
         /\ \A a \in Nat \ {0} : HintAt(c, a) \in Nat /\ HintAt(c, a) > LastInput(c)
         /\ HintAt(c, InLast(c)) = Named(c)
<1>1. c \in Contexts /\ Starts(c) /\ LastOutput(c) < c.nextOutput /\ c.nextOutput \in Nat
  BY StartsOK, CtxFacts DEF CtxOK
<1>2. /\ LastInput(c) \in Nat /\ LastOutput(c) \in Nat /\ InLast(c) \in Nat
      /\ InLast(c) = 0 <=> c.nextOutput = 0
      /\ Named(c) = LastInput(c) + (IF c.nextOutput = 0 THEN 0 ELSE OrderHint(Depth, InLast(c)))
  BY <1>1, StartsFacts
<1>3. NextKey(c) \in Nat
  BY <1>1, <1>2, NextKeyFacts DEF NextKey
<1>4. \A a \in Nat \ {0} : OrderHint(Depth, a) \in Nat \ {0}
  BY SetupFacts, HintFacts
<1>5. \A a \in Nat \ {0} : HintAt(c, a) \in Nat /\ HintAt(c, a) > LastInput(c)
  BY <1>2, <1>4 DEF HintAt
<1>6. HintAt(c, InLast(c)) = Named(c)
  BY <1>2 DEF HintAt
<1>7. c.nextOutput = LastOutput(c) + InLast(c)
  BY <1>1, <1>2 DEF InLast
<1> QED
  BY <1>1, <1>2, <1>3, <1>5, <1>6, <1>7

\* Where a frame is in the last group of pictures.
LEMMA PlaceInGroup ==
  ASSUME setup \in Setups, NEW c, CtxOK(c), c.nextOutput > 0, NEW m \in Live(c)
  PROVE  LET a == m - LastOutput(c)
             x == c.data[m].input
         IN /\ x \in Nat /\ m \in Nat /\ m < c.nextOutput /\ x < c.count /\ x < c.nextFrame
            /\ x < NextKey(c) /\ c.data[m].show \in BOOLEAN
            /\ \/ m < LastOutput(c) /\ x < LastInput(c)
               \/ m = LastOutput(c) /\ x = LastInput(c) /\ c.data[m].show
               \/ /\ a \in 1 .. InLast(c) - 1 /\ x = HintAt(c, a) /\ x > LastInput(c)
                  /\ c.data[m].show = EntryAt(Depth, a).shown
<1> DEFINE g == LastOutput(c)
           h == LastInput(c)
           x == c.data[m].input
           k == NextKey(c)
<1>1. /\ c \in Contexts /\ QueueOK(c) /\ DataOK(c) /\ c.count \in Nat
      /\ c.limit \in Nat \cup {None} /\ setup.maxKey \in Nat \ {0} /\ c.keyframes \subseteq Nat
  BY CtxFacts, SetupFacts DEF CtxOK
<1>2. /\ h \in Nat /\ g \in Nat /\ k \in Nat /\ c.nextOutput \in Nat
      /\ c.nextOutput = g + InLast(c) /\ InLast(c) \in Nat \ {0}
      /\ \A a \in Nat \ {0} : HintAt(c, a) \in Nat /\ HintAt(c, a) > h
  BY LastFacts
<1>3. /\ x \in Nat /\ m \in Nat /\ m < c.nextOutput /\ x < c.count /\ x < c.nextFrame
      /\ c.data[m].show \in BOOLEAN
  <2>1. m \in DOMAIN c.data /\ c.data[m] \in FrameInvariants
    BY <1>1, LiveFacts
  <2>2. x \in Nat /\ c.data[m].show \in BOOLEAN
    BY <2>1, FiFacts
  <2>3. x < c.count /\ x < c.nextFrame
    BY <1>1 DEF DataOK
  <2>4. m \in 0 .. c.nextOutput - 1
    BY <1>1, <2>1 DEF DataOK
  <2>5. m \in Nat /\ m < c.nextOutput
    BY <1>2, <2>4
  <2> QED
    BY <2>2, <2>3, <2>5
<1>4. InGroup(c, m, g, h)
  BY StartsOK
<1>5. /\ k <= h + setup.maxKey
      /\ \A i \in c.keyframes : i > h => k <= i
      /\ \/ k > h /\ k \in c.keyframes
         \/ k = h + setup.maxKey
         \/ k = c.limit
  BY <1>1, <1>2, NextKeyFacts DEF NextKey
<1>6. k = c.limit => c.count <= k
  BY <1>1, <1>2 DEF QueueOK, None
<1>7. \/ m < g /\ x < h
      \/ m = g /\ x = h /\ c.data[m].show
      \/ /\ m > g /\ x = h + OrderHint(Depth, m - g)
         /\ c.data[m].show = EntryAt(Depth, m - g).shown
         /\ x < h + setup.maxKey
         /\ \A i \in c.keyframes : i > h => i > x
  BY <1>4 DEF InGroup
<1> HIDE DEF g, h, x, k
<1>8. x < k
  BY <1>1, <1>2, <1>3, <1>5, <1>6, <1>7
<1>9. m > g => m - g \in 1 .. InLast(c) - 1 /\ m - g \in Nat \ {0}
  BY <1>2, <1>3
<1>10. \A a : HintAt(c, a) = h + OrderHint(Depth, a)
  BY DEF HintAt, h
<1>11. \/ m < g /\ x < h
       \/ m = g /\ x = h /\ c.data[m].show
       \/ /\ m - g \in 1 .. InLast(c) - 1 /\ x = HintAt(c, m - g) /\ x > h
          /\ c.data[m].show = EntryAt(Depth, m - g).shown
  BY <1>2, <1>7, <1>9, <1>10
<1> QED
  BY <1>3, <1>8, <1>11 DEF g, h, x, k

\* The frame that is encoded next, and then shown, is the next to be shown.
LEMMA NextShown ==
  ASSUME setup \in Setups, NEW c, CtxOK(c), CoverOK(c), Pending(c) # {}, c.data[Next0(c)].show
  PROVE  c.data[Next0(c)].input = c.processed
<1> DEFINE n == Next0(c)
           x == c.data[n].input
           p == c.processed
<1>1. /\ c \in Contexts /\ OrderOK(c) /\ p \in Nat /\ c.nextOutput > 0
      /\ n \in Pending(c) /\ n \in Live(c) /\ n \in Nat /\ \A m \in Pending(c) : m >= n
  BY NextFacts, CtxFacts DEF CtxOK
<1>2. p <= x
  BY ProcessedBefore
<1>3. Pending(c) \subseteq Live(c) /\ \A m \in Live(c) : m \in Nat /\ c.data[m].input \in Nat
  BY <1>1, PlaceInGroup, LiveFacts
<1>4. SUFFICES ASSUME p < x
               PROVE  FALSE
  BY <1>1, <1>2, <1>3
<1>5. /\ LastInput(c) \in Nat /\ LastOutput(c) \in Nat /\ InLast(c) \in Nat \ {0}
      /\ NextKey(c) \in Nat
  BY <1>1, LastFacts
<1>6. ~Shows(c, p)
  <2> SUFFICES ASSUME NEW m \in Pending(c), c.data[m].show, c.data[m].input = p
               PROVE  FALSE
    BY DEF Shows
  <2>1. m \in Live(c) /\ m >= n /\ m # n
    BY <1>1, <1>3, <1>4
  <2>2. n < m
    BY <1>1, <1>3, <2>1
  <2>3. x < p
    BY <1>1, <2>1, <2>2 DEF OrderOK
  <2> QED
    BY <1>1, <1>3, <1>4, <2>3
<1>7. p > LastInput(c)
  <2>1. p <= LastInput(c) => p \in p .. LastInput(c)
    BY <1>1, <1>5
  <2> QED
    BY <1>1, <1>5, <1>6, <2>1 DEF CoverOK
<1> DEFINE a == n - LastOutput(c)
<1>8. /\ a \in 1 .. InLast(c) - 1 /\ x = HintAt(c, a) /\ EntryAt(Depth, a).shown
      /\ x < NextKey(c) /\ a \in Nat \ {0}
  <2>1. /\ \/ n < LastOutput(c) /\ x < LastInput(c)
           \/ n = LastOutput(c) /\ x = LastInput(c) /\ c.data[n].show
           \/ /\ a \in 1 .. InLast(c) - 1 /\ x = HintAt(c, a) /\ x > LastInput(c)
              /\ c.data[n].show = EntryAt(Depth, a).shown
        /\ x < NextKey(c) /\ x \in Nat
    <3> HIDE DEF n
    <3> QED
      BY <1>1, PlaceInGroup
  <2> HIDE DEF n, a
  <2>2. /\ a \in 1 .. InLast(c) - 1 /\ x = HintAt(c, a)
        /\ c.data[n].show = EntryAt(Depth, a).shown
    BY <1>1, <1>4, <1>5, <1>7, <2>1
  <2>3. a \in Nat \ {0}
    BY <1>5, <2>2
  <2> QED
    BY <2>1, <2>2, <2>3 DEF n
<1> HIDE DEF n, a, x
<1> DEFINE h == p - LastInput(c)
<1>9. h \in Nat \ {0} /\ h < OrderHint(Depth, a) /\ p = LastInput(c) + h
  <2>1. x = LastInput(c) + OrderHint(Depth, a) /\ OrderHint(Depth, a) \in Nat
    BY <1>8, HintFacts, SetupFacts DEF HintAt
  <2> QED
    BY <1>1, <1>4, <1>5, <1>7, <2>1
<1> HIDE DEF h
<1>10. PICK b \in 1 .. a - 1 : EntryAt(Depth, b).shown /\ OrderHint(Depth, b) = h
  BY <1>8, <1>9, SetupFacts, HintsShown
<1>11. b \in 1 .. InLast(c) - 1
  BY <1>5, <1>8
<1>12. HintAt(c, b) = p
  BY <1>9, <1>10 DEF HintAt
<1>13. p < NextKey(c) /\ p <= p
  <2>1. x \in Nat
    BY <1>1, <1>3 DEF x
  <2>2. x < NextKey(c) /\ p < x
    BY <1>4, <1>8
  <2> HIDE DEF p
  <2> QED
    BY <1>1, <1>5, <2>1, <2>2
<1>14. Shows(c, p)
  BY <1>1, <1>10, <1>11, <1>12, <1>13 DEF CoverOK
<1> QED
  BY <1>6, <1>14

\* The frame that is next is before the next key frame.
LEMMA AheadFacts ==
  ASSUME setup \in Setups, NEW c, CtxOK(c), CodedAhead(c), c.nextOutput > 0
  PROVE  /\ Pending(c) # {} /\ c.processed \in Nat
         /\ c.processed < NextKey(c) /\ c.processed < c.count /\ c.processed < c.nextFrame
         /\ c.count \in Nat /\ c.nextFrame \in Nat
<1>1. Pending(c) # {}
  BY DEF CodedAhead
<1>2. c.processed <= c.data[Next0(c)].input /\ Next0(c) \in Live(c)
  BY <1>1, ProcessedBefore, NextFacts
<1>3. c.processed \in Nat /\ c.count \in Nat /\ c.nextFrame \in Nat
  BY CtxFacts DEF CtxOK
<1>4. NextKey(c) \in Nat
  BY LastFacts
<1> DEFINE n == Next0(c)
           x == c.data[n].input
<1>5. x \in Nat /\ x < c.count /\ x < c.nextFrame /\ x < NextKey(c)
  <2>1. n \in Live(c)
    BY <1>2
  <2> HIDE DEF n
  <2> QED
    BY <2>1, PlaceInGroup
<1>6. c.processed <= x
  BY <1>2
<1> HIDE DEF x
<1> QED
  BY <1>1, <1>3, <1>4, <1>5, <1>6

\* The last output frame that is there.
LEMMA LastLive ==
  ASSUME setup \in Setups, NEW c, CtxOK(c), CodedAhead(c), c.nextOutput > 0
  PROVE  LET z == Max(PreviousFi(c, c.nextOutput))
         IN z \in Live(c) /\ \A m \in Live(c) : m \in Nat /\ m <= z
<1>1. c \in Contexts /\ DataOK(c) /\ c.nextOutput \in Nat
  BY CtxFacts DEF CtxOK
<1>2. DOMAIN c.data \subseteq 0 .. c.nextOutput - 1
  BY <1>1 DEF DataOK
<1>3. PreviousFi(c, c.nextOutput) = Live(c)
  BY <1>1, <1>2 DEF PreviousFi, Live
<1>4. Live(c) # {}
  BY <1>1, AheadFacts, LiveFacts
<1>5. Live(c) \subseteq 0 .. c.nextOutput
  BY <1>1, <1>2 DEF Live
<1>6. Max(Live(c)) \in Live(c) /\ \A m \in Live(c) : m <= Max(Live(c))
  BY <1>1, <1>4, <1>5, MaxFacts
<1> QED
  BY <1>3, <1>5, <1>6

\* The groups before the one that a place starts show frames up to its first.
LEMMA GroupEnds ==
  ASSUME NEW d \in Depths, NEW a \in Nat \ {0}, NEW b \in Nat \ {0}, a < b,
         IdxInGroupOutput(d, b) = 0
  PROVE  OrderHint(d, a) <= GroupInputLen(d) * GroupOf(d, b)
<1> DEFINE l == GroupOutputLen(d)
           n == GroupInputLen(d)
           p == GroupOf(d, a)
           q == GroupOf(d, b)
           x == a - 1
           y == b - 1
<1>1. l \in Nat \ {0} /\ n \in Nat \ {0} /\ x \in Nat /\ y \in Nat /\ x < y
  BY GroupFacts
<1>2. p \in Nat /\ q \in Nat /\ OrderHint(d, a) = n * p + EntryAt(d, a).offset
      /\ EntryAt(d, a).offset \in 1 .. n /\ p = x \div l /\ q = y \div l /\ y % l = 0
  BY PlaceIs, EntryFacts DEF GroupOf, IdxInGroupOutput
<1> HIDE DEF l, n, p, q, x, y
<1>3. x % l \in 0 .. l - 1
  BY <1>1, DivFacts
<1>4. p < q
  <2>1. x \div l < y \div l \/ (x \div l = y \div l /\ x % l < y % l)
    BY <1>1, DivMono
  <2> DEFINE r == x % l
             t == y % l
  <2>2. p < q \/ r < t
    BY <1>2, <2>1
  <2>3. r \in 0 .. l - 1 /\ t = 0
    BY <1>2, <1>3
  <2> HIDE DEF r, t
  <2> QED
    BY <1>1, <2>2, <2>3
<1>5. n * p \in Nat /\ n * q \in Nat /\ n * p + n <= n * q
  BY <1>1, <1>2, <1>4, TimesMono
<1> DEFINE np == n * p
           nq == n * q
<1>6. OrderHint(d, a) <= nq
  <2>1. OrderHint(d, a) = np + EntryAt(d, a).offset
    BY <1>2
  <2>2. np \in Nat /\ nq \in Nat /\ np + n <= nq
    BY <1>5
  <2> HIDE DEF np, nq
  <2> QED
    BY <1>1, <1>2, <2>1, <2>2
<1> QED
  BY <1>6 DEF n, q

\* Frames that are called for by an earlier place of the group of pictures.
LEMMA ShownEarlier ==
  ASSUME setup \in Setups, NEW c, CtxOK(c), CoverOK(c), c.nextOutput > 0,
         NEW i \in Nat, c.processed <= i, i < NextKey(c),
         \/ i <= LastInput(c)
         \/ i <= LastInput(c) + GroupInputLen(Depth) * GroupOf(Depth, InLast(c))
         \/ EntryAt(Depth, InLast(c)).shown /\ i < Named(c)
  PROVE  Shows(c, i)
<1>1. /\ LastInput(c) \in Nat /\ InLast(c) \in Nat \ {0} /\ Depth \in Depths
      /\ HintAt(c, InLast(c)) = Named(c) /\ c.processed \in Nat /\ NextKey(c) \in Nat
  BY LastFacts, SetupFacts, CtxFacts DEF CtxOK
<1>2. CASE i <= LastInput(c)
  <2>1. i \in c.processed .. LastInput(c)
    BY <1>1, <1>2
  <2> QED
    BY <2>1 DEF CoverOK
<1>3. CASE i > LastInput(c)
  <2> DEFINE h == i - LastInput(c)
             a == InLast(c)
             s == GroupInputLen(Depth) * GroupOf(Depth, a)
  <2>1. h \in Nat \ {0} /\ i = LastInput(c) + h
    BY <1>1, <1>3
  <2>2. s \in Nat
    BY <1>1, PlaceIs
  <2>3. OrderHint(Depth, a) \in Nat /\ Named(c) = LastInput(c) + OrderHint(Depth, a)
    BY <1>1, HintFacts DEF HintAt
  <2>4. \/ i <= LastInput(c) + s
        \/ EntryAt(Depth, a).shown /\ i < Named(c)
    BY <1>1, <1>3
  <2> HIDE DEF h, s, a
  <2>5. h <= s \/ (EntryAt(Depth, a).shown /\ h < OrderHint(Depth, a))
    BY <1>1, <2>1, <2>2, <2>3, <2>4
  <2>6. PICK b \in 1 .. a - 1 : EntryAt(Depth, b).shown /\ OrderHint(Depth, b) = h
    <3>1. \/ h <= GroupInputLen(Depth) * GroupOf(Depth, a)
          \/ EntryAt(Depth, a).shown /\ h < OrderHint(Depth, a)
      BY <2>5 DEF s
    <3>2. a \in Nat \ {0}
      BY <1>1 DEF a
    <3> QED
      BY <1>1, <2>1, <3>1, <3>2, HintsShown
  <2>7. HintAt(c, b) = i
    BY <2>1, <2>6 DEF HintAt
  <2>8. b \in 1 .. InLast(c) - 1
    BY <2>6 DEF a
  <2> QED
    BY <2>6, <2>7, <2>8 DEF CoverOK
<1> QED
  BY <1>1, <1>2, <1>3

\* When a group of pictures ends all its frames are scheduled.
LEMMA CoveredBefore ==
  ASSUME setup \in Setups, NEW c, CtxOK(c), CodedAhead(c), CoverOK(c), c.nextOutput > 0, Ends(c)
  PROVE  \A i \in c.processed .. NextKey(c) - 1 : Shows(c, i)
<1> SUFFICES ASSUME NEW i \in c.processed .. NextKey(c) - 1
             PROVE  Shows(c, i)
  OBVIOUS
<1>1. /\ LastInput(c) \in Nat /\ InLast(c) \in Nat \ {0} /\ NextKey(c) \in Nat
      /\ c.processed \in Nat /\ Depth \in Depths
      /\ \A a \in Nat \ {0} : HintAt(c, a) \in Nat
      /\ HintAt(c, InLast(c)) = Named(c)
  BY LastFacts, AheadFacts, SetupFacts
<1>2. i \in Nat /\ c.processed <= i /\ i < NextKey(c) /\ NextKey(c) <= Named(c)
  BY <1>1 DEF Ends
<1>3. CASE ~Reorder
  <2>1. Depth = 0
    BY <1>1, <1>3 DEF Reorder, Depth, Depths
  <2>2. EntryAt(Depth, InLast(c)).shown
    BY <1>1, <2>1, NothingHidden
  <2>3. i < Named(c)
    BY <1>1, <1>2
  <2> QED
    BY <1>2, <2>2, <2>3, ShownEarlier
<1>4. CASE Reorder
  <2> DEFINE z == Max(PreviousFi(c, c.nextOutput))
             x == c.data[z].input
             a == z - LastOutput(c)
  <2>1. IdxInGroupOutput(Depth, InLast(c)) = 0 /\ x = NextKey(c) - 1
    BY <1>4 DEF Ends, EndsGop
  <2>2. z \in Live(c)
    BY LastLive
  <2> HIDE DEF z
  <2>3. \/ x <= LastInput(c)
        \/ a \in 1 .. InLast(c) - 1 /\ x = HintAt(c, a)
    <3>1. /\ x \in Nat
          /\ \/ z < LastOutput(c) /\ x < LastInput(c)
             \/ z = LastOutput(c) /\ x = LastInput(c)
             \/ a \in 1 .. InLast(c) - 1 /\ x = HintAt(c, a)
      BY <2>2, PlaceInGroup
    <3> HIDE DEF x, a
    <3> QED
      BY <1>1, <3>1
  <2> HIDE DEF x, a
  <2>4. CASE x <= LastInput(c)
    <3>1. i <= LastInput(c)
      BY <1>1, <1>2, <2>1, <2>4
    <3> QED
      BY <1>2, <3>1, ShownEarlier
  <2>5. CASE a \in 1 .. InLast(c) - 1 /\ x = HintAt(c, a)
    <3> DEFINE s == GroupInputLen(Depth) * GroupOf(Depth, InLast(c))
    <3>1. a \in Nat \ {0} /\ a < InLast(c)
      BY <1>1, <2>5
    <3>2. OrderHint(Depth, a) <= s
      BY <1>1, <2>1, <3>1, GroupEnds
    <3>3. s \in Nat /\ OrderHint(Depth, a) \in Nat
      BY <1>1, <3>1, PlaceIs, HintFacts
    <3>4. x = LastInput(c) + OrderHint(Depth, a)
      BY <2>5 DEF HintAt
    <3>5. i <= x
      BY <1>1, <1>2, <2>1
    <3> HIDE DEF s
    <3>6. i <= LastInput(c) + s
      BY <1>1, <1>2, <3>2, <3>3, <3>4, <3>5
    <3> QED
      BY <1>2, <3>6, ShownEarlier DEF s
  <2> QED
    BY <2>3, <2>4, <2>5
<1> QED
  BY <1>3, <1>4

----------------------------------------------------------------------------
(* How many output frames there are *)

\* The last of the frames of a group.
Base(c, q) == LastInput(c) + GroupInputLen(Depth) * q

\* What is before the frame that a place names, and the next key frame, is decided.
LEMMA BeforeNextFrame ==
  ASSUME setup \in Setups, NEW c, CtxOK(c), CodedAhead(c), c.nextOutput > 0,
         ~NeedsMoreFrameQLookahead(c, Named(c)), NEW i \in Nat, i <= Named(c),
         i < NextKey(c) \/ i < c.count
  PROVE  i < c.nextFrame
<1>1. /\ c \in Contexts /\ QueueOK(c) /\ c.count \in Nat /\ c.nextFrame \in Nat /\ c.count > 0
      /\ Distance \in Nat /\ Named(c) \in Nat /\ NextKey(c) \in Nat /\ LastInput(c) \in Nat
  <2>1. c.count > 0 /\ c.count \in Nat /\ c.nextFrame \in Nat
    BY AheadFacts
  <2>2. Named(c) \in Nat /\ NextKey(c) \in Nat /\ LastInput(c) \in Nat
    BY LastFacts, StartsOK, StartsFacts DEF CtxOK
  <2> QED
    BY <2>1, <2>2, SetupFacts DEF CtxOK
<1>2. CASE c.end
  <2>1. c.limit = c.count /\ c.nextFrame = c.count
    BY <1>1, <1>2 DEF QueueOK
  <2>2. NextKey(c) <= c.count
    BY <1>1, <2>1, NextKeyFacts DEF NextKey, None
  <2> QED
    BY <1>1, <2>1, <2>2
<1>3. CASE ~c.end
  <2>1. Named(c) + Distance + 1 < c.count
    BY <1>1, <1>3, LookaheadFacts
  <2>2. c.count <= c.nextFrame + Distance + 1
    BY <1>1, <1>3 DEF QueueOK
  <2> QED
    BY <1>1, <2>1, <2>2
<1> QED
  BY <1>2, <1>3

\* A place that is not the first of a group is in that of the place before.
LEMMA GroupGoesOn ==
  ASSUME NEW d \in Depths, NEW a \in Nat \ {0}, a > 1, IdxInGroupOutput(d, a) # 0
  PROVE  GroupOf(d, a) = GroupOf(d, a - 1)
<1> DEFINE l == GroupOutputLen(d)
           x == a - 2
           y == a - 1
<1>1. l \in Nat \ {0} /\ x \in Nat /\ y \in Nat /\ y = x + 1 /\ y % l # 0
  BY GroupFacts DEF IdxInGroupOutput
<1>2. GroupOf(d, a) = y \div l /\ GroupOf(d, a - 1) = x \div l
  BY DEF GroupOf
<1> HIDE DEF l, x, y
<1>3. x \div l \in Nat /\ x % l \in 0 .. l - 1 /\ x = (l * (x \div l)) + (x % l)
  BY <1>1, DivFacts
<1> DEFINE q == x \div l
           r == x % l
           m == l * q
<1>4. q \in Nat /\ r \in 0 .. l - 1 /\ x = m + r /\ m \in Nat
  <2> HIDE DEF q, r
  <2>1. q \in Nat /\ r \in 0 .. l - 1 /\ x = m + r
    BY <1>3 DEF q, r
  <2> QED
    BY <1>1, <2>1
<1> HIDE DEF q, r
<1>5. r + 1 # l
  <2> SUFFICES ASSUME r + 1 = l
               PROVE  FALSE
    OBVIOUS
  <2>1. y = m + l
    <3> HIDE DEF m
    <3> QED
      BY <1>1, <1>4
  <2>2. l * (q + 1) = l * q + l /\ q + 1 \in Nat
    BY <1>1, <1>4
  <2>3. y = l * (q + 1) + 0
    BY <1>1, <2>1, <2>2
  <2>4. (l * (q + 1) + 0) % l = 0
    BY <1>1, <2>2, DivIs
  <2> QED
    BY <1>1, <2>3, <2>4
<1>6. r + 1 \in 0 .. l - 1 /\ y = m + (r + 1)
  <2> HIDE DEF m
  <2> QED
    BY <1>1, <1>4, <1>5
<1>7. (l * q + (r + 1)) \div l = q
  BY <1>1, <1>4, <1>6, DivIs
<1>8. y \div l = q
  BY <1>6, <1>7
<1> QED
  BY <1>2, <1>8 DEF q

\* The first place is in the first group.
LEMMA FirstGroup ==
  ASSUME NEW d \in Depths
  PROVE  GroupOf(d, 1) = 0
<1>1. GroupOutputLen(d) \in Nat \ {0}
  BY GroupFacts
<1> HIDE DEF GroupOutputLen
<1> QED
  BY <1>1 DEF GroupOf

LEMMA BoundFacts ==
  ASSUME setup \in Setups, NEW c, CtxOK(c), c.nextOutput > 0
  PROVE  /\ LastGroup(c) \in Nat /\ GroupInputLen(Depth) \in Nat \ {0}
         /\ GroupOutputLen(Depth) \in Nat \ {0} /\ GroupOf(Depth, InLast(c)) \in Nat
         /\ GroupInputLen(Depth) * LastGroup(c) \in Nat
         /\ GroupInputLen(Depth) * GroupOf(Depth, InLast(c)) \in Nat
         /\ Base(c, LastGroup(c)) \in Nat /\ Base(c, GroupOf(Depth, InLast(c))) \in Nat
         /\ Base(c, GroupOf(Depth, InLast(c))) <= Named(c)
         /\ Base(c, LastGroup(c)) >= LastInput(c) + LastGroup(c)
<1>1. /\ LastInput(c) \in Nat /\ InLast(c) \in Nat \ {0} /\ Depth \in Depths
      /\ HintAt(c, InLast(c)) = Named(c)
  BY LastFacts, SetupFacts
<1> DEFINE l == GroupInputLen(Depth)
           q == GroupOf(Depth, InLast(c))
           p == LastGroup(c)
<1>2. l \in Nat \ {0} /\ GroupOutputLen(Depth) \in Nat \ {0}
  BY <1>1, GroupFacts
<1>3. q \in Nat /\ OrderHint(Depth, InLast(c)) = l * q + EntryAt(Depth, InLast(c)).offset
      /\ EntryAt(Depth, InLast(c)).offset \in 1 .. l
  BY <1>1, PlaceIs, EntryFacts
<1>4. p \in Nat
  <2>1. InLast(c) # 1 => InLast(c) - 1 \in Nat \ {0}
    BY <1>1
  <2>2. InLast(c) # 1 => GroupOf(Depth, InLast(c) - 1) \in Nat
    BY <1>1, <2>1, PlaceIs
  <2> QED
    BY <2>2 DEF LastGroup
<1>5. Named(c) = LastInput(c) + OrderHint(Depth, InLast(c))
  BY <1>1 DEF HintAt
<1> HIDE DEF l, q, p
<1>6. l * q \in Nat /\ l * p \in Nat /\ l * p >= p
  BY <1>2, <1>3, <1>4
<1> DEFINE lq == l * q
           lp == l * p
           o == EntryAt(Depth, InLast(c)).offset
<1>7. Base(c, q) = LastInput(c) + lq /\ Base(c, p) = LastInput(c) + lp
  BY DEF Base, l
<1>8. lq \in Nat /\ lp \in Nat /\ lp >= p /\ Named(c) = LastInput(c) + (lq + o) /\ o \in 1 .. l
  BY <1>3, <1>5, <1>6
<1> HIDE DEF lq, lp, o
<1>9. /\ Base(c, q) \in Nat /\ Base(c, p) \in Nat /\ Base(c, q) <= Named(c)
      /\ Base(c, p) >= LastInput(c) + p
  BY <1>1, <1>2, <1>4, <1>7, <1>8
<1> QED
  BY <1>2, <1>3, <1>4, <1>6, <1>9 DEF l, q, p

\* A place that names nothing is in a group that begins before the next key frame.
LEMMA SkipsInGroup ==
  ASSUME setup \in Setups, NEW c, CtxOK(c), CodedAhead(c), CoverOK(c), BoundOK(c),
         c.nextOutput > 0, Named(c) >= NextKey(c), ~Ends(c)
  PROVE  Base(c, GroupOf(Depth, InLast(c))) < NextKey(c)
<1> DEFINE q == GroupOf(Depth, InLast(c))
           x == Base(c, q)
           k == NextKey(c)
<1>1. /\ LastInput(c) \in Nat /\ InLast(c) \in Nat \ {0} /\ Depth \in Depths
      /\ k \in Nat /\ x \in Nat /\ c.processed \in Nat /\ c.processed < k
  BY LastFacts, AheadFacts, BoundFacts, SetupFacts
<1>2. Base(c, LastGroup(c)) < k
  BY DEF BoundOK, Base
<1>3. CASE InLast(c) = 1
  <2>1. q = LastGroup(c)
    BY <1>1, <1>3, FirstGroup DEF LastGroup
  <2> QED
    BY <1>2, <2>1
<1>4. CASE InLast(c) > 1 /\ IdxInGroupOutput(Depth, InLast(c)) # 0
  <2>1. q = LastGroup(c)
    BY <1>1, <1>4, GroupGoesOn DEF LastGroup
  <2> QED
    BY <1>2, <2>1
<1>5. CASE IdxInGroupOutput(Depth, InLast(c)) = 0
  <2> SUFFICES ASSUME ~(x < k)
               PROVE  FALSE
    OBVIOUS
  <2> DEFINE i == k - 1
             z == Max(PreviousFi(c, c.nextOutput))
  <2>1. c.data[z].input # i
    BY <1>5 DEF Ends, EndsGop
  <2>2. i \in Nat /\ c.processed <= i /\ i < k /\ i <= x
    BY <1>1
  <2>3. Shows(c, i)
    <3> HIDE DEF i
    <3> QED
      BY <2>2, ShownEarlier DEF Base
  <2>4. PICK m \in Pending(c) : c.data[m].show /\ c.data[m].input = i
    BY <2>3 DEF Shows
  <2>5. m \in Live(c) /\ z \in Live(c) /\ m \in Nat /\ z \in Nat /\ m <= z
    BY <2>4, LastLive, LiveFacts DEF CtxOK
  <2> HIDE DEF z
  <2>6. m < z
    BY <2>1, <2>4, <2>5
  <2>7. c.data[m].input < c.data[z].input
    BY <2>4, <2>5, <2>6 DEF CtxOK, OrderOK
  <2>8. c.data[z].input \in Nat /\ c.data[z].input < k
    BY <2>5, PlaceInGroup
  <2> QED
    BY <1>1, <2>4, <2>7, <2>8
<1>6. IdxInGroupOutput(Depth, InLast(c)) = 0 \/ InLast(c) = 1 \/ InLast(c) > 1
  BY <1>1
<1> QED
  BY <1>3, <1>4, <1>5, <1>6

\* How far a place in a group of pictures can be.
LEMMA PlaceBound ==
  ASSUME setup \in Setups, NEW c, CtxOK(c), c.nextOutput > 0
  PROVE  InLast(c) <= GroupOutputLen(Depth) * LastGroup(c) + GroupOutputLen(Depth) + 1
<1> DEFINE o == GroupOutputLen(Depth)
           p == LastGroup(c)
           a == InLast(c)
           m == o * p
<1>1. o \in Nat \ {0} /\ p \in Nat /\ a \in Nat \ {0} /\ Depth \in Depths
  BY BoundFacts, LastFacts, SetupFacts
<1>2. m \in Nat
  <2> HIDE DEF o, p
  <2> QED
    BY <1>1
<1>3. a # 1 => \E j \in 1 .. o : a - 1 = m + j
  <2> SUFFICES ASSUME a # 1
               PROVE  \E j \in 1 .. o : a - 1 = m + j
    OBVIOUS
  <2>1. a - 1 \in Nat \ {0} /\ p = GroupOf(Depth, a - 1)
    BY <1>1 DEF LastGroup
  <2> QED
    BY <1>1, <2>1, PlaceIs
<1> HIDE DEF m, o, p, a
<1>4. a <= m + o + 1
  BY <1>1, <1>2, <1>3
<1> QED
  BY <1>4 DEF m, o, p, a

LEMMA TimesGrow ==
  ASSUME NEW k \in Nat, NEW p \in Nat, NEW o \in Nat, NEW x \in Nat, k + p < x
  PROVE  k * (o + 1) \in Nat /\ o * p \in Nat /\ k * (o + 1) + o * p + o + 1 <= x * (o + 1)
<1> DEFINE t == o + 1
           w == (k + p) + 1
<1>1. t \in Nat /\ w \in Nat /\ w <= x
  OBVIOUS
<1>2. k * t \in Nat /\ p * t \in Nat /\ w * t \in Nat /\ x * t \in Nat /\ o * p \in Nat
  <2> HIDE DEF t, w
  <2> QED
    BY <1>1
<1>3. w * t = k * t + p * t + t
  OBVIOUS
<1>4. p * t = o * p + p
  OBVIOUS
<1>5. w * t <= x * t
  <2> HIDE DEF t, w
  <2>1. CASE w < x
    <3>1. t * w + t <= t * x /\ t * w \in Nat /\ t * x \in Nat
      BY <1>1, <2>1, TimesMono
    <3>2. t * w = w * t /\ t * x = x * t
      BY <1>1
    <3> QED
      BY <1>1, <3>1, <3>2
  <2>2. CASE w = x
    BY <1>2, <2>2
  <2> QED
    BY <1>1, <2>1, <2>2
<1> DEFINE kt == k * t
           pt == p * t
           op == o * p
           wt == w * t
           xt == x * t
<1>6. /\ kt \in Nat /\ pt \in Nat /\ op \in Nat /\ wt \in Nat /\ xt \in Nat
      /\ wt = kt + pt + t /\ pt = op + p /\ wt <= xt /\ t = o + 1
  BY <1>2, <1>3, <1>4, <1>5
<1>7. kt + op + o + 1 <= xt
  <2> HIDE DEF kt, pt, op, wt, xt, t
  <2> QED
    BY <1>6
<1> QED
  BY <1>6, <1>7

\* There are at most as many output frames as input frames call for.
LEMMA TotalBound ==
  ASSUME setup \in Setups, NEW c, CtxOK(c), BoundOK(c), c.nextOutput > 0,
         NEW x \in Nat, Base(c, LastGroup(c)) < x
  PROVE  c.nextOutput <= x * (GroupOutputLen(Depth) + 1)
<1> DEFINE o == GroupOutputLen(Depth)
           p == LastGroup(c)
           k == LastInput(c)
           g == LastOutput(c)
           a == InLast(c)
<1>1. o \in Nat /\ p \in Nat /\ k \in Nat /\ g \in Nat /\ a \in Nat /\ c.nextOutput = g + a
  BY BoundFacts, LastFacts
<1>2. k + p < x
  <2>1. Base(c, p) \in Nat /\ Base(c, p) >= k + p
    BY BoundFacts
  <2> HIDE DEF p, k
  <2> QED
    BY <1>1, <2>1 DEF p
<1>3. g <= k * (o + 1)
  BY DEF BoundOK
<1>4. a <= o * p + o + 1
  BY PlaceBound
<1> HIDE DEF o, p, k, g, a
<1>5. k * (o + 1) \in Nat /\ o * p \in Nat /\ k * (o + 1) + o * p + o + 1 <= x * (o + 1)
  BY <1>1, <1>2, TimesGrow
<1>6. x * (o + 1) \in Nat
  BY <1>1
<1> DEFINE kt == k * (o + 1)
           op == o * p
           xt == x * (o + 1)
<1>7. kt \in Nat /\ op \in Nat /\ xt \in Nat /\ kt + op + o + 1 <= xt /\ g <= kt /\ a <= op + o + 1
  BY <1>3, <1>4, <1>5, <1>6
<1>8. g + a <= xt
  <2> HIDE DEF kt, op, xt
  <2> QED
    BY <1>1, <1>7
<1> QED
  BY <1>1, <1>8 DEF o

\* What is in the reference buffer does not depend on frames that are not coded to it.
LEMMA HoldsSame ==
  ASSUME NEW c, NEW e, NEW dec, NEW n, NEW l, NEW s, NEW x, Holds(c, dec, n, s, x),
         Writers(e, l, s) = Writers(c, n, s),
         \A m \in Writers(c, n, s) : e.data[m].input = c.data[m].input
  PROVE  Holds(e, dec, l, s, x)
  BY DEF Holds

\* What a new output frame leaves as it is.
LEMMA AddsLast ==
  ASSUME setup \in Setups, NEW c, CtxOK(c), NEW e, NEW g, NEW k, NEW v, Adds(c, e, g, k, v)
  PROVE  /\ LastOutput(e) = g /\ LastInput(e) = k /\ InLast(e) = c.nextOutput + 1 - g
         /\ e.nextOutput > 0 /\ e.nextOutput = c.nextOutput + 1
         /\ \A i : NextKeyframeInput(e, i) = NextKeyframeInput(c, i)
         /\ \A i : Shows(c, i) => Shows(e, i)
         /\ v # Placeholder /\ v.show => Shows(e, v.input)
         /\ \A n \in Nat : \A s : n <= c.nextOutput => Writers(e, n, s) = Writers(c, n, s)
         /\ \A n, s : Writers(c, n, s) \subseteq Pending(c)
         /\ \A m \in Pending(c) : m \in Nat /\ m < c.nextOutput /\ e.data[m] = c.data[m]
         /\ Pending(e) = IF v = Placeholder THEN Pending(c) ELSE Pending(c) \cup {c.nextOutput}
         /\ e.data[c.nextOutput] = v
<1>1. /\ c \in Contexts /\ DataOK(c) /\ c.nextOutput \in Nat /\ e.nextOutput = c.nextOutput + 1
      /\ e.limit = c.limit /\ e.keyframes = c.keyframes /\ g \in Nat
  BY CtxFacts DEF CtxOK, Adds
<1>2. /\ DOMAIN e.data = DOMAIN c.data \cup {c.nextOutput}
      /\ \A m \in DOMAIN c.data : m < c.nextOutput /\ e.data[m] = c.data[m]
      /\ e.data[c.nextOutput] = v
      /\ Pending(e) = IF v = Placeholder THEN Pending(c) ELSE Pending(c) \cup {c.nextOutput}
      /\ e.gopOutput[c.nextOutput] = g /\ e.gopInput[c.nextOutput] = k
  BY <1>1, AddsFacts
<1>3. \A m \in Pending(c) : m \in Nat /\ m < c.nextOutput /\ e.data[m] = c.data[m]
  BY <1>1, <1>2, LiveFacts DEF Pending
<1>4. e.nextOutput > 0 /\ e.nextOutput - 1 = c.nextOutput /\ e.nextOutput # 0
  BY <1>1
<1>5. LastOutput(e) = g /\ LastInput(e) = k
  BY <1>2, <1>4 DEF LastOutput, LastInput
<1>6. InLast(e) = c.nextOutput + 1 - g
  <2>1. InLast(e) = e.nextOutput - g
    BY <1>5 DEF InLast
  <2> QED
    BY <1>1, <2>1
<1>7. \A i : NextKeyframeInput(e, i) = NextKeyframeInput(c, i)
  BY <1>1 DEF NextKeyframeInput
<1>8. \A i : Shows(c, i) => Shows(e, i)
  <2> SUFFICES ASSUME NEW i, NEW m \in Pending(c), c.data[m].show, c.data[m].input = i
               PROVE  Shows(e, i)
    BY DEF Shows
  <2>1. m \in Pending(e) /\ e.data[m] = c.data[m]
    BY <1>2, <1>3
  <2> QED
    BY <2>1 DEF Shows
<1>9. v # Placeholder /\ v.show => Shows(e, v.input)
  BY <1>2 DEF Shows
<1>10. \A n \in Nat : \A s : n <= c.nextOutput => Writers(e, n, s) = Writers(c, n, s)
  <2> SUFFICES ASSUME NEW n \in Nat, NEW s, n <= c.nextOutput
               PROVE  Writers(e, n, s) = Writers(c, n, s)
    OBVIOUS
  <2>1. \A m \in Pending(c) : (IsCoded(e, m) <=> IsCoded(c, m)) /\ e.data[m].refresh = c.data[m].refresh
    BY <1>3 DEF IsCoded, Skipped
  <2>2. \A m \in Pending(e) : m < n => m \in Pending(c)
    BY <1>1, <1>2
  <2>3. Pending(c) \subseteq Pending(e)
    BY <1>2
  <2> QED
    BY <2>1, <2>2, <2>3 DEF Writers
<1>11. \A n, s : Writers(c, n, s) \subseteq Pending(c)
  BY DEF Writers
<1> QED
  BY <1>1, <1>2, <1>3, <1>4, <1>5, <1>6, <1>7, <1>8, <1>9, <1>10, <1>11

\* The frames that are there to be shown again stay in their slots.
LEMMA AddsSef ==
  ASSUME setup \in Setups, NEW c, CtxOK(c), NEW e, NEW g, NEW k, NEW v, Adds(c, e, g, k, v),
         NEW dec, SefOK(c, dec),
         v # Placeholder /\ v.sef => Holds(c, dec, c.nextOutput, v.slot, v.input)
  PROVE  SefOK(e, dec)
<1>1. /\ \A n \in Nat : \A s : n <= c.nextOutput => Writers(e, n, s) = Writers(c, n, s)
      /\ \A n, s : Writers(c, n, s) \subseteq Pending(c)
      /\ \A m \in Pending(c) : m \in Nat /\ m < c.nextOutput /\ e.data[m] = c.data[m]
      /\ Pending(e) = IF v = Placeholder THEN Pending(c) ELSE Pending(c) \cup {c.nextOutput}
      /\ e.data[c.nextOutput] = v /\ c.nextOutput \in Nat
  BY AddsLast, CtxFacts DEF CtxOK
<1>2. \A n \in Nat : \A s, x : n <= c.nextOutput /\ Holds(c, dec, n, s, x) => Holds(e, dec, n, s, x)
  <2> SUFFICES ASSUME NEW n \in Nat, NEW s, NEW x, n <= c.nextOutput, Holds(c, dec, n, s, x)
               PROVE  Holds(e, dec, n, s, x)
    OBVIOUS
  <2>1. Writers(e, n, s) = Writers(c, n, s)
    BY <1>1
  <2>2. \A m \in Writers(c, n, s) : e.data[m].input = c.data[m].input
    BY <1>1
  <2> QED
    BY <2>1, <2>2, HoldsSame
<1> SUFFICES ASSUME NEW m \in Pending(e), e.data[m].sef
             PROVE  Holds(e, dec, m, e.data[m].slot, e.data[m].input)
  BY DEF SefOK
<1>3. CASE m \in Pending(c)
  <2>1. e.data[m] = c.data[m] /\ m \in Nat /\ m <= c.nextOutput
    BY <1>1, <1>3
  <2>2. Holds(c, dec, m, c.data[m].slot, c.data[m].input)
    BY <1>3, <2>1 DEF SefOK
  <2> QED
    BY <1>2, <2>1, <2>2
<1>4. CASE v # Placeholder /\ m = c.nextOutput
  <2>1. e.data[m] = v /\ m \in Nat /\ m <= c.nextOutput
    BY <1>1, <1>4
  <2>2. Holds(c, dec, m, v.slot, v.input)
    BY <1>4, <2>1
  <2> QED
    BY <1>2, <2>1, <2>2
<1> QED
  BY <1>1, <1>3, <1>4

\* The future of the slots, seen from one place further.
LEMMA AddsFuture ==
  ASSUME setup \in Setups, NEW c, CtxOK(c), NEW e, NEW v,
         Adds(c, e, LastOutput(c), LastInput(c), v),
         NEW dec, FutureOK(c, dec), c.nextOutput > 0,
         v = Placeholder => Named(c) >= NextKey(c),
         v # Placeholder => v.input = Named(c),
         v # Placeholder /\ ~v.sef => SlotAt(InLast(c)) \in v.refresh,
         v # Placeholder => v.sef = EntryAt(Depth, InLast(c)).sef /\ v.type # "skipped",
         v # Placeholder /\ v.sef => v.refresh = {},
         v # Placeholder /\ ~v.sef /\ Depth > 0 => v.refresh = {SlotAt(InLast(c))}
  PROVE  FutureOK(e, dec)
<1> DEFINE N == c.nextOutput
           p == InLast(c)
<1>1. /\ LastOutput(e) = LastOutput(c) /\ LastInput(e) = LastInput(c)
      /\ e.nextOutput = N + 1 /\ NextKey(e) = NextKey(c)
      /\ Pending(e) = IF v = Placeholder THEN Pending(c) ELSE Pending(c) \cup {N}
      /\ e.data[N] = v
      /\ \A m \in Pending(c) : m \in Nat /\ m < N /\ e.data[m] = c.data[m]
      /\ \A n, s : Writers(c, n, s) \subseteq Pending(c)
  BY AddsLast DEF NextKey
<1>2. /\ N \in Nat /\ p \in Nat \ {0} /\ LastInput(c) \in Nat /\ NextKey(c) \in Nat
      /\ N = LastOutput(c) + p /\ LastOutput(c) \in Nat
      /\ HintAt(c, p) = Named(c) /\ Depth \in Depths /\ Named(c) \in Nat
  BY LastFacts, SetupFacts
<1>3. InLast(e) = p + 1
  BY <1>1, <1>2 DEF InLast
<1>4. \A a : HintAt(e, a) = HintAt(c, a)
  BY <1>1 DEF HintAt
<1> SUFFICES ASSUME NEW a \in 1 .. InLast(e) - 1, NEW b \in Nat \ {0},
                    InLast(e) <= b, GroupOf(Depth, a) = GroupOf(Depth, b),
                    OrderHint(Depth, a) = OrderHint(Depth, b), HintAt(e, a) < NextKey(e),
                    ~EntryAt(Depth, a).sef, ~EntryAt(Depth, a).shown, EntryAt(Depth, b).sef
             PROVE  Holds(e, dec, e.nextOutput, SlotAt(a), HintAt(e, a))
  BY DEF FutureOK
<1> HIDE DEF N, p
<1>5. a \in Nat \ {0} /\ a <= p /\ p < b
  BY <1>2, <1>3
<1>6. \A m \in Pending(c) : m < N + 1 /\ m < N /\ (IsCoded(e, m) <=> IsCoded(c, m))
                            /\ e.data[m].refresh = c.data[m].refresh
  BY <1>1, <1>2 DEF IsCoded, Skipped
<1>7. CASE a = p
  <2>1. v # Placeholder /\ ~v.sef /\ v.type # "skipped" /\ v.input = HintAt(e, a)
        /\ SlotAt(a) \in v.refresh
    BY <1>1, <1>2, <1>4, <1>7 DEF p
  <2>2. N \in Writers(e, N + 1, SlotAt(a))
    BY <1>1, <1>2, <2>1 DEF Writers, IsCoded, Skipped
  <2>3. \A m \in Writers(e, N + 1, SlotAt(a)) : m \in Nat /\ m <= N
    BY <1>1, <1>2 DEF Writers
  <2>4. \A m \in Writers(e, N + 1, SlotAt(a)) :
          (\A l \in Writers(e, N + 1, SlotAt(a)) : l <= m) => m = N
    BY <1>2, <2>2, <2>3
  <2>5. \A m \in Writers(e, N + 1, SlotAt(a)) :
          (\A l \in Writers(e, N + 1, SlotAt(a)) : l <= m) => e.data[m].input = HintAt(e, a)
    BY <1>1, <2>1, <2>4
  <2> QED
    BY <1>1, <2>2, <2>5 DEF Holds
<1>8. CASE a < p
  <2>1. a \in 1 .. p - 1 /\ p <= b
    BY <1>2, <1>5, <1>8
  <2>2. Holds(c, dec, N, SlotAt(a), HintAt(c, a))
    BY <1>1, <1>2, <1>4, <2>1 DEF FutureOK, N, p
  <2>3. v # Placeholder => SlotAt(a) \notin v.refresh
    <3> SUFFICES ASSUME v # Placeholder, ~v.sef
                 PROVE  SlotAt(a) \notin v.refresh
      OBVIOUS
    <3>1. Depth > 0
      <4>1. Depth # 0
        BY <1>5, NothingHidden
      <4> QED
        BY <1>2, <4>1 DEF Depths
    <3>2. ~EntryAt(Depth, p).sef
      BY DEF p
    <3>3. EntryAt(Depth, b).shown
      BY <1>2, EntryFacts
    <3>4. SlotAt(a) # SlotAt(p)
      BY <1>2, <1>5, <1>8, <3>2, <3>3, SlotKept DEF SlotAt
    <3> QED
      BY <3>1, <3>4 DEF p
  <2>4. Writers(e, N + 1, SlotAt(a)) = Writers(c, N, SlotAt(a))
    BY <1>1, <1>6, <2>3 DEF Writers
  <2>5. \A m \in Writers(c, N, SlotAt(a)) : e.data[m].input = c.data[m].input
    BY <1>1
  <2> QED
    BY <1>1, <1>4, <2>2, <2>4, <2>5, HoldsSame
<1> QED
  BY <1>2, <1>5, <1>7, <1>8

\* What a round adds without taking anything away.
FlowKept(e, dec) == FlowOK(e) /\ ShowOK(e, dec)

LEMMA StockSame ==
  ASSUME NEW c, StockOK(c), NEW e, e.processed = c.processed, e.count = c.count,
         e.frames = c.frames, e.opaque = c.opaque
  PROVE  StockOK(e)
  BY DEF StockOK

\* A place that names nothing.
LEMMA AddsSkipped ==
  ASSUME setup \in Setups, NEW c, CtxOK(c), CodedAhead(c), FlowOK(c), NEW dec, ShowOK(c, dec),
         c.nextOutput > 0, Named(c) >= NextKey(c), ~Ends(c),
         ~NeedsMoreFrameQLookahead(c, Named(c)),
         NEW e, Adds(c, e, LastOutput(c), LastInput(c), Placeholder)
  PROVE  FlowKept(e, dec)
<1>1. /\ LastOutput(e) = LastOutput(c) /\ LastInput(e) = LastInput(c)
      /\ e.nextOutput = c.nextOutput + 1 /\ NextKey(e) = NextKey(c)
      /\ \A i : Shows(c, i) => Shows(e, i)
      /\ e.processed = c.processed /\ e.count = c.count /\ e.frames = c.frames
      /\ e.opaque = c.opaque /\ e.nextFrame = c.nextFrame
  <2>1. /\ LastOutput(e) = LastOutput(c) /\ LastInput(e) = LastInput(c)
        /\ e.nextOutput = c.nextOutput + 1 /\ \A i : Shows(c, i) => Shows(e, i)
        /\ \A i : NextKeyframeInput(e, i) = NextKeyframeInput(c, i)
    BY AddsLast
  <2>2. /\ e.processed = c.processed /\ e.count = c.count /\ e.frames = c.frames
        /\ e.opaque = c.opaque /\ e.nextFrame = c.nextFrame
    BY DEF Adds
  <2> QED
    BY <2>1, <2>2 DEF NextKey
<1>2. /\ c.nextOutput \in Nat /\ InLast(c) \in Nat \ {0} /\ LastInput(c) \in Nat
      /\ NextKey(c) \in Nat /\ LastOutput(c) \in Nat /\ c.nextOutput = LastOutput(c) + InLast(c)
      /\ HintAt(c, InLast(c)) = Named(c) /\ Named(c) \in Nat /\ Depth \in Depths
  BY LastFacts, SetupFacts
<1>3. InLast(e) = InLast(c) + 1
  BY <1>1, <1>2 DEF InLast
<1>4. \A a : HintAt(e, a) = HintAt(c, a)
  BY <1>1 DEF HintAt
<1>5. CoverOK(e)
  <2>1. \A i \in e.processed .. LastInput(e) : Shows(e, i)
    BY <1>1 DEF FlowOK, CoverOK
  <2>2. ASSUME NEW a \in 1 .. InLast(e) - 1, EntryAt(Depth, a).shown,
               e.processed <= HintAt(e, a), HintAt(e, a) < NextKey(e)
        PROVE  Shows(e, HintAt(e, a))
    <3>1. a # InLast(c)
      BY <1>1, <1>2, <1>4, <2>2
    <3>2. a \in 1 .. InLast(c) - 1
      BY <1>2, <1>3, <3>1
    <3> QED
      BY <1>1, <1>4, <2>2, <3>2 DEF FlowOK, CoverOK
  <2> QED
    BY <2>1, <2>2 DEF CoverOK
<1>6. BoundOK(e)
  <2>1. InLast(e) # 1 /\ InLast(e) - 1 = InLast(c)
    BY <1>2, <1>3
  <2>2. LastGroup(e) = GroupOf(Depth, InLast(c))
    BY <2>1 DEF LastGroup
  <2>3. Base(c, LastGroup(e)) < NextKey(c)
    BY <2>2, SkipsInGroup DEF FlowOK
  <2>4. Base(c, LastGroup(e)) \in Nat /\ Base(c, LastGroup(e)) <= Named(c)
    BY <2>2, BoundFacts
  <2>5. Base(c, LastGroup(e)) < c.nextFrame
    BY <2>3, <2>4, BeforeNextFrame
  <2> QED
    BY <1>1, <2>3, <2>5 DEF FlowOK, BoundOK, Base
<1>7. StockOK(e)
  BY <1>1, StockSame DEF FlowOK
<1>8. SefOK(e, dec)
  BY AddsSef DEF ShowOK
<1>9. FutureOK(e, dec)
  BY AddsFuture DEF ShowOK
<1> QED
  BY <1>5, <1>6, <1>7, <1>8, <1>9 DEF FlowKept, FlowOK, ShowOK

\* A key frame.
LEMMA AddsKey ==
  ASSUME setup \in Setups, NEW c, CtxOK(c), CodedAhead(c), c.count > 0 \/ c.end,
         FlowOK(c), NEW dec, ShowOK(c, dec),
         NEW k \in c.frames, k <= Named(c),
         IF c.nextOutput = 0 THEN k = 0 ELSE k = NextKey(c) /\ Ends(c),
         ~NeedsMoreFrameQLookahead(c, Named(c)),
         NEW v \in FrameInvariants, v.input = k, v.show, ~v.sef,
         NEW e, Adds(c, e, c.nextOutput, k, v)
  PROVE  FlowKept(e, dec)
<1> DEFINE N == c.nextOutput
<1>1. /\ LastOutput(e) = N /\ LastInput(e) = k /\ InLast(e) = N + 1 - N
      /\ e.nextOutput = N + 1 /\ e.nextOutput > 0
      /\ \A i : NextKeyframeInput(e, i) = NextKeyframeInput(c, i)
      /\ \A i : Shows(c, i) => Shows(e, i)
      /\ v # Placeholder /\ v.show => Shows(e, v.input)
  BY AddsLast
<1>2. /\ e.processed = c.processed /\ e.count = c.count /\ e.frames = c.frames
      /\ e.opaque = c.opaque /\ e.nextFrame = c.nextFrame
  BY DEF Adds
<1>3. /\ c \in Contexts /\ QueueOK(c) /\ N \in Nat /\ k \in Nat /\ c.processed \in Nat
      /\ c.count \in Nat /\ c.nextFrame \in Nat /\ Depth \in Depths /\ k < c.count
      /\ c.limit \in Nat \cup {None} /\ setup.maxKey \in Nat \ {0}
  <2>1. c \in Contexts /\ QueueOK(c)
    BY DEF CtxOK
  <2>2. k \in 0 .. c.count - 1 /\ c.count \in Nat
    BY <2>1, CtxFacts DEF QueueOK
  <2> QED
    BY <2>1, <2>2, CtxFacts, SetupFacts
<1>4. Shows(e, k)
  <2>1. v # Placeholder
    BY FiFacts
  <2> QED
    BY <1>1, <2>1
<1>5. InLast(e) = 1
  BY <1>1, <1>3
<1> HIDE DEF N
<1>6. CoverOK(e)
  <2>1. ASSUME NEW i \in e.processed .. k
        PROVE  Shows(e, i)
    <3>1. CASE i = k
      BY <1>4, <3>1
    <3>2. CASE i # k
      <4>1. i \in Nat /\ c.processed <= i /\ i < k
        BY <1>2, <1>3, <2>1, <3>2
      <4>2. N # 0
        BY <1>3, <4>1 DEF N
      <4>3. c.nextOutput > 0 /\ k = NextKey(c) /\ Ends(c)
        BY <1>3, <4>2 DEF N
      <4>4. i \in c.processed .. NextKey(c) - 1
        BY <1>3, <4>1, <4>3
      <4>5. Shows(c, i)
        BY <4>3, <4>4, CoveredBefore DEF FlowOK
      <4> QED
        BY <1>1, <4>5
    <3> QED
      BY <3>1, <3>2
  <2>2. 1 .. InLast(e) - 1 = {}
    BY <1>5
  <2> QED
    BY <1>1, <2>1, <2>2 DEF CoverOK
<1>7. BoundOK(e)
  <2>1. LastGroup(e) = 0
    BY <1>5 DEF LastGroup
  <2>2. GroupInputLen(Depth) \in Nat /\ GroupOutputLen(Depth) \in Nat
    BY <1>3, GroupFacts
  <2>3. GroupInputLen(Depth) * LastGroup(e) = 0
    BY <2>1, <2>2
  <2>4. LastInput(e) + GroupInputLen(Depth) * LastGroup(e) = k
    BY <1>1, <1>3, <2>3
  <2>5. k < c.nextFrame
    <3>1. CASE N = 0
      <4>1. k = 0
        BY <3>1 DEF N
      <4>2. c.nextFrame >= 1
        BY <1>3 DEF QueueOK
      <4> QED
        BY <1>3, <4>1, <4>2
    <3>2. CASE N # 0
      <4>1. c.nextOutput > 0
        BY <1>3, <3>2 DEF N
      <4> QED
        BY <1>3, <4>1, BeforeNextFrame
    <3> QED
      BY <3>1, <3>2
  <2>6. k < NextKey(e)
    <3>1. NextKey(e) = NextKeyframeInput(c, k)
      BY <1>1 DEF NextKey
    <3>2. /\ NextKeyframeInput(c, k) \in Nat
          /\ \/ NextKeyframeInput(c, k) > k
             \/ NextKeyframeInput(c, k) = k + setup.maxKey
             \/ NextKeyframeInput(c, k) = c.limit
      BY <1>3, NextKeyFacts
    <3>3. c.limit # None => c.count <= c.limit
      BY <1>3 DEF QueueOK
    <3> QED
      BY <1>3, <3>1, <3>2, <3>3 DEF None
  <2>7. N <= k * (GroupOutputLen(Depth) + 1)
    <3>1. CASE N = 0
      <4>1. k = 0
        BY <3>1 DEF N
      <4> QED
        BY <2>2, <3>1, <4>1
    <3>2. CASE N # 0
      <4>1. c.nextOutput > 0 /\ k = NextKey(c)
        BY <1>3, <3>2 DEF N
      <4>2. Base(c, LastGroup(c)) < k
        BY <4>1 DEF FlowOK, BoundOK, Base
      <4> QED
        BY <1>3, <4>1, <4>2, TotalBound DEF N, FlowOK
    <3> QED
      BY <3>1, <3>2
  <2> QED
    BY <1>1, <1>2, <2>4, <2>5, <2>6, <2>7 DEF BoundOK
<1>8. StockOK(e)
  BY <1>2, StockSame DEF FlowOK
<1>9. SefOK(e, dec)
  BY AddsSef DEF ShowOK
<1>10. FutureOK(e, dec)
  <2>1. 1 .. InLast(e) - 1 = {}
    BY <1>5
  <2> QED
    BY <2>1 DEF FutureOK
<1> QED
  BY <1>6, <1>7, <1>8, <1>9, <1>10 DEF FlowKept, FlowOK, ShowOK

\* Another frame of the group of pictures.
LEMMA AddsInter ==
  ASSUME setup \in Setups, NEW c, CtxOK(c), CodedAhead(c), FlowOK(c), NEW dec, ShowOK(c, dec),
         c.nextOutput > 0, Named(c) < NextKey(c), ~NeedsMoreFrameQLookahead(c, Named(c)),
         NEW v \in FrameInvariants, v.input = Named(c),
         v.sef = EntryAt(Depth, InLast(c)).sef, v.show = EntryAt(Depth, InLast(c)).shown,
         v.slot = SlotAt(InLast(c)),
         v.refresh = IF Switches(InLast(c), EntryAt(Depth, InLast(c))) THEN RefSlots
                     ELSE IF v.sef THEN {} ELSE {SlotAt(InLast(c))},
         NEW e, Adds(c, e, LastOutput(c), LastInput(c), v)
  PROVE  FlowKept(e, dec)
<1> DEFINE p == InLast(c)
<1>1. /\ LastOutput(e) = LastOutput(c) /\ LastInput(e) = LastInput(c)
      /\ e.nextOutput = c.nextOutput + 1 /\ NextKey(e) = NextKey(c)
      /\ \A i : Shows(c, i) => Shows(e, i)
      /\ v # Placeholder /\ v.show => Shows(e, v.input)
      /\ e.processed = c.processed /\ e.count = c.count /\ e.frames = c.frames
      /\ e.opaque = c.opaque /\ e.nextFrame = c.nextFrame
  <2>1. /\ LastOutput(e) = LastOutput(c) /\ LastInput(e) = LastInput(c)
        /\ e.nextOutput = c.nextOutput + 1 /\ \A i : Shows(c, i) => Shows(e, i)
        /\ \A i : NextKeyframeInput(e, i) = NextKeyframeInput(c, i)
        /\ v # Placeholder /\ v.show => Shows(e, v.input)
    BY AddsLast
  <2>2. /\ e.processed = c.processed /\ e.count = c.count /\ e.frames = c.frames
        /\ e.opaque = c.opaque /\ e.nextFrame = c.nextFrame
    BY DEF Adds
  <2> QED
    BY <2>1, <2>2 DEF NextKey
<1>2. /\ c.nextOutput \in Nat /\ p \in Nat \ {0} /\ LastInput(c) \in Nat
      /\ NextKey(c) \in Nat /\ LastOutput(c) \in Nat /\ c.nextOutput = LastOutput(c) + p
      /\ HintAt(c, p) = Named(c) /\ Named(c) \in Nat /\ Depth \in Depths
      /\ setup.switch \in Nat /\ (setup.switch > 0 => Depth = 0)
  BY LastFacts, SetupFacts
<1>3. InLast(e) = p + 1
  BY <1>1, <1>2 DEF InLast
<1>4. \A a : HintAt(e, a) = HintAt(c, a)
  BY <1>1 DEF HintAt
<1>5. v # Placeholder /\ v.type # "skipped" /\ v.sef \in BOOLEAN
  BY FiFacts
<1>6. CoverOK(e)
  <2>1. \A i \in e.processed .. LastInput(e) : Shows(e, i)
    BY <1>1 DEF FlowOK, CoverOK
  <2>2. ASSUME NEW a \in 1 .. InLast(e) - 1, EntryAt(Depth, a).shown,
               e.processed <= HintAt(e, a), HintAt(e, a) < NextKey(e)
        PROVE  Shows(e, HintAt(e, a))
    <3>1. CASE a = p
      <4>1. v.show /\ v.input = HintAt(e, a)
        BY <1>2, <1>4, <2>2, <3>1
      <4> QED
        BY <1>1, <1>5, <4>1
    <3>2. CASE a # p
      <4>1. a \in 1 .. p - 1
        <5>1. a \in 1 .. (p + 1) - 1 /\ p \in Nat
          BY <1>2, <1>3, <2>2
        <5> HIDE DEF p
        <5> QED
          BY <3>2, <5>1
      <4> QED
        BY <1>1, <1>4, <2>2, <4>1 DEF FlowOK, CoverOK
    <3> QED
      BY <3>1, <3>2
  <2> QED
    BY <2>1, <2>2 DEF CoverOK
<1>7. BoundOK(e)
  <2>1. InLast(e) # 1 /\ InLast(e) - 1 = p
    BY <1>2, <1>3
  <2>2. LastGroup(e) = GroupOf(Depth, p)
    BY <2>1 DEF LastGroup
  <2>3. Base(c, LastGroup(e)) \in Nat /\ Base(c, LastGroup(e)) <= Named(c)
    BY <2>2, BoundFacts
  <2>4. Base(c, LastGroup(e)) < NextKey(c)
    BY <1>2, <2>3
  <2>5. Base(c, LastGroup(e)) < c.nextFrame
    BY <2>3, <2>4, BeforeNextFrame
  <2> QED
    BY <1>1, <2>4, <2>5 DEF FlowOK, BoundOK, Base
<1>8. StockOK(e)
  BY <1>1, StockSame DEF FlowOK
<1>9. SefOK(e, dec)
  <2> SUFFICES ASSUME v.sef
               PROVE  Holds(c, dec, c.nextOutput, v.slot, v.input)
    BY AddsSef DEF ShowOK
  <2>1. PICK a \in 1 .. p - 1 :
           /\ GroupOf(Depth, a) = GroupOf(Depth, p) /\ OrderHint(Depth, a) = OrderHint(Depth, p)
           /\ ~EntryAt(Depth, a).sef /\ ~EntryAt(Depth, a).shown
           /\ EntryAt(Depth, a).level = EntryAt(Depth, p).level
    BY <1>2, HiddenBefore
  <2>2. HintAt(c, a) = HintAt(c, p)
    BY <2>1 DEF HintAt
  <2>3. SlotAt(a) = SlotAt(p)
    BY <2>1 DEF SlotAt
  <2>4. Holds(c, dec, c.nextOutput, SlotAt(a), HintAt(c, a))
    <3>1. InLast(c) <= p /\ p \in Nat \ {0} /\ a \in 1 .. InLast(c) - 1
      BY <1>2, <2>1
    <3>2. HintAt(c, a) < NextKey(c)
      BY <1>2, <2>2
    <3> QED
      BY <2>1, <3>1, <3>2 DEF ShowOK, FutureOK
  <2> QED
    BY <1>2, <2>2, <2>3, <2>4
<1>10. FutureOK(e, dec)
  <2>1. ~v.sef => SlotAt(p) \in v.refresh
    <3>1. SlotAt(p) \in RefSlots
      BY <1>2, EntryFacts, HintFacts, SlotFacts DEF SlotAt
    <3> QED
      BY <3>1
  <2>2. Depth > 0 => ~Switches(p, EntryAt(Depth, p))
    BY <1>2 DEF Switches, Depths
  <2>3. v.sef => v.refresh = {}
    <3> SUFFICES ASSUME v.sef
                 PROVE  Depth > 0
      BY <2>2
    <3>1. Depth # 0
      BY <1>2, NothingHidden
    <3> QED
      BY <1>2, <3>1 DEF Depths
  <2> QED
    BY <1>5, <2>1, <2>2, <2>3, AddsFuture DEF ShowOK
<1> QED
  BY <1>6, <1>7, <1>8, <1>9, <1>10 DEF FlowKept, FlowOK, ShowOK

\* Context e has the output frames of c.
Alike(c, e) ==
  /\ e.nextOutput = c.nextOutput /\ LastOutput(e) = LastOutput(c) /\ LastInput(e) = LastInput(c)
  /\ e.processed = c.processed /\ e.data = c.data /\ e.output = c.output

LEMMA AlikeFlow ==
  ASSUME setup \in Setups, NEW c, CtxOK(c), NEW e, Alike(c, e), NextKey(e) \in Nat,
         NextKey(e) <= NextKey(c), CoverOK(c), NEW dec, ShowOK(c, dec)
  PROVE  /\ CoverOK(e) /\ ShowOK(e, dec)
         /\ InLast(e) = InLast(c) /\ LastGroup(e) = LastGroup(c)
         /\ \A i : Shows(e, i) <=> Shows(c, i)
<1>1. InLast(e) = InLast(c) /\ \A a : HintAt(e, a) = HintAt(c, a)
  BY DEF Alike, InLast, HintAt
<1>2. LastGroup(e) = LastGroup(c)
  BY <1>1 DEF LastGroup
<1>3. Pending(e) = Pending(c) /\ \A m : IsCoded(e, m) <=> IsCoded(c, m)
  BY DEF Alike, Pending, Skipped, IsCoded
<1>4. \A i : Shows(e, i) <=> Shows(c, i)
  BY <1>3 DEF Alike, Shows
<1>5. c.nextOutput > 0 => /\ NextKey(c) \in Nat
                          /\ \A a \in 1 .. InLast(c) - 1 : HintAt(c, a) \in Nat
  <2> SUFFICES ASSUME c.nextOutput > 0
               PROVE  /\ NextKey(c) \in Nat
                      /\ \A a \in 1 .. InLast(c) - 1 : HintAt(c, a) \in Nat
    OBVIOUS
  <2>1. NextKey(c) \in Nat /\ InLast(c) \in Nat /\ \A a \in Nat \ {0} : HintAt(c, a) \in Nat
    BY LastFacts
  <2> QED
    BY <2>1
<1>6. c.nextOutput > 0 => \A a \in 1 .. InLast(c) - 1 :
                            HintAt(e, a) < NextKey(e) => HintAt(c, a) < NextKey(c)
  <2> SUFFICES ASSUME c.nextOutput > 0, NEW a \in 1 .. InLast(c) - 1, HintAt(c, a) < NextKey(e)
               PROVE  HintAt(c, a) < NextKey(c)
    BY <1>1
  <2> QED
    BY <1>5
<1>7. CoverOK(e)
  BY <1>1, <1>4, <1>6 DEF CoverOK, Alike
<1>8. \A n, s : Writers(e, n, s) = Writers(c, n, s)
  BY <1>3 DEF Writers, Alike
<1>9. \A n, s, x : Holds(c, dec, n, s, x) => Holds(e, dec, n, s, x)
  BY <1>8 DEF Holds, Alike
<1>10. SefOK(e, dec)
  BY <1>3, <1>9 DEF ShowOK, SefOK, Alike
<1>11. FutureOK(e, dec)
  <2>1. e.nextOutput = c.nextOutput
    BY DEF Alike
  <2> QED
    BY <1>1, <1>6, <1>9, <2>1 DEF ShowOK, FutureOK
<1> QED
  BY <1>1, <1>2, <1>4, <1>7, <1>10, <1>11 DEF ShowOK

\* When there is nothing to add the flow is as it was.
LEMMA GroupedFlow ==
  ASSUME setup \in Setups, NEW c, CtxOK(c), FlowOK(c), NEW dec, ShowOK(c, dec), NEW t \in SUBSET Nat
  PROVE  LET e == Grouped(c, LastOutput(c), LastInput(c), t)
         IN FlowKept(e, dec) /\ \A i : Shows(e, i) <=> Shows(c, i)
<1> DEFINE g == LastOutput(c)
           k == LastInput(c)
           n == c.nextOutput
           e == Grouped(c, g, k, t)
<1>1. c \in Contexts /\ n \in Nat /\ Starts(c) /\ g \in Nat /\ k \in Nat
  BY CtxFacts, StartsOK, StartsFacts DEF CtxOK
<1>2. /\ e \in Contexts /\ e.count = c.count /\ e.limit = c.limit /\ e.output = c.output
      /\ e.processed = c.processed /\ e.frames = c.frames /\ e.end = c.end
      /\ e.data = c.data /\ e.keyframes = c.keyframes
      /\ e.nextFrame = c.nextFrame /\ e.nextOutput = n /\ e.opaque = c.opaque
      /\ e.gopOutput = Insert(c.gopOutput, n, g)
      /\ e.gopInput = Insert(c.gopInput, n, k)
  <2> HIDE DEF g, k
  <2> QED
    BY <1>1, GroupedFacts
<1> HIDE DEF e
<1>3. LastOutput(e) = g /\ LastInput(e) = k
  <2>1. CASE n = 0
    BY <1>2, <2>1 DEF LastOutput, LastInput, g, k
  <2>2. CASE n # 0
    <3>1. n - 1 \in DOMAIN c.gopOutput /\ n - 1 \in DOMAIN c.gopInput /\ n - 1 # n
      BY <1>1, <2>2 DEF Starts
    <3>2. e.gopOutput[n - 1] = c.gopOutput[n - 1] /\ e.gopInput[n - 1] = c.gopInput[n - 1]
      BY <1>2, <3>1 DEF Insert
    <3> QED
      BY <1>2, <2>2, <3>2 DEF LastOutput, LastInput, g, k
  <2> QED
    BY <2>1, <2>2
<1>4. NextKey(e) = NextKey(c)
  BY <1>2, <1>3 DEF NextKey, NextKeyframeInput, k
<1>5. NextKey(c) \in Nat
  BY <1>1, NextKeyFacts DEF NextKey
<1>6. Alike(c, e)
  BY <1>2, <1>3 DEF Alike, g, k
<1>7. /\ CoverOK(e) /\ ShowOK(e, dec)
      /\ InLast(e) = InLast(c) /\ LastGroup(e) = LastGroup(c)
      /\ \A i : Shows(e, i) <=> Shows(c, i)
  BY <1>4, <1>5, <1>6, AlikeFlow DEF FlowOK
<1>8. BoundOK(e)
  BY <1>2, <1>3, <1>4, <1>7 DEF FlowOK, BoundOK, g, k
<1>9. StockOK(e)
  BY <1>2, StockSame DEF FlowOK
<1> QED
  BY <1>7, <1>8, <1>9 DEF FlowKept, FlowOK, e, g, k

\* After the end the look-ahead is full.
LEMMA LookaheadDone ==
  ASSUME NEW c \in Contexts, QueueOK(c), c.end, NEW i \in Nat
  PROVE  ~NeedsMoreFrameQLookahead(c, i)
<1> DEFINE S == {0} \cup c.frames \cup (IF c.end THEN {c.count} ELSE {})
<1>1. c.count \in Nat /\ c.frames \subseteq 0 .. c.count - 1 /\ c.limit = c.count
  BY CtxFacts DEF QueueOK
<1>2. S \subseteq 0 .. c.count /\ c.count \in S
  BY <1>1
<1>3. Max(S) \in S /\ \A x \in S : x <= Max(S)
  <2> HIDE DEF S
  <2> QED
    BY <1>1, <1>2, MaxFacts
<1>4. LookaheadEnd(c) = Max(S)
  BY DEF LookaheadEnd
<1> HIDE DEF S
<1>5. LookaheadEnd(c) >= c.count /\ LookaheadEnd(c) \in Nat
  <2>1. Max(S) \in 0 .. c.count
    BY <1>2, <1>3
  <2>2. c.count <= Max(S)
    BY <1>2, <1>3
  <2> QED
    BY <1>1, <1>4, <2>1, <2>2
<1>6. ~NeedsMoreFrames(c, LookaheadEnd(c))
  BY <1>1, <1>5 DEF NeedsMoreFrames, None
<1> QED
  BY <1>6 DEF NeedsMoreFrameQLookahead

\* Packets are for frames before the one that is named next.
LEMMA ProcessedNamed ==
  ASSUME setup \in Setups, NEW c, CtxOK(c), c.nextOutput > 0
  PROVE  c.processed <= Named(c)
<1>1. /\ LastInput(c) \in Nat /\ InLast(c) \in Nat \ {0} /\ Depth \in Depths
      /\ HintAt(c, InLast(c)) = Named(c) /\ Named(c) \in Nat /\ c.processed \in Nat
      /\ Named(c) > LastInput(c)
  BY LastFacts, SetupFacts, CtxFacts DEF CtxOK
<1>2. CASE c.processed = 0
  BY <1>1, <1>2
<1>3. CASE c.processed > 0
  <2>1. PICK m \in Live(c) : c.data[m].show /\ c.processed <= c.data[m].input + 1
    BY <1>3 DEF CtxOK, ProcessedOK
  <2> DEFINE a == m - LastOutput(c)
             x == c.data[m].input
  <2>2. /\ x \in Nat
        /\ \/ x <= LastInput(c)
           \/ a \in 1 .. InLast(c) - 1 /\ x = HintAt(c, a) /\ EntryAt(Depth, a).shown
    <3>1. /\ x \in Nat
          /\ \/ m < LastOutput(c) /\ x < LastInput(c)
             \/ m = LastOutput(c) /\ x = LastInput(c)
             \/ a \in 1 .. InLast(c) - 1 /\ x = HintAt(c, a) /\ c.data[m].show = EntryAt(Depth, a).shown
      BY PlaceInGroup
    <3>2. x < LastInput(c) \/ x = LastInput(c) => x <= LastInput(c)
      BY <1>1, <3>1
    <3> HIDE DEF x, a
    <3> QED
      BY <2>1, <3>1, <3>2
  <2> HIDE DEF a
  <2>3. ASSUME a \in 1 .. InLast(c) - 1, x = HintAt(c, a), EntryAt(Depth, a).shown
        PROVE  x < Named(c)
    <3>1. a \in Nat \ {0} /\ a < InLast(c)
      BY <1>1, <2>3
    <3>2. OrderHint(Depth, a) < OrderHint(Depth, InLast(c))
      BY <1>1, <2>3, <3>1, HintMono
    <3>3. OrderHint(Depth, a) \in Nat /\ OrderHint(Depth, InLast(c)) \in Nat
      BY <1>1, <3>1, HintFacts
    <3>4. x = LastInput(c) + OrderHint(Depth, a)
          /\ Named(c) = LastInput(c) + OrderHint(Depth, InLast(c))
      BY <1>1, <2>3 DEF HintAt
    <3> QED
      BY <1>1, <3>2, <3>3, <3>4
  <2>4. x < Named(c)
    <3> HIDE DEF x
    <3> QED
      BY <1>1, <2>2, <2>3
  <2>5. c.processed <= x + 1
    BY <2>1
  <2> HIDE DEF x
  <2> QED
    BY <1>1, <2>2, <2>4, <2>5
<1> QED
  BY <1>1, <1>2, <1>3

\* When there is nothing to add after the end, all is scheduled.
LEMMA NothingLeft ==
  ASSUME setup \in Setups, NEW c, CtxOK(c), CodedAhead(c), FlowOK(c), Waits(c)
  PROVE  AllOK(c)
<1> SUFFICES ASSUME c.end, NEW i \in c.processed .. c.count - 1
             PROVE  Shows(c, i)
  BY DEF AllOK
<1>1. /\ c \in Contexts /\ QueueOK(c) /\ c.count \in Nat /\ c.processed \in Nat
      /\ c.limit = c.count /\ Named(c) \in Nat /\ c.nextOutput \in Nat
  BY CtxFacts, StartsOK, StartsFacts DEF CtxOK, QueueOK
<1>2. ~NeedsMoreFrameQLookahead(c, Named(c))
  BY <1>1, LookaheadDone
<1>3. \A j \in c.processed .. c.count - 1 : j \in c.frames
  BY DEF FlowOK, StockOK
<1>4. CASE c.nextOutput = 0
  <2>1. 0 \notin c.frames
    BY <1>1, <1>2, <1>4, StartsOK, StartsFacts DEF Waits
  <2>2. Live(c) = {}
    BY <1>4, LiveFacts DEF CtxOK, DataOK
  <2>3. c.processed = 0
    BY <1>1, <2>2 DEF CtxOK, ProcessedOK
  <2>4. 0 \in c.processed .. c.count - 1
    BY <1>1, <2>3
  <2> QED
    BY <1>3, <2>1, <2>4
<1>5. CASE c.nextOutput > 0
  <2>1. /\ NextKey(c) \in Nat /\ NextKey(c) <= c.count /\ c.processed < NextKey(c)
    BY <1>1, <1>5, NextKeyFacts, LastFacts, AheadFacts DEF NextKey, None
  <2>2. ~(Named(c) < NextKey(c) /\ Named(c) \notin c.frames)
    <3> SUFFICES ASSUME Named(c) < NextKey(c)
                 PROVE  Named(c) \in c.frames
      OBVIOUS
    <3>1. c.processed <= Named(c)
      BY <1>5, ProcessedNamed
    <3>2. Named(c) \in c.processed .. c.count - 1
      BY <1>1, <2>1, <3>1
    <3> QED
      BY <1>3, <3>2
  <2>3. Ends(c) /\ NextKey(c) \notin c.frames
    BY <1>1, <1>2, <1>5, <2>2 DEF Waits
  <2>4. NextKey(c) = c.count
    <3> SUFFICES ASSUME NextKey(c) # c.count
                 PROVE  FALSE
      OBVIOUS
    <3>1. NextKey(c) \in c.processed .. c.count - 1
      BY <1>1, <2>1
    <3> QED
      BY <1>3, <2>3, <3>1
  <2>5. i \in c.processed .. NextKey(c) - 1
    BY <2>4
  <2> QED
    BY <1>5, <2>3, <2>5, CoveredBefore DEF FlowOK
<1> QED
  BY <1>1, <1>4, <1>5

\* What the loop leaves as it is.
Untouched(c, e) ==
  /\ e.count = c.count /\ e.limit = c.limit /\ e.output = c.output /\ e.processed = c.processed
  /\ e.frames = c.frames /\ e.end = c.end /\ e.nextFrame = c.nextFrame /\ e.opaque = c.opaque

\* One round of the loop, once more: all is scheduled when it ends after the end.
LEMMA RoundFlow ==
  ASSUME setup \in Setups, NEW c, LoopOK(c), FlowOK(c), NEW dec, ShowOK(c, dec)
  PROVE  LET it == Schedule(SetFrameProperties(c, c.nextOutput), c.nextOutput)
         IN /\ FlowKept(it.c, dec) /\ Untouched(c, it.c)
            /\ IF it.ok THEN it.c.nextOutput = c.nextOutput + 1 ELSE AllOK(it.c)
<1> DEFINE n == c.nextOutput
           r == SetFrameProperties(c, n)
           it == Schedule(r, n)
           g == LastOutput(c)
           k == LastInput(c)
           Goal == /\ FlowKept(it.c, dec) /\ Untouched(c, it.c)
                   /\ IF it.ok THEN it.c.nextOutput = n + 1 ELSE AllOK(it.c)
<1> SUFFICES Goal
  OBVIOUS
<1>1. /\ c \in Contexts /\ CtxOK(c) /\ CodedAhead(c) /\ QueueOK(c) /\ Starts(c) /\ n \in Nat
      /\ c.count > 0 \/ c.end
  BY CtxFacts, StartsOK DEF LoopOK, CtxOK
<1>2. g \in Nat /\ k \in Nat /\ Named(c) \in Nat
  BY <1>1, StartsFacts
<1>3. \/ NothingNext(c, r)
      \/ /\ ~NeedsMoreFrameQLookahead(c, Named(c))
         /\ SkippedNext(c, r) \/ KeyNext(c, r) \/ InterNext(c, r)
  BY <1>1, BuildCases
<1>4. ASSUME NEW h \in Nat, NEW l \in Nat, NEW t \in SUBSET Nat,
             NEW v \in FrameInvariants \cup {Placeholder},
             r.ok, r.c = WithData(c, h, l, t, v),
             \A e : Adds(c, e, h, l, Looked(c, v)) => FlowKept(e, dec)
      PROVE  Goal
  <2> DEFINE e == [LookAhead(WithData(c, h, l, t, v), n) EXCEPT !.nextOutput = n + 1]
             w == Looked(c, v)
  <2>1. it = [ok |-> TRUE, c |-> e]
    BY <1>4 DEF Schedule
  <2>2. Adds(c, e, h, l, w)
    BY <1>1, <1>4, ScheduleFacts
  <2>3. it.ok /\ it.c = e
    BY <2>1
  <2> HIDE DEF e, w, it, r
  <2>4. FlowKept(e, dec)
    BY <1>4, <2>2 DEF w
  <2>5. Untouched(c, e) /\ e.nextOutput = n + 1
    BY <2>2 DEF Adds, Untouched
  <2> QED
    BY <2>3, <2>4, <2>5
<1>5. CASE NothingNext(c, r)
  <2>1. PICK t \in SUBSET Nat : r.c = Grouped(c, g, k, t)
    BY <1>5 DEF NothingNext
  <2> DEFINE e == Grouped(c, g, k, t)
  <2>2. it.c = e /\ ~it.ok
    BY <1>5, <2>1 DEF NothingNext, Schedule
  <2>3. AllOK(c)
    BY <1>1, <1>5, NothingLeft DEF NothingNext
  <2>4. FlowKept(e, dec) /\ \A i : Shows(e, i) <=> Shows(c, i)
    BY <1>1, GroupedFlow
  <2>5. Untouched(c, e)
    <3>1. /\ e.count = c.count /\ e.limit = c.limit /\ e.output = c.output
          /\ e.processed = c.processed /\ e.frames = c.frames /\ e.end = c.end
          /\ e.nextFrame = c.nextFrame /\ e.opaque = c.opaque
      <4> HIDE DEF g, k
      <4> QED
        BY <1>1, <1>2, GroupedFacts
    <3> QED
      BY <3>1 DEF Untouched
  <2> HIDE DEF e, it, r
  <2>6. AllOK(e)
    BY <2>3, <2>4, <2>5 DEF AllOK, Untouched
  <2> QED
    BY <2>2, <2>4, <2>5, <2>6
<1>6. CASE ~NeedsMoreFrameQLookahead(c, Named(c)) /\ SkippedNext(c, r)
  <2>1. PICK t \in SUBSET Nat : r.c = WithData(c, g, k, t, Placeholder)
    BY <1>6 DEF SkippedNext
  <2>2. r.ok /\ n > 0 /\ Named(c) >= NextKey(c) /\ ~Ends(c)
    BY <1>6 DEF SkippedNext
  <2>3. Looked(c, Placeholder) = Placeholder
    BY DEF Looked
  <2>4. \A e : Adds(c, e, g, k, Looked(c, Placeholder)) => FlowKept(e, dec)
    BY <1>1, <1>6, <2>2, <2>3, AddsSkipped
  <2> HIDE DEF Goal, r, g, k
  <2> QED
    BY <1>2, <1>4, <2>1, <2>2, <2>4
<1>7. CASE ~NeedsMoreFrameQLookahead(c, Named(c)) /\ KeyNext(c, r)
  <2>1. PICK t \in SUBSET Nat, l \in c.frames, t35 \in Nat \cup {None} :
             /\ r.c = WithData(c, n, l, t, KeyFi(l, t35))
             /\ l <= Named(c)
             /\ IF n = 0 THEN l = 0 ELSE l = NextKey(c) /\ Ends(c)
    BY <1>7 DEF KeyNext
  <2> DEFINE v == KeyFi(l, t35)
             w == Looked(c, v)
  <2>2. r.ok /\ l \in Nat
    BY <1>1, <1>7, CtxFacts DEF KeyNext
  <2>3. v \in FrameInvariants /\ v.input = l /\ v.show /\ ~v.sef
    BY <2>2, KeyFiFacts
  <2>4. w \in FrameInvariants /\ w.input = l /\ w.show /\ ~w.sef
    <3> HIDE DEF v
    <3> QED
      BY <1>1, <2>3, LookedFacts
  <2>5. r.c = WithData(c, n, l, t, v)
    BY <2>1
  <2>6. \A e : Adds(c, e, n, l, w) => FlowKept(e, dec)
    <3> SUFFICES ASSUME NEW e, Adds(c, e, n, l, w)
                 PROVE  FlowKept(e, dec)
      OBVIOUS
    <3> HIDE DEF w
    <3> QED
      BY <1>1, <1>7, <2>1, <2>4, AddsKey
  <2> HIDE DEF Goal, r, n, v
  <2> QED
    BY <1>1, <1>4, <2>2, <2>3, <2>5, <2>6
<1>8. CASE ~NeedsMoreFrameQLookahead(c, Named(c)) /\ InterNext(c, r)
  <2> DEFINE prev == c.data[Max(PreviousCodedFi(c, n))]
             a == InLast(c)
             V(t35) == EntryFi(prev, EntryAt(Depth, a), OrderHint(Depth, a), a, Named(c), t35)
  <2>1. PICK t \in SUBSET Nat, t35 \in Nat \cup {None} : r.c = WithData(c, g, k, t, V(t35))
    BY <1>8 DEF InterNext
  <2>2. r.ok /\ n > 0 /\ Named(c) < NextKey(c)
    BY <1>8 DEF InterNext
  <2>3. prev \in FrameInvariants /\ a \in Nat \ {0} /\ Depth \in Depths
    BY <1>1, <2>2, PreviousFacts, LastFacts, SetupFacts
  <2> DEFINE v == V(t35)
             w == Looked(c, v)
  <2>4. /\ v \in FrameInvariants /\ v.input = Named(c)
        /\ v.sef = EntryAt(Depth, a).sef /\ v.show = EntryAt(Depth, a).shown
    <3> DEFINE i == Named(c)
    <3>1. i \in Nat /\ t35 \in Nat \cup {None}
      BY <1>2
    <3> HIDE DEF prev, a, i
    <3>2. LET fi == EntryFi(prev, EntryAt(Depth, a), OrderHint(Depth, a), a, i, t35)
          IN /\ fi \in FrameInvariants /\ fi.type # "key" /\ fi.input = i
             /\ fi.sef = EntryAt(Depth, a).sef /\ fi.show = EntryAt(Depth, a).shown
             /\ fi.rec = prev.rec /\ (~fi.sef => fi.look = prev.look)
      BY ONLY setup \in Setups, <2>3, <3>1, EntryFiFacts
    <3> QED
      BY <3>2 DEF i
  <2>5. /\ v.slot = SlotAt(a)
        /\ v.refresh = IF Switches(a, EntryAt(Depth, a)) THEN RefSlots
                       ELSE IF EntryAt(Depth, a).sef THEN {} ELSE {SlotAt(a)}
    BY DEF EntryFi, InterFi, SlotAt
  <2>6. /\ w \in FrameInvariants /\ w.input = v.input /\ w.sef = v.sef /\ w.show = v.show
        /\ w.slot = v.slot /\ w.refresh = v.refresh
    <3> HIDE DEF v
    <3> QED
      BY <1>1, <2>4, LookedFacts
  <2>7. \A e : Adds(c, e, g, k, w) => FlowKept(e, dec)
    <3> SUFFICES ASSUME NEW e, Adds(c, e, g, k, w)
                 PROVE  FlowKept(e, dec)
      OBVIOUS
    <3> HIDE DEF w, v
    <3> QED
      BY <1>1, <1>8, <2>2, <2>4, <2>5, <2>6, AddsInter
  <2> HIDE DEF Goal, r, g, k, v
  <2>8. r.c = WithData(c, g, k, t, v)
    BY <2>1 DEF v
  <2> QED
    BY <1>2, <1>4, <2>2, <2>4, <2>7, <2>8
<1> QED
  BY <1>3, <1>5, <1>6, <1>7, <1>8

\* There are never more output frames than the loop has rounds.
LEMMA RoundsEnough ==
  ASSUME setup \in Setups, NEW c, CtxOK(c), CodedAhead(c), BoundOK(c), c.nextOutput > 0
  PROVE  c.nextOutput <= c.count * (GroupOutputLen(Depth) + 1)
<1>1. /\ Base(c, LastGroup(c)) \in Nat /\ Base(c, LastGroup(c)) < c.nextFrame
      /\ c.count \in Nat /\ c.count > 0 /\ c.nextFrame \in Nat
  <2>1. c.count \in Nat /\ c.nextFrame \in Nat /\ c.processed \in Nat /\ c.processed < c.count
    BY AheadFacts
  <2> QED
    BY <2>1, BoundFacts DEF BoundOK, Base
<1>2. c.nextFrame = 1 \/ c.nextFrame \in 1 .. c.count
  BY DEF CtxOK, QueueOK
<1>3. Base(c, LastGroup(c)) < c.count
  BY <1>1, <1>2
<1> QED
  BY <1>1, <1>3, TotalBound

\* The loop of compute_frame_invariants, once more: it ends when there is nothing to add.
LEMMA LoopFlow ==
  ASSUME setup \in Setups, NEW c, CtxOK(c), CodedAhead(c), c.count > 0 \/ c.end, FlowOK(c),
         NEW dec, SyncOK(c, dec), ShowOK(c, dec)
  PROVE  LET e == ComputeFrameInvariants(c)
         IN FlowKept(e, dec) /\ Untouched(c, e) /\ AllOK(e)
<1> DEFINE it0 == [ok |-> TRUE, c |-> c]
           After == CHOOSE f : f = [k \in Nat |-> IF k = 0 THEN it0 ELSE ScheduleNext(f[k - 1])]
           most == c.count * (GroupOutputLen(Depth) + 1)
           Good(it) == /\ LoopOK(it.c) /\ SyncOK(it.c, dec) /\ FlowKept(it.c, dec)
                       /\ Untouched(c, it.c) /\ (~it.ok => AllOK(it.c))
           Counts(it, k) == it.ok => it.c.nextOutput = c.nextOutput + k
<1>1. After = [k \in Nat |-> IF k = 0 THEN it0 ELSE ScheduleNext(After[k - 1])]
  BY LoopExists
<1>2. ComputeFrameInvariants(c) = After[most + 1].c
  BY DEF ComputeFrameInvariants
<1> HIDE DEF After
<1>3. After[0] = it0 /\ \A k \in Nat \ {0} : After[k] = ScheduleNext(After[k - 1])
  BY <1>1
<1>4. c.nextOutput \in Nat /\ c.count \in Nat
  BY CtxFacts DEF CtxOK
<1>5. Good(it0) /\ Counts(it0, 0)
  <2>1. LoopOK(c) /\ FlowKept(c, dec) /\ Untouched(c, c)
    BY DEF LoopOK, FlowKept, Untouched
  <2>2. c.nextOutput = c.nextOutput + 0
    BY <1>4
  <2> QED
    BY <2>1, <2>2
<1>6. ASSUME NEW it, NEW k \in Nat, Good(it), Counts(it, k)
      PROVE  Good(ScheduleNext(it)) /\ Counts(ScheduleNext(it), k + 1)
  <2>1. CASE it.ok
    <3> DEFINE d == it.c
               r == Schedule(SetFrameProperties(d, d.nextOutput), d.nextOutput)
    <3>1. ScheduleNext(it) = r
      BY <2>1 DEF ScheduleNext
    <3>2. LoopOK(d) /\ SyncOK(d, dec) /\ FlowOK(d) /\ ShowOK(d, dec) /\ Untouched(c, d)
      BY <1>6 DEF FlowKept
    <3>3. d.nextOutput = c.nextOutput + k
      BY <1>6, <2>1
    <3> HIDE DEF d
    <3>4. LoopOK(r.c) /\ SyncOK(r.c, dec)
      BY <3>2, RoundOK
    <3>5. /\ FlowKept(r.c, dec) /\ Untouched(d, r.c)
          /\ IF r.ok THEN r.c.nextOutput = d.nextOutput + 1 ELSE AllOK(r.c)
      BY <3>2, RoundFlow
    <3> HIDE DEF r
    <3>6. Untouched(c, r.c)
      BY <3>2, <3>5 DEF Untouched
    <3>7. r.ok => r.c.nextOutput = c.nextOutput + (k + 1)
      BY <1>4, <3>3, <3>5
    <3> QED
      BY <3>1, <3>4, <3>5, <3>6, <3>7
  <2>2. CASE ~it.ok
    BY <1>6, <2>2 DEF ScheduleNext
  <2> QED
    BY <2>1, <2>2
<1> HIDE DEF Good, Counts, it0
<1>7. \A k \in Nat : Good(After[k]) /\ Counts(After[k], k)
  <2> DEFINE S == {k \in Nat : ~(Good(After[k]) /\ Counts(After[k], k))}
  <2>1. SUFFICES ASSUME S # {}
                 PROVE  FALSE
    OBVIOUS
  <2> DEFINE x == Min(S)
  <2>2. x \in S /\ \A y \in S : x <= y
    <3>1. S \subseteq Nat
      OBVIOUS
    <3> HIDE DEF S
    <3> QED
      BY <2>1, <3>1, MinFacts
  <2> HIDE DEF x
  <2>3. x # 0
    BY <1>3, <1>5, <2>2
  <2> DEFINE y == x - 1
  <2>4. y \in Nat /\ y \notin S /\ x \in Nat \ {0} /\ x = y + 1
    BY <2>2, <2>3
  <2>5. Good(After[y]) /\ Counts(After[y], y)
    BY <2>4
  <2>6. After[x] = ScheduleNext(After[y])
    BY <1>3, <2>4
  <2> HIDE DEF y
  <2>7. Good(After[x]) /\ Counts(After[x], x)
    BY <1>6, <2>4, <2>5, <2>6
  <2> QED
    BY <2>2, <2>7
<1>8. most \in Nat
  <2>1. GroupOutputLen(Depth) \in Nat
    BY SetupFacts, GroupFacts
  <2> QED
    BY <1>4, <2>1
<1> DEFINE it == After[most + 1]
           e == it.c
<1> HIDE DEF most
<1>9. Good(it) /\ Counts(it, most + 1)
  BY <1>7, <1>8
<1> HIDE DEF it
<1>10. /\ LoopOK(e) /\ FlowKept(e, dec) /\ Untouched(c, e) /\ (~it.ok => AllOK(e))
       /\ it.ok => e.nextOutput = c.nextOutput + (most + 1)
  BY <1>9 DEF Good, Counts
<1> HIDE DEF e
<1>11. ~it.ok
  <2> SUFFICES ASSUME it.ok
               PROVE  FALSE
    OBVIOUS
  <2>1. e.nextOutput = c.nextOutput + (most + 1) /\ e.count = c.count
    BY <1>10 DEF Untouched
  <2>2. e.nextOutput > 0
    BY <1>4, <1>8, <2>1
  <2>3. e.nextOutput <= most
    <3>1. CtxOK(e) /\ CodedAhead(e) /\ BoundOK(e)
      BY <1>10 DEF LoopOK, FlowKept, FlowOK
    <3> QED
      BY <2>1, <2>2, <3>1, RoundsEnough DEF most
  <2> QED
    BY <1>4, <1>8, <2>1, <2>3
<1> QED
  BY <1>2, <1>10, <1>11 DEF e, it

\* More input frames and key frames leave the flow in order.
LEMMA GrownFlow ==
  ASSUME setup \in Setups, NEW b, CtxOK(b), CodedAhead(b), FlowOK(b), NEW dec, ShowOK(b, dec),
         NEW p, Grown(b, p), QueueOK(p)
  PROVE  FlowKept(p, dec)
<1>1. /\ b \in Contexts /\ p \in Contexts /\ b.count \in Nat /\ p.count \in Nat
      /\ b.nextFrame \in Nat /\ p.nextFrame \in Nat /\ b.keyframes \subseteq Nat
      /\ p.keyframes \subseteq Nat /\ b.limit \in Nat \cup {None} /\ p.limit \in Nat \cup {None}
      /\ b.processed \in Nat /\ setup.maxKey \in Nat
  BY CtxFacts, SetupFacts DEF CtxOK, Grown
<1>2. Alike(b, p)
  BY DEF Grown, Alike, LastOutput, LastInput
<1> DEFINE h == LastInput(b)
           k == NextKey(b)
           l == NextKey(p)
<1>3. h \in Nat /\ LastInput(p) = h
  BY <1>1, <1>2, StartsOK, StartsFacts DEF Alike
<1>4. /\ k \in Nat /\ k <= h + setup.maxKey
      /\ \A j \in b.keyframes : j > h => k <= j
      /\ b.limit # None => k <= b.limit
      /\ \/ k > h /\ k \in b.keyframes
         \/ k = h + setup.maxKey
         \/ k = b.limit
  BY <1>1, <1>3, NextKeyFacts DEF NextKey
<1>5. /\ l \in Nat /\ l <= h + setup.maxKey
      /\ \A j \in p.keyframes : j > h => l <= j
      /\ p.limit # None => l <= p.limit
      /\ \/ l > h /\ l \in p.keyframes
         \/ l = h + setup.maxKey
         \/ l = p.limit
  BY <1>1, <1>3, NextKeyFacts DEF NextKey
<1> HIDE DEF h, k, l
<1>6. l <= k
  <2>1. CASE k > h /\ k \in b.keyframes
    <3>1. k \in p.keyframes
      BY <2>1 DEF Grown
    <3> QED
      BY <1>5, <2>1, <3>1
  <2>2. CASE k = h + setup.maxKey
    BY <1>5, <2>2
  <2>3. CASE k = b.limit
    <3>1. b.limit # None
      BY <1>4, <2>3 DEF None
    <3>2. p.limit # None /\ p.limit <= b.limit /\ l <= p.limit
      BY <1>5, <3>1 DEF Grown
    <3> QED
      BY <1>1, <1>4, <1>5, <2>3, <3>2 DEF None
  <2> QED
    BY <1>4, <2>1, <2>2, <2>3
<1>7. /\ CoverOK(p) /\ ShowOK(p, dec) /\ LastGroup(p) = LastGroup(b)
  <2>1. NextKey(p) \in Nat /\ NextKey(p) <= NextKey(b)
    BY <1>5, <1>6 DEF l, k
  <2> QED
    BY <1>2, <2>1, AlikeFlow DEF FlowOK
<1>8. BoundOK(p)
  <2> SUFFICES ASSUME b.nextOutput > 0
               PROVE  BoundOK(p)
    BY <1>2 DEF BoundOK, Alike
  <2> DEFINE i == h + GroupInputLen(Depth) * LastGroup(b)
  <2>1. i \in Nat
    BY BoundFacts DEF Base, h
  <2>2. /\ LastOutput(b) <= h * (GroupOutputLen(Depth) + 1)
        /\ i < b.nextFrame /\ i < k
    BY DEF FlowOK, BoundOK, h, k
  <2>3. b.count > 0
    BY <1>1, AheadFacts
  <2> HIDE DEF i
  <2>4. i < b.count
    <3>1. b.nextFrame = 1 \/ b.nextFrame \in 1 .. b.count
      BY DEF CtxOK, QueueOK
    <3> QED
      BY <1>1, <2>1, <2>2, <2>3, <3>1
  <2>5. b.nextFrame <= p.nextFrame /\ b.count <= p.count
    BY DEF Grown
  <2>6. i < l
    <3>1. CASE l > h /\ l \in p.keyframes
      <4>1. l \in b.keyframes \/ l >= b.nextFrame
        BY <3>1 DEF Grown
      <4> QED
        BY <1>1, <1>4, <1>5, <2>1, <2>2, <3>1, <4>1
    <3>2. CASE l = h + setup.maxKey
      BY <1>4, <1>5, <2>1, <2>2, <3>2
    <3>3. CASE l = p.limit
      <4>1. p.count <= p.limit
        BY <1>5, <3>3 DEF QueueOK, None
      <4> QED
        BY <1>1, <1>5, <2>1, <2>4, <2>5, <3>3, <4>1
    <3> QED
      BY <1>5, <3>1, <3>2, <3>3
  <2>7. i < p.nextFrame
    BY <1>1, <2>1, <2>2, <2>5
  <2>8. LastOutput(p) = LastOutput(b) /\ LastInput(p) = h
    BY <1>2, <1>3 DEF Alike
  <2> QED
    BY <1>7, <2>2, <2>6, <2>7, <2>8 DEF BoundOK, i, l
<1>9. StockOK(p)
  <2>1. p.processed = b.processed /\ b.processed <= b.count /\ b.count <= p.count
    BY DEF Grown, FlowOK, StockOK
  <2>2. ASSUME NEW i \in p.processed .. p.count - 1
        PROVE  i \in p.frames /\ i \in p.opaque
    <3>1. CASE i < b.count
      <4>1. i \in b.processed .. b.count - 1
        BY <1>1, <2>1, <2>2, <3>1
      <4>2. i \in b.frames /\ i \in b.opaque
        BY <4>1 DEF FlowOK, StockOK
      <4> QED
        BY <4>2 DEF Grown
    <3>2. CASE ~(i < b.count)
      <4>1. i \in b.count .. p.count - 1
        BY <1>1, <2>1, <2>2, <3>2
      <4> QED
        BY <4>1 DEF Grown
    <3> QED
      BY <3>1, <3>2
  <2> QED
    BY <1>1, <2>1, <2>2 DEF StockOK
<1> QED
  BY <1>7, <1>8, <1>9 DEF FlowKept, FlowOK

----------------------------------------------------------------------------
(* What receiving leaves of what is shown *)

\* Context e is c without the frames in G, which are encoded.
Later(c, e, G) ==
  /\ e.nextOutput = c.nextOutput /\ LastOutput(e) = LastOutput(c) /\ LastInput(e) = LastInput(c)
  /\ e.count = c.count /\ e.limit = c.limit /\ e.nextFrame = c.nextFrame /\ e.end = c.end
  /\ e.keyframes = c.keyframes
  /\ Pending(e) = Pending(c) \ G
  /\ \A m \in Pending(e) :
       /\ IsCoded(e, m) <=> IsCoded(c, m)
       /\ e.data[m].input = c.data[m].input /\ e.data[m].sef = c.data[m].sef
       /\ e.data[m].show = c.data[m].show /\ e.data[m].slot = c.data[m].slot
       /\ e.data[m].refresh = c.data[m].refresh

LEMMA LaterTwice ==
  ASSUME NEW c, NEW d, NEW e, NEW G, Later(c, d, G), Later(d, e, {})
  PROVE  Later(c, e, G)
  BY DEF Later

\* What is shown is still to be shown, but for what has been.
LEMMA LaterFlow ==
  ASSUME setup \in Setups, NEW c, CtxOK(c), CoverOK(c), BoundOK(c), NEW e, NEW G, Later(c, e, G),
         e.processed \in Nat, c.processed <= e.processed,
         \A m \in G : c.data[m].show => c.data[m].input < e.processed
  PROVE  CoverOK(e) /\ BoundOK(e) /\ (AllOK(c) => AllOK(e))
<1>1. /\ InLast(e) = InLast(c) /\ LastGroup(e) = LastGroup(c) /\ NextKey(e) = NextKey(c)
      /\ \A a : HintAt(e, a) = HintAt(c, a)
  BY DEF Later, InLast, LastGroup, NextKey, NextKeyframeInput, HintAt
<1>2. c.processed \in Nat /\ c.count \in Nat
  BY CtxFacts DEF CtxOK
<1>3. ASSUME NEW i \in Nat, e.processed <= i, Shows(c, i)
      PROVE  Shows(e, i)
  <2>1. PICK m \in Pending(c) : c.data[m].show /\ c.data[m].input = i
    BY <1>3 DEF Shows
  <2>2. m \notin G
    BY <1>3, <2>1
  <2>3. m \in Pending(e) /\ e.data[m].show /\ e.data[m].input = i
    BY <2>1, <2>2 DEF Later
  <2> QED
    BY <2>3 DEF Shows
<1>4. CoverOK(e)
  <2> SUFFICES ASSUME c.nextOutput > 0
               PROVE  /\ \A i \in e.processed .. LastInput(c) : Shows(e, i)
                      /\ \A a \in 1 .. InLast(c) - 1 :
                           EntryAt(Depth, a).shown /\ e.processed <= HintAt(c, a)
                             /\ HintAt(c, a) < NextKey(c) => Shows(e, HintAt(c, a))
    BY <1>1 DEF CoverOK, Later
  <2>1. /\ LastInput(c) \in Nat /\ InLast(c) \in Nat
        /\ \A a \in Nat \ {0} : HintAt(c, a) \in Nat
    BY LastFacts
  <2>2. ASSUME NEW i \in e.processed .. LastInput(c)
        PROVE  Shows(e, i)
    <3>1. i \in c.processed .. LastInput(c) /\ i \in Nat /\ e.processed <= i
      BY <1>2, <2>1
    <3> QED
      BY <1>3, <3>1 DEF CoverOK
  <2>3. ASSUME NEW a \in 1 .. InLast(c) - 1, EntryAt(Depth, a).shown,
               e.processed <= HintAt(c, a), HintAt(c, a) < NextKey(c)
        PROVE  Shows(e, HintAt(c, a))
    <3>1. HintAt(c, a) \in Nat
      BY <2>1
    <3>2. c.processed <= HintAt(c, a)
      BY <1>2, <2>3, <3>1
    <3> QED
      BY <1>3, <2>3, <3>1, <3>2 DEF CoverOK
  <2> QED
    BY <2>2, <2>3
<1>5. BoundOK(e)
  BY <1>1 DEF BoundOK, Later
<1>6. AllOK(c) => AllOK(e)
  <2> SUFFICES ASSUME AllOK(c), e.end, NEW i \in e.processed .. e.count - 1
               PROVE  Shows(e, i)
    BY DEF AllOK
  <2>1. c.end /\ e.count = c.count
    BY DEF Later
  <2>2. i \in c.processed .. c.count - 1 /\ i \in Nat /\ e.processed <= i
    BY <1>2, <2>1
  <2> QED
    BY <1>3, <2>1, <2>2 DEF AllOK
<1> QED
  BY <1>4, <1>5, <1>6

\* What a slot holds before frame l is encoded, once the first of those before is.
LEMMA HoldsLater ==
  ASSUME NEW c, Pending(c) \subseteq Nat, NEW e, NEW n \in Nat, NEW G \in SUBSET {n},
         \A m \in Pending(c) : m >= n, G \subseteq Pending(c),
         Later(c, e, G), NEW dec, NEW new, NEW s, NEW x, NEW l \in Nat, \A m \in G : m < l,
         new[s].input = IF \E m \in G : IsCoded(c, m) /\ s \in c.data[m].refresh
                        THEN c.data[n].input ELSE dec[s].input,
         Holds(c, dec, l, s, x)
  PROVE  Holds(e, new, l, s, x)
<1>1. Writers(e, l, s) = Writers(c, l, s) \ G
  BY DEF Writers, Later
<1>2. \A m \in Writers(c, l, s) : m \in Nat /\ m >= n
  BY DEF Writers
<1>3. \A m \in Writers(e, l, s) : e.data[m].input = c.data[m].input /\ m \in Writers(c, l, s)
  BY <1>1 DEF Writers, Later
<1>4. ASSUME Writers(e, l, s) = {}
      PROVE  new[s].input = x
  <2>1. CASE Writers(c, l, s) = {}
    <3>1. ~\E m \in G : IsCoded(c, m) /\ s \in c.data[m].refresh
      BY <2>1 DEF Writers
    <3> QED
      BY <2>1, <3>1 DEF Holds
  <2>2. CASE Writers(c, l, s) # {}
    <3>1. Writers(c, l, s) = {n} /\ n \in G
      BY <1>1, <1>4, <2>2
    <3>2. IsCoded(c, n) /\ s \in c.data[n].refresh
      BY <3>1 DEF Writers
    <3>3. c.data[n].input = x
      BY <3>1 DEF Holds
    <3> QED
      BY <3>1, <3>2, <3>3
  <2> QED
    BY <2>1, <2>2
<1>5. ASSUME NEW m \in Writers(e, l, s), \A k \in Writers(e, l, s) : k <= m
      PROVE  e.data[m].input = x
  <2>1. m \in Writers(c, l, s) /\ m \in Nat /\ m >= n
    BY <1>2, <1>3
  <2>2. \A k \in Writers(c, l, s) : k <= m
    <3> SUFFICES ASSUME NEW k \in Writers(c, l, s)
                 PROVE  k <= m
      OBVIOUS
    <3>1. CASE k \in G
      <4>1. k = n
        BY <3>1
      <4> QED
        BY <2>1, <4>1
    <3>2. CASE k \notin G
      BY <1>1, <1>5, <3>2
    <3> QED
      BY <3>1, <3>2
  <2> QED
    BY <1>3, <2>1, <2>2 DEF Holds
<1> QED
  BY <1>4, <1>5 DEF Holds

LEMMA LaterShow ==
  ASSUME setup \in Setups, NEW c, CtxOK(c), Pending(c) # {}, NEW e, NEW n, n = Next0(c),
         NEW G \in SUBSET {n}, Later(c, e, G), NEW dec, NEW new, ShowOK(c, dec),
         \A s \in RefSlots :
           new[s].input = IF \E m \in G : IsCoded(c, m) /\ s \in c.data[m].refresh
                          THEN c.data[n].input ELSE dec[s].input
  PROVE  ShowOK(e, new)
<1>1. /\ c \in Contexts /\ n \in Nat /\ n \in Pending(c) /\ n < c.nextOutput
      /\ \A m \in Pending(c) : m >= n
      /\ c.nextOutput \in Nat /\ Pending(c) \subseteq Live(c) /\ Live(c) \subseteq Nat
      /\ \A m \in Live(c) : c.data[m] \in FrameInvariants
  BY NextFacts, CtxFacts, LiveFacts DEF CtxOK
<1>2. Pending(c) \subseteq Nat /\ G \subseteq Pending(c)
  BY <1>1
<1>3. ASSUME NEW s \in RefSlots, NEW x, NEW l \in Nat, \A m \in G : m < l, Holds(c, dec, l, s, x)
      PROVE  Holds(e, new, l, s, x)
  <2>1. new[s].input = IF \E m \in G : IsCoded(c, m) /\ s \in c.data[m].refresh
                       THEN c.data[n].input ELSE dec[s].input
    OBVIOUS
  <2> HIDE DEF ShowOK
  <2> QED
    BY <1>1, <1>2, <1>3, <2>1, HoldsLater
<1>4. SefOK(e, new)
  <2> SUFFICES ASSUME NEW m \in Pending(e), e.data[m].sef
               PROVE  Holds(e, new, m, e.data[m].slot, e.data[m].input)
    BY DEF SefOK
  <2>1. /\ m \in Pending(c) /\ m \notin G /\ c.data[m].sef /\ e.data[m].slot = c.data[m].slot
        /\ e.data[m].input = c.data[m].input
    BY DEF Later
  <2>2. Holds(c, dec, m, c.data[m].slot, c.data[m].input)
    BY <2>1 DEF ShowOK, SefOK
  <2>3. m \in Nat /\ \A k \in G : k < m
    BY <1>1, <1>2, <2>1
  <2>4. c.data[m].slot \in RefSlots
    BY <1>1, <2>1, FiFacts
  <2> QED
    BY <1>3, <2>1, <2>2, <2>3, <2>4
<1>5. FutureOK(e, new)
  <2>1. /\ InLast(e) = InLast(c) /\ NextKey(e) = NextKey(c) /\ e.nextOutput = c.nextOutput
        /\ \A a : HintAt(e, a) = HintAt(c, a)
    BY DEF Later, InLast, NextKey, NextKeyframeInput, HintAt
  <2> SUFFICES ASSUME c.nextOutput > 0, NEW a \in 1 .. InLast(c) - 1, NEW b \in Nat \ {0},
                      InLast(c) <= b, GroupOf(Depth, a) = GroupOf(Depth, b),
                      OrderHint(Depth, a) = OrderHint(Depth, b), HintAt(c, a) < NextKey(c),
                      ~EntryAt(Depth, a).sef, ~EntryAt(Depth, a).shown, EntryAt(Depth, b).sef
               PROVE  Holds(e, new, c.nextOutput, SlotAt(a), HintAt(c, a))
    BY <2>1 DEF FutureOK
  <2>2. Holds(c, dec, c.nextOutput, SlotAt(a), HintAt(c, a))
    BY DEF ShowOK, FutureOK
  <2>3. \A k \in G : k < c.nextOutput
    BY <1>1
  <2>4. SlotAt(a) \in RefSlots
    <3>1. a \in Nat \ {0}
      BY LastFacts
    <3> QED
      BY <3>1, SetupFacts, SlotFacts, EntryFacts, HintFacts DEF SlotAt
  <2> QED
    BY <1>1, <1>3, <2>2, <2>3, <2>4
<1> QED
  BY <1>4, <1>5 DEF ShowOK

\* A context that is behind the next frame, or before it, of the same frames.
Behind(c, d, n) ==
  /\ Passed(c, d, n) /\ d.opaque = c.opaque /\ CtxOK(d)
  /\ Pending(d) = {m \in Pending(c) : m >= d.output}
  /\ \A m \in Live(c) : (IsCoded(d, m) <=> IsCoded(c, m)) /\ d.data[m].slot = c.data[m].slot

LEMMA BehindLater ==
  ASSUME NEW c, CtxOK(c), Pending(c) # {}, NEW n, n = Next0(c), NEW d, Behind(c, d, n)
  PROVE  Later(c, d, IF d.output = n THEN {} ELSE {n})
<1>1. /\ c \in Contexts /\ n \in Nat /\ n \in Pending(c) /\ \A m \in Pending(c) : m >= n
      /\ Pending(c) \subseteq Live(c) /\ Live(c) \subseteq Nat
  BY NextFacts, LiveFacts DEF CtxOK
<1>2. /\ d.count = c.count /\ d.limit = c.limit /\ d.end = c.end /\ d.keyframes = c.keyframes
      /\ d.nextFrame = c.nextFrame /\ d.nextOutput = c.nextOutput
      /\ d.gopOutput = c.gopOutput /\ d.gopInput = c.gopInput /\ d.output \in {n, n + 1}
      /\ Pending(d) = {m \in Pending(c) : m >= d.output}
      /\ \A m \in Live(c) :
           /\ d.data[m].input = c.data[m].input /\ d.data[m].sef = c.data[m].sef
           /\ d.data[m].show = c.data[m].show /\ d.data[m].slot = c.data[m].slot
           /\ d.data[m].refresh = c.data[m].refresh /\ (IsCoded(d, m) <=> IsCoded(c, m))
  BY DEF Behind, Passed
<1>3. LastOutput(d) = LastOutput(c) /\ LastInput(d) = LastInput(c)
  BY <1>2 DEF LastOutput, LastInput
<1>4. Pending(d) = Pending(c) \ (IF d.output = n THEN {} ELSE {n})
  <2>1. CASE d.output = n
    BY <1>1, <1>2, <2>1
  <2>2. CASE d.output = n + 1
    <3>1. n + 1 # n
      BY <1>1
    <3>2. \A m \in Pending(c) : m >= n + 1 <=> m # n
      BY <1>1
    <3> QED
      BY <1>2, <2>2, <3>1, <3>2
  <2> QED
    BY <1>2, <2>1, <2>2
<1> QED
  BY <1>1, <1>2, <1>3, <1>4 DEF Later

\* Collecting takes nothing that is still to come.
LEMMA CollectedLater ==
  ASSUME NEW d, CtxOK(d), NEW input \in Nat
  PROVE  LET f == Collected(d, input)
         IN /\ Later(d, f, {}) /\ f.processed = d.processed + 1
            /\ f.frames = {i \in d.frames : i >= input} /\ f.opaque = d.opaque \ {input}
<1> DEFINE f == Collected(d, input)
<1>1. /\ d \in Contexts /\ DataOK(d) /\ d.output \in Nat /\ d.nextOutput \in Nat
  BY CtxFacts DEF CtxOK
<1>2. /\ Live(d) \subseteq DOMAIN d.data /\ DOMAIN d.data \subseteq Nat
      /\ Pending(d) = {m \in Live(d) : m >= d.output}
  BY <1>1, LiveFacts
<1> HIDE DEF f
<1>4. PICK K \in SUBSET Nat :
        /\ \A m \in Nat : m + 1 >= d.output => m \in K
        /\ f \in Contexts
        /\ f.count = d.count /\ f.limit = d.limit /\ f.output = d.output
        /\ f.processed = d.processed + 1 /\ f.end = d.end /\ f.keyframes = d.keyframes
        /\ f.forced = d.forced /\ f.nextFrame = d.nextFrame /\ f.nextOutput = d.nextOutput
        /\ f.frames = {i \in d.frames : i >= input} /\ f.opaque = d.opaque \ {input}
        /\ f.data = [m \in DOMAIN d.data \cap K |-> d.data[m]]
        /\ f.gopOutput = [m \in DOMAIN d.gopOutput \cap K |-> d.gopOutput[m]]
        /\ f.gopInput = [m \in DOMAIN d.gopInput \cap K |-> d.gopInput[m]]
  BY <1>1, CollectFacts DEF f
<1>5. /\ DOMAIN f.data = DOMAIN d.data \cap K
      /\ \A m \in DOMAIN f.data : f.data[m] = d.data[m]
  BY <1>4
<1>6. /\ Live(f) = Live(d) \cap K /\ \A m \in Live(f) : f.data[m] = d.data[m] /\ m \in DOMAIN f.data
  BY <1>5 DEF Live, Skipped
<1>7. \A m \in DOMAIN f.data : IsCoded(f, m) <=> IsCoded(d, m)
  BY <1>5 DEF IsCoded, Skipped
<1>8. Pending(d) \subseteq Live(f)
  <2>1. \A m \in Pending(d) : m \in Nat /\ m + 1 >= d.output /\ m \in Live(d)
    BY <1>1, <1>2
  <2> QED
    BY <1>4, <1>6, <2>1
<1>9. Pending(f) = Pending(d)
  <2>1. Pending(f) = {m \in Live(f) : m >= d.output}
    BY <1>4, LiveFacts
  <2> QED
    BY <1>2, <1>6, <1>8, <2>1
<1>10. LastOutput(f) = LastOutput(d) /\ LastInput(f) = LastInput(d)
  <2>1. CASE d.nextOutput = 0
    BY <1>4, <2>1 DEF LastOutput, LastInput
  <2>2. CASE d.nextOutput > 0
    <3>1. d.nextOutput - 1 \in 0 .. d.nextOutput - 1 /\ d.nextOutput - 1 + 1 >= d.output
      BY <1>1, <2>2 DEF DataOK
    <3>2. d.nextOutput - 1 \in DOMAIN d.data /\ d.nextOutput - 1 \in K
      BY <1>1, <1>4, <3>1 DEF DataOK
    <3>3. d.nextOutput - 1 \in DOMAIN d.gopOutput /\ d.nextOutput - 1 \in DOMAIN d.gopInput
      BY <1>1, <3>2 DEF DataOK
    <3> QED
      BY <1>1, <1>4, <2>2, <3>2, <3>3 DEF LastOutput, LastInput
  <2> QED
    BY <1>1, <2>1, <2>2
<1>11. Later(d, f, {})
  BY <1>4, <1>6, <1>7, <1>8, <1>9, <1>10 DEF Later
<1> QED
  BY <1>4, <1>11 DEF f

\* A call that encodes nothing, or a frame that is not shown.
LEMMA PassFlow ==
  ASSUME setup \in Setups, NEW c, CtxOK(c), Pending(c) # {}, FlowOK(c), NEW n, n = Next0(c),
         NEW d, Behind(c, d, n), d.output = n \/ ~c.data[n].show, NEW dec, ShowOK(c, dec), NEW new,
         \A s \in RefSlots :
           new[s].input = IF d.output # n /\ IsCoded(c, n) /\ s \in c.data[n].refresh
                          THEN c.data[n].input ELSE dec[s].input
  PROVE  FlowKept(d, new) /\ (AllOK(c) => AllOK(d))
<1> DEFINE G == IF d.output = n THEN {} ELSE {n}
<1>1. Later(c, d, G) /\ G \in SUBSET {n}
  BY BehindLater
<1>2. d.processed = c.processed /\ d.count = c.count /\ d.frames = c.frames /\ d.opaque = c.opaque
  BY DEF Behind, Passed
<1>3. c.processed \in Nat /\ c.processed <= c.processed
  BY CtxFacts DEF CtxOK
<1>4. \A m \in G : ~c.data[m].show
  OBVIOUS
<1>5. CoverOK(d) /\ BoundOK(d) /\ (AllOK(c) => AllOK(d))
  <2> HIDE DEF G
  <2> QED
    BY <1>1, <1>2, <1>3, <1>4, LaterFlow DEF FlowOK
<1>6. ShowOK(d, new)
  <2>1. \A s \in RefSlots :
          new[s].input = IF \E m \in G : IsCoded(c, m) /\ s \in c.data[m].refresh
                         THEN c.data[n].input ELSE dec[s].input
    OBVIOUS
  <2> HIDE DEF G
  <2> QED
    BY <1>1, <2>1, LaterShow
<1>7. StockOK(d)
  BY <1>2, StockSame DEF FlowOK
<1> QED
  BY <1>5, <1>6, <1>7 DEF FlowKept, FlowOK

\* A packet: it shows the next frame.
LEMMA PacketFlow ==
  ASSUME setup \in Setups, NEW c, CtxOK(c), Pending(c) # {}, FlowOK(c), NEW n, n = Next0(c),
         c.data[n].show, NEW d, Behind(c, d, n), d.output = n + 1, NEW dec, ShowOK(c, dec), NEW new,
         \A s \in RefSlots :
           new[s].input = IF IsCoded(c, n) /\ s \in c.data[n].refresh
                          THEN c.data[n].input ELSE dec[s].input
  PROVE  LET f == Collected(d, c.data[n].input)
         IN /\ FlowKept(f, new) /\ (AllOK(c) => AllOK(f))
            /\ c.data[n].input = c.processed /\ f.processed = c.processed + 1
            /\ c.processed < c.count /\ c.processed \in c.opaque
<1> DEFINE x == c.data[n].input
           f == Collected(d, x)
<1>1. /\ c.processed \in Nat /\ c.count \in Nat /\ n \in Nat /\ n \in Live(c) /\ n < c.nextOutput
      /\ c.nextOutput \in Nat
  BY NextFacts, CtxFacts DEF CtxOK
<1>2. x = c.processed
  BY NextShown DEF FlowOK
<1>3. x < c.count
  BY <1>1, PlaceInGroup
<1>4. d.output # n
  BY <1>1
<1>5. Later(c, d, {n})
  BY <1>4, BehindLater
<1>6. /\ d.processed = c.processed /\ d.count = c.count /\ d.frames = c.frames
      /\ d.opaque = c.opaque /\ CtxOK(d)
  BY DEF Behind, Passed
<1> HIDE DEF x, f
<1>7. /\ Later(d, f, {}) /\ f.processed = c.processed + 1
      /\ f.frames = {i \in c.frames : i >= x} /\ f.opaque = c.opaque \ {x}
  BY <1>1, <1>2, <1>6, CollectedLater DEF f
<1>8. Later(c, f, {n})
  BY <1>5, <1>7, LaterTwice
<1>9. CoverOK(f) /\ BoundOK(f) /\ (AllOK(c) => AllOK(f))
  <2>1. \A m \in {n} : c.data[m].input < f.processed
    BY <1>1, <1>2, <1>7 DEF x
  <2>2. f.processed \in Nat /\ c.processed <= f.processed
    BY <1>1, <1>7
  <2> QED
    BY <1>8, <2>1, <2>2, LaterFlow DEF FlowOK
<1>10. ShowOK(f, new)
  <2>1. \A s \in RefSlots :
          new[s].input = IF \E m \in {n} : IsCoded(c, m) /\ s \in c.data[m].refresh
                         THEN c.data[n].input ELSE dec[s].input
    OBVIOUS
  <2> QED
    BY <1>8, <2>1, LaterShow
<1>11. StockOK(f)
  <2>1. f.count = c.count
    BY <1>8 DEF Later
  <2>2. f.processed <= f.count
    BY <1>1, <1>2, <1>3, <1>7, <2>1
  <2>3. ASSUME NEW i \in f.processed .. f.count - 1
        PROVE  i \in f.frames /\ i \in f.opaque
    <3>1. i \in c.processed .. c.count - 1 /\ i >= x /\ i # x
      BY <1>1, <1>2, <1>7, <2>1
    <3> QED
      BY <1>7, <3>1 DEF FlowOK, StockOK
  <2> QED
    BY <2>2, <2>3 DEF StockOK
<1>12. c.processed \in c.opaque /\ c.processed < c.count
  <2>1. c.processed \in c.processed .. c.count - 1 /\ c.processed < c.count
    BY <1>1, <1>2, <1>3
  <2> QED
    BY <2>1 DEF FlowOK, StockOK
<1> QED
  BY <1>2, <1>7, <1>9, <1>10, <1>11, <1>12 DEF FlowKept, FlowOK, f, x

\* The next frame is found, or shown again: references stay as they are.
LEMMA MovedBehind ==
  ASSUME NEW c, CtxOK(c), Pending(c) # {}, NEW n, n = Next0(c),
         NEW k, k = n \/ (k = n + 1 /\ c.data[n].sef)
  PROVE  LET d == [c EXCEPT !.output = k]
         IN Behind(c, d, n) /\ d.output = k
<1> DEFINE d == [c EXCEPT !.output = k]
<1>1. /\ c \in Contexts /\ RefsOK(c) /\ c.output \in Nat
      /\ n \in Live(c) /\ n \in Nat /\ c.output <= n
      /\ \A m \in Live(c) : m >= c.output => m >= n
      /\ Live(c) \subseteq Nat
  BY NextFacts, LiveFacts, CtxFacts DEF CtxOK
<1>2. k \in Nat
  BY <1>1
<1>3. /\ d \in Contexts /\ d.output = k
      /\ d.count = c.count /\ d.limit = c.limit /\ d.processed = c.processed
      /\ d.frames = c.frames /\ d.end = c.end /\ d.keyframes = c.keyframes
      /\ d.forced = c.forced /\ d.nextFrame = c.nextFrame /\ d.nextOutput = c.nextOutput
      /\ d.gopOutput = c.gopOutput /\ d.gopInput = c.gopInput /\ d.data = c.data
      /\ d.opaque = c.opaque
  BY <1>1, <1>2 DEF Contexts
<1> HIDE DEF d
<1>4. Live(d) = Live(c)
  BY <1>3 DEF Live, Skipped
<1>5. Passed(c, d, n)
  BY <1>3, <1>4 DEF Passed
<1>6. RefsOK(d)
  <2>1. ASSUME NEW m, NEW r, RefOK(c, m, r)
        PROVE  RefOK(d, m, r)
    BY <1>3, <2>1 DEF RefOK, IsCoded, Skipped
  <2>2. \A m \in Live(c) : /\ m < k => m < c.output \/ (m = n /\ c.data[n].sef)
                           /\ m >= k => m >= c.output
    BY <1>1
  <2> SUFFICES ASSUME NEW m \in Live(d)
               PROVE  LET fi == d.data[m]
                      IN /\ fi.type = "key" => fi.refresh = RefSlots /\ ~fi.sef /\ fi.show
                         /\ fi.sef => fi.show
                         /\ \A i \in RefSlots :
                              /\ RefOK(d, m, fi.rec[i]) /\ RefOK(d, m, fi.look[i])
                              /\ m >= d.output => fi.rec[i].output < m
                              /\ ~fi.sef => fi.look[i].output # None
                              /\ ~fi.sef /\ (fi.type # "key" \/ m < d.output)
                                   => fi.rec[i].output # None
    BY DEF RefsOK
  <2>3. m \in Live(c) /\ d.data[m] = c.data[m]
    BY <1>3, <1>4
  <2>4. \A i \in RefSlots : RefOK(d, m, c.data[m].rec[i]) /\ RefOK(d, m, c.data[m].look[i])
    BY <1>1, <2>1, <2>3 DEF RefsOK
  <2> QED
    BY <1>1, <1>3, <2>2, <2>3, <2>4 DEF RefsOK
<1>7. /\ CtxOK(d) /\ Pending(d) = {m \in Pending(c) : m >= d.output}
      /\ \A m \in Live(c) : IsCoded(d, m) <=> IsCoded(c, m)
  BY <1>5, <1>6, PassedOK
<1> QED
  BY <1>3, <1>5, <1>7 DEF Behind, d

LEMMA EncodedBehind ==
  ASSUME setup \in Setups, NEW c, CtxOK(c), Pending(c) # {}, NEW n, n = Next0(c),
         IsCoded(c, n), NEW dec, SyncOK(c, dec)
  PROVE  LET d == Encoded(c, n)
         IN Behind(c, d, n) /\ d.output = n + 1
<1> DEFINE d == Encoded(c, n)
           new == [i \in RefSlots |-> [output |-> IF i \in c.data[n].refresh THEN n ELSE dec[i].output]]
<1>1. \A i \in RefSlots : new[i].output = IF i \in c.data[n].refresh THEN n ELSE dec[i].output
  OBVIOUS
<1> HIDE DEF new
<1>2. /\ CtxOK(d) /\ SyncOK(d, new) /\ d.output = n + 1 /\ n \in Live(d)
      /\ Pending(d) = {m \in Pending(c) : m >= n + 1}
      /\ \A m \in Live(c) : IsCoded(d, m) <=> IsCoded(c, m)
      /\ d.end = c.end /\ d.limit = c.limit /\ d.processed = c.processed
      /\ d.data[n].show = c.data[n].show /\ d.data[n].input = c.data[n].input
      /\ Passed(c, d, n) /\ d.opaque = c.opaque
      /\ \A m \in Live(c) : d.data[m].slot = c.data[m].slot
  BY ONLY <1>1, EncodedOK, setup \in Setups, CtxOK(c), Pending(c) # {}, n = Next0(c),
         IsCoded(c, n), SyncOK(c, dec)
<1> HIDE DEF d
<1> QED
  BY <1>2 DEF Behind, d

----------------------------------------------------------------------------
(* The packets, in order *)

Packets ==
  Seq([input : Nat, content : Nat \cup {None}, t35 : Nat \cup {None}, opaque : Nat \cup {None}])

\* What is in order of context c, a decoder and the packets returned.
ShownOK(c, dec, done) ==
  /\ FlowOK(c) /\ AllOK(c) /\ ShowOK(c, dec)
  /\ done \in Packets /\ Len(done) = c.processed

\* The inductive invariant.
FInv == IInv /\ ShownOK(ctx, decoder, packets)

LEMMA PrimedShown ==
  ASSUME setup' = setup, ShownOK(ctx', decoder', packets')
  PROVE  ShownOK(ctx, decoder, packets)'
<1>1. /\ CoverOK(ctx') /\ BoundOK(ctx') /\ StockOK(ctx') /\ AllOK(ctx')
      /\ SefOK(ctx', decoder') /\ FutureOK(ctx', decoder')
      /\ packets' \in Packets /\ Len(packets') = ctx'.processed
  BY DEF ShownOK, FlowOK, ShowOK
<1>2. Depth' = Depth
  BY DEF Depth
<1>3. NextKey(ctx)' = NextKey(ctx') /\ LastInput(ctx)' = LastInput(ctx') /\ InLast(ctx)' = InLast(ctx')
      /\ LastOutput(ctx)' = LastOutput(ctx')
  BY DEF NextKey, NextKeyframeInput, LastInput, LastOutput, InLast
<1>4. CoverOK(ctx)'
  BY <1>1, <1>2, <1>3 DEF CoverOK, HintAt, Shows
<1>5. BoundOK(ctx)'
  BY <1>1, <1>2, <1>3 DEF BoundOK, LastGroup
<1>6. StockOK(ctx)' /\ AllOK(ctx)' /\ SefOK(ctx, decoder)'
  BY <1>1 DEF StockOK, AllOK, SefOK, Shows, Holds, Writers
<1>7. FutureOK(ctx, decoder)'
  BY <1>1, <1>2, <1>3 DEF FutureOK, HintAt, SlotAt, Holds, Writers
<1> QED
  BY <1>1, <1>4, <1>5, <1>6, <1>7 DEF ShownOK, FlowOK, ShowOK, Packets

LEMMA InitShown == Init => ShownOK(ctx, decoder, packets)
<1> SUFFICES ASSUME Init
             PROVE  ShownOK(ctx, decoder, packets)
  OBVIOUS
<1>1. /\ ctx.processed = 0 /\ ctx.count = 0 /\ ctx.nextOutput = 0 /\ ctx.end = FALSE
      /\ DOMAIN ctx.data = {} /\ packets = <<>>
  BY DEF Init, InitCtx
<1>2. Pending(ctx) = {}
  BY <1>1 DEF Pending
<1>3. CoverOK(ctx) /\ BoundOK(ctx) /\ AllOK(ctx)
  BY <1>1 DEF CoverOK, BoundOK, AllOK
<1>4. StockOK(ctx)
  BY <1>1 DEF StockOK
<1>5. ShowOK(ctx, decoder)
  BY <1>1, <1>2 DEF ShowOK, SefOK, FutureOK
<1>6. packets \in Packets /\ Len(packets) = ctx.processed
  BY <1>1 DEF Packets
<1> QED
  BY <1>3, <1>4, <1>5, <1>6 DEF ShownOK, FlowOK

\* More frames: the loop schedules what they call for.
LEMMA GrownShown ==
  ASSUME setup \in Setups, NEW b, CtxOK(b), CodedAhead(b), NEW dec, SyncOK(b, dec), NEW done,
         ShownOK(b, dec, done), NEW p, Grown(b, p), QueueOK(p), p.end \/ p.count > 0, b.end => p.end
  PROVE  LET e == ComputeFrameInvariants(p)
         IN ShownOK(e, dec, done) /\ e.count = p.count /\ e.processed = b.processed
<1> DEFINE e == ComputeFrameInvariants(p)
<1>1. CtxOK(p) /\ CodedAhead(p) /\ SyncOK(p, dec)
  BY GrownOK
<1>2. FlowKept(p, dec) /\ p.processed = b.processed
  BY GrownFlow DEF ShownOK, Grown
<1>3. FlowKept(e, dec) /\ Untouched(p, e) /\ AllOK(e)
  BY <1>1, <1>2, LoopFlow DEF FlowKept
<1> HIDE DEF e
<1> QED
  BY <1>2, <1>3 DEF ShownOK, FlowKept, Untouched, e

LEMMA SendShown ==
  ASSUME FInv, NEW forced \in BOOLEAN, Send(forced)
  PROVE  ShownOK(ctx, decoder, packets)' /\ ctx'.count = ctx.count + 1
<1>1. /\ IInv /\ setup \in Setups /\ CtxOK(ctx) /\ SyncOK(ctx, decoder) /\ ctx.end = flushing
      /\ ~flushing => CodedAhead(ctx)
      /\ ShownOK(ctx, decoder, packets)
  BY DEF FInv, IInv
<1>2. ~flushing /\ setup' = setup /\ decoder' = decoder /\ packets' = packets
  BY DEF Send
<1>3. PICK p : /\ Grown(ctx, p) /\ QueueOK(p) /\ p.end = FALSE /\ p.count > 0
               /\ p.limit = ctx.limit /\ p.count = ctx.count + 1
               /\ ctx' = ComputeFrameInvariants(p)
  BY <1>1, SendMade
<1>4. ShownOK(ctx', decoder, packets) /\ ctx'.count = p.count
  BY <1>1, <1>2, <1>3, GrownShown
<1> QED
  BY <1>2, <1>3, <1>4, PrimedShown

LEMMA FlushShown ==
  ASSUME FInv, Flush
  PROVE  ShownOK(ctx, decoder, packets)' /\ ctx'.count = ctx.count
<1>1. /\ IInv /\ setup \in Setups /\ CtxOK(ctx) /\ SyncOK(ctx, decoder) /\ ctx.end = flushing
      /\ ~flushing => CodedAhead(ctx)
      /\ ShownOK(ctx, decoder, packets)
  BY DEF FInv, IInv
<1>2. ~flushing /\ setup' = setup /\ decoder' = decoder /\ packets' = packets
  BY DEF Flush
<1>3. PICK p : /\ Grown(ctx, p) /\ QueueOK(p) /\ p.end = TRUE /\ p.count = ctx.count
               /\ ctx' = ComputeFrameInvariants(p)
  BY <1>1, FlushMade
<1>4. ShownOK(ctx', decoder, packets) /\ ctx'.count = p.count
  BY <1>1, <1>2, <1>3, GrownShown
<1> QED
  BY <1>2, <1>3, <1>4, PrimedShown

\* A call that returns no packet.
LEMMA ReceiveNothingShown ==
  ASSUME FInv, ReceiveNothing
  PROVE  ShownOK(ctx, decoder, packets)' /\ ctx'.count = ctx.count
<1>1. /\ setup \in Setups /\ CtxOK(ctx) /\ ctx \in Contexts /\ ShownOK(ctx, decoder, packets)
  BY DEF FInv, IInv, CtxOK
<1>2. /\ setup' = setup /\ decoder' = decoder /\ packets' = packets
      /\ ctx' = [ctx EXCEPT !.output = IF NothingReady(ctx) THEN @ ELSE Next0(ctx)]
  BY DEF ReceiveNothing, Returns, NothingCoded, NoPacket
<1>3. CASE NothingReady(ctx)
  <2>1. ctx' = ctx
    BY <1>1, <1>2, <1>3 DEF Contexts
  <2> QED
    BY <1>1, <1>2, <2>1, PrimedShown
<1>4. CASE ~NothingReady(ctx)
  <2> DEFINE n == Next0(ctx)
             d == [ctx EXCEPT !.output = n]
  <2>1. Pending(ctx) # {}
    BY <1>4 DEF NothingReady
  <2>2. ctx' = d
    BY <1>2, <1>4
  <2> HIDE DEF n
  <2>3. Behind(ctx, d, n) /\ d.output = n
    <3>1. CtxOK(ctx) /\ Pending(ctx) # {} /\ n = Next0(ctx)
      BY <1>1, <2>1 DEF n
    <3>2. n = n \/ (n = n + 1 /\ ctx.data[n].sef)
      OBVIOUS
    <3> QED
      BY ONLY <3>1, <3>2, MovedBehind
  <2> HIDE DEF d
  <2>4. FlowKept(d, decoder) /\ (AllOK(ctx) => AllOK(d))
    BY <1>1, <2>1, <2>3, PassFlow DEF ShownOK, n
  <2>5. d.processed = ctx.processed /\ d.count = ctx.count
    BY <2>3 DEF Behind, Passed
  <2>6. ShownOK(ctx', decoder', packets')
    BY <1>1, <1>2, <2>2, <2>4, <2>5 DEF ShownOK, FlowKept
  <2> QED
    BY <1>2, <2>2, <2>5, <2>6, PrimedShown
<1> QED
  BY <1>3, <1>4

\* What a packet shows is what is next, and goes with what was sent.
Delivers(fi) ==
  /\ fi.input = ctx.processed /\ ctx.processed < ctx.count
  /\ packets' = Append(packets, [input |-> fi.input, content |-> fi.input, t35 |-> fi.t35,
                                 opaque |-> fi.input])

LEMMA PacketShown ==
  ASSUME setup \in Setups, CtxOK(ctx), Pending(ctx) # {}, ShownOK(ctx, decoder, packets),
         NEW n, n = Next0(ctx), ctx.data[n].show, NEW d, Behind(ctx, d, n), d.output = n + 1,
         \A s \in RefSlots :
           decoder'[s].input = IF IsCoded(ctx, n) /\ s \in ctx.data[n].refresh
                               THEN ctx.data[n].input ELSE decoder[s].input,
         Finalize(d, ctx.data[n], ctx.data[n].input)
  PROVE  ShownOK(ctx, decoder, packets)' /\ ctx'.count = ctx.count /\ Delivers(ctx.data[n])
<1> DEFINE fi == ctx.data[n]
           f == Collected(d, fi.input)
           new == decoder'
<1>1. ctx' = f /\ setup' = setup
  BY DEF Finalize, Returns, Collected
<1>2. packets' = Append(packets, [input |-> fi.input, content |-> fi.input, t35 |-> fi.t35,
                                  opaque |-> IF fi.input \in d.opaque THEN fi.input ELSE None])
  BY DEF Finalize
<1>3. \A s \in RefSlots :
        new[s].input = IF IsCoded(ctx, n) /\ s \in ctx.data[n].refresh
                       THEN ctx.data[n].input ELSE decoder[s].input
  OBVIOUS
<1> HIDE DEF new
<1>4. /\ FlowKept(f, new) /\ (AllOK(ctx) => AllOK(f))
      /\ fi.input = ctx.processed /\ f.processed = ctx.processed + 1
      /\ ctx.processed < ctx.count /\ ctx.processed \in ctx.opaque
  <2>1. FlowOK(ctx) /\ ShowOK(ctx, decoder)
    BY DEF ShownOK
  <2> QED
    BY ONLY <1>3, <2>1, PacketFlow, setup \in Setups, CtxOK(ctx), Pending(ctx) # {}, n = Next0(ctx),
         ctx.data[n].show, Behind(ctx, d, n), d.output = n + 1
<1>5. fi \in FrameInvariants /\ fi.input \in Nat /\ fi.t35 \in Nat \cup {None}
  BY NextFacts, FiFacts
<1>6. f.count = ctx.count
  <2>1. Later(d, f, {}) /\ CtxOK(d)
    BY <1>5, CollectedLater DEF Behind
  <2> QED
    BY <2>1 DEF Later, Behind, Passed
<1>7. d.opaque = ctx.opaque
  BY DEF Behind
<1> HIDE DEF f, fi
<1>8. packets' = Append(packets, [input |-> fi.input, content |-> fi.input, t35 |-> fi.t35,
                                  opaque |-> fi.input])
  BY <1>2, <1>4, <1>7
<1>9. packets' \in Packets /\ Len(packets') = ctx'.processed
  <2>1. packets \in Packets /\ Len(packets) = ctx.processed
    BY DEF ShownOK
  <2> DEFINE x == [input |-> fi.input, content |-> fi.input, t35 |-> fi.t35, opaque |-> fi.input]
             T == [input : Nat, content : Nat \cup {None}, t35 : Nat \cup {None},
                   opaque : Nat \cup {None}]
  <2>2. x \in T
    BY <1>5
  <2>3. packets \in Seq(T) /\ packets' = Append(packets, x)
    BY <1>8, <2>1 DEF Packets
  <2> HIDE DEF x, T
  <2>4. packets' \in Seq(T) /\ Len(packets') = Len(packets) + 1
    BY <2>2, <2>3
  <2> QED
    BY <1>1, <1>4, <2>1, <2>4 DEF Packets, T
<1>10. ShownOK(ctx', decoder', packets')
  BY <1>1, <1>4, <1>9 DEF ShownOK, FlowKept, new
<1>11. ShownOK(ctx, decoder, packets)'
  BY <1>1, <1>10, PrimedShown
<1> QED
  BY <1>1, <1>4, <1>6, <1>8, <1>11 DEF Delivers, fi

\* encode_show_existing_packet shows the frame in the decoder's buffer: the next.
LEMMA ReceiveExistingShown ==
  ASSUME FInv, ReceiveExisting
  PROVE  /\ ShownOK(ctx, decoder, packets)' /\ ctx'.count = ctx.count
         /\ \E n \in Pending(ctx) : Delivers(ctx.data[n])
<1>1. /\ setup \in Setups /\ CtxOK(ctx) /\ ctx \in Contexts /\ ShownOK(ctx, decoder, packets)
  BY DEF FInv, IInv, CtxOK
<1>2. PICK n \in Found :
        /\ IsSef(ctx, n)
        /\ Finalize([ctx EXCEPT !.output = n + 1], ctx.data[n], decoder[ctx.data[n].slot].input)
        /\ decoder' = decoder
  BY DEF ReceiveExisting
<1>3. n = Next0(ctx) /\ Pending(ctx) # {}
  BY FoundFacts
<1>4. /\ n \in Live(ctx) /\ n \in Nat /\ n \in Pending(ctx) /\ \A m \in Pending(ctx) : m >= n
      /\ Pending(ctx) \subseteq Live(ctx) /\ Live(ctx) \subseteq Nat
  BY <1>1, <1>3, NextFacts, LiveFacts
<1>5. ctx.data[n].sef /\ ctx.data[n].show /\ ~IsCoded(ctx, n)
  BY <1>1, <1>2, <1>4 DEF IsSef, IsCoded, CtxOK, RefsOK
<1> DEFINE d == [ctx EXCEPT !.output = n + 1]
<1>6. Behind(ctx, d, n) /\ d.output = n + 1
  <2> DEFINE k == n + 1
  <2>1. CtxOK(ctx) /\ Pending(ctx) # {} /\ n = Next0(ctx)
    BY <1>1, <1>3
  <2>2. k = n \/ (k = n + 1 /\ ctx.data[n].sef)
    BY <1>5
  <2> HIDE DEF k
  <2>3. LET e == [ctx EXCEPT !.output = k]
        IN Behind(ctx, e, n) /\ e.output = k
    BY ONLY <2>1, <2>2, MovedBehind
  <2> QED
    BY <2>3 DEF k
<1> HIDE DEF d
<1>7. decoder[ctx.data[n].slot].input = ctx.data[n].input
  <2>1. Holds(ctx, decoder, n, ctx.data[n].slot, ctx.data[n].input)
    BY <1>1, <1>4, <1>5 DEF ShownOK, ShowOK, SefOK
  <2>2. Writers(ctx, n, ctx.data[n].slot) = {}
    BY <1>4 DEF Writers
  <2> QED
    BY <2>1, <2>2 DEF Holds
<1>8. Finalize(d, ctx.data[n], ctx.data[n].input)
  BY <1>2, <1>7 DEF d
<1>9. \A s \in RefSlots :
        decoder'[s].input = IF IsCoded(ctx, n) /\ s \in ctx.data[n].refresh
                            THEN ctx.data[n].input ELSE decoder[s].input
  BY <1>2, <1>5
<1>10. ShownOK(ctx, decoder, packets)' /\ ctx'.count = ctx.count /\ Delivers(ctx.data[n])
  BY ONLY <1>1, <1>3, <1>5, <1>6, <1>8, <1>9, PacketShown
<1> QED
  BY <1>4, <1>10

LEMMA ReceiveCodedShown ==
  ASSUME FInv, ReceiveCoded
  PROVE  /\ ShownOK(ctx, decoder, packets)' /\ ctx'.count = ctx.count
         /\ \/ \E n \in Pending(ctx) : Delivers(ctx.data[n])
            \/ packets' = packets
<1>1. /\ setup \in Setups /\ CtxOK(ctx) /\ ctx \in Contexts /\ ShownOK(ctx, decoder, packets)
      /\ SyncOK(ctx, decoder)
  BY DEF FInv, IInv, CtxOK
<1> DEFINE D(n) == [i \in RefSlots |-> IF i \in ctx.data[n].refresh
                                      THEN [output |-> n, input |-> ctx.data[n].input]
                                      ELSE decoder[i]]
<1>2. PICK n \in Found :
        /\ IsCoded(ctx, n)
        /\ decoder' = D(n)
        /\ IF ctx.data[n].show THEN Finalize(Encoded(ctx, n), ctx.data[n], ctx.data[n].input)
           ELSE ctx' = Encoded(ctx, n) /\ Returns("Encoded") /\ NoPacket
  BY DEF ReceiveCoded
<1>3. n = Next0(ctx) /\ Pending(ctx) # {}
  BY FoundFacts
<1>4. n \in Pending(ctx) /\ n \in Nat
  BY <1>1, <1>3, NextFacts
<1>5. \A s \in RefSlots :
        decoder'[s].input = IF IsCoded(ctx, n) /\ s \in ctx.data[n].refresh
                            THEN ctx.data[n].input ELSE decoder[s].input
  BY <1>2
<1> HIDE DEF D
<1> DEFINE d == Encoded(ctx, n)
<1>6. Behind(ctx, d, n) /\ d.output = n + 1
  <2>1. IsCoded(ctx, n)
    BY <1>2
  <2> QED
    BY ONLY <1>1, <1>3, <2>1, EncodedBehind
<1>7. IF ctx.data[n].show THEN Finalize(d, ctx.data[n], ctx.data[n].input)
      ELSE ctx' = d /\ Returns("Encoded") /\ NoPacket
  BY <1>2
<1> HIDE DEF d
<1>8. CASE ctx.data[n].show
  <2>1. Finalize(d, ctx.data[n], ctx.data[n].input)
    BY <1>7, <1>8
  <2>2. ShownOK(ctx, decoder, packets)' /\ ctx'.count = ctx.count /\ Delivers(ctx.data[n])
    BY ONLY <1>1, <1>3, <1>5, <1>6, <1>8, <2>1, PacketShown
  <2> QED
    BY <1>4, <2>2
<1>9. CASE ~ctx.data[n].show
  <2>1. ctx' = d /\ setup' = setup /\ packets' = packets
    BY <1>7, <1>9 DEF Returns, NoPacket
  <2> DEFINE new == decoder'
  <2>2. \A s \in RefSlots :
          new[s].input = IF d.output # n /\ IsCoded(ctx, n) /\ s \in ctx.data[n].refresh
                         THEN ctx.data[n].input ELSE decoder[s].input
    BY <1>4, <1>5, <1>6
  <2> HIDE DEF new
  <2>3. FlowKept(d, new) /\ (AllOK(ctx) => AllOK(d))
    <3>1. FlowOK(ctx) /\ ShowOK(ctx, decoder)
      BY <1>1 DEF ShownOK
    <3> QED
      BY ONLY <1>1, <1>3, <1>6, <1>9, <2>2, <3>1, PassFlow
  <2>4. d.processed = ctx.processed /\ d.count = ctx.count
    BY <1>6 DEF Behind, Passed
  <2>5. ShownOK(ctx', decoder', packets')
    BY <1>1, <2>1, <2>3, <2>4 DEF ShownOK, FlowKept, new
  <2> QED
    BY <2>1, <2>4, <2>5, PrimedShown
<1> QED
  BY <1>8, <1>9

LEMMA SameShown ==
  ASSUME ShownOK(ctx, decoder, packets), UNCHANGED <<setup, ctx, decoder, packets>>
  PROVE  ShownOK(ctx, decoder, packets)' /\ ctx'.count = ctx.count
<1>1. setup' = setup /\ ctx' = ctx /\ decoder' = decoder /\ packets' = packets
  OBVIOUS
<1>2. ShownOK(ctx', decoder', packets') /\ ctx'.count = ctx.count
  BY <1>1
<1> QED
  BY <1>1, <1>2, PrimedShown

LEMMA FlowKeeps == FInv /\ [Next]_vars => FInv'
<1> SUFFICES ASSUME FInv, [Next]_vars
             PROVE  ShownOK(ctx, decoder, packets)'
  BY NextKeeps DEF FInv
<1>1. ShownOK(ctx, decoder, packets)
  BY DEF FInv
<1>2. ASSUME NEW forced \in BOOLEAN, Send(forced)
      PROVE  ShownOK(ctx, decoder, packets)'
  BY <1>2, SendShown
<1>3. CASE SendRefused
  BY <1>1, <1>3, SameShown DEF SendRefused
<1>4. CASE Flush
  BY <1>4, FlushShown
<1>5. CASE ReceiveNothing
  BY <1>5, ReceiveNothingShown
<1>6. CASE ReceiveExisting
  BY <1>6, ReceiveExistingShown
<1>7. CASE ReceiveCoded
  BY <1>7, ReceiveCodedShown
<1>8. CASE UNCHANGED vars
  BY <1>1, <1>8, SameShown DEF vars, client
<1> QED
  BY <1>2, <1>3, <1>4, <1>5, <1>6, <1>7, <1>8 DEF Next, Receive

\* What a call that encodes nothing has found.
LEMMA StatusTold ==
  ASSUME FInv
  PROVE  /\ Status(ctx) = "NeedMoreData"
              => ~flushing /\ (NeedsMoreFiLookahead(ctx) \/ setup.limit = 1)
         /\ Status(ctx) = "LimitReached" => flushing /\ Len(packets) = ctx.count
<1>1. /\ setup \in Setups /\ CtxOK(ctx) /\ ctx \in Contexts /\ QueueOK(ctx) /\ SourceThere(ctx)
      /\ ctx.end = flushing /\ flushing \in BOOLEAN
      /\ ~flushing => CodedAhead(ctx) /\ ctx.limit = setup.limit
      /\ StockOK(ctx) /\ AllOK(ctx) /\ Len(packets) = ctx.processed
  BY DEF FInv, IInv, CtxOK, ShownOK, FlowOK
<1>2. /\ ctx.count \in Nat /\ ctx.processed \in Nat /\ ctx.limit \in Nat \cup {None}
      /\ ctx.nextFrame \in Nat /\ ctx.nextOutput \in Nat /\ ctx.processed <= ctx.count
  BY <1>1, CtxFacts DEF StockOK
<1>3. ctx.limit # None => ctx.limit \in Nat /\ ctx.count <= ctx.limit
  BY <1>1, <1>2 DEF QueueOK
<1>4. /\ setup.limit \in (Nat \ {0}) \cup {None} /\ setup.rdo \in Nat \ {0} /\ Distance \in Nat
  BY <1>1, SetupAssumption, SetupFacts
<1>5. ctx.nextOutput = 0 => ctx.processed = 0
  <2>1. ctx.nextOutput = 0 => Live(ctx) = {}
    <3>1. DOMAIN ctx.data \subseteq 0 .. ctx.nextOutput - 1 /\ Live(ctx) \subseteq DOMAIN ctx.data
      BY <1>1, LiveFacts DEF CtxOK, DataOK
    <3> QED
      BY <3>1
  <2> QED
    BY <1>1, <1>2, <2>1 DEF CtxOK, ProcessedOK
<1>6. DoneProcessing(ctx) => flushing /\ Len(packets) = ctx.count
  <2> SUFFICES ASSUME DoneProcessing(ctx)
               PROVE  flushing /\ Len(packets) = ctx.count
    OBVIOUS
  <2>1. ctx.processed = ctx.limit /\ ctx.limit # None /\ ctx.processed = ctx.count
    BY <1>2, <1>3 DEF DoneProcessing
  <2>2. ASSUME ~flushing
        PROVE  FALSE
    <3>1. CASE ctx.nextOutput = 0
      BY <1>1, <1>4, <1>5, <2>1, <2>2, <3>1
    <3>2. CASE ctx.nextOutput > 0
      <4>1. ctx.processed < ctx.count
        BY <1>1, <2>2, <3>2, AheadFacts
      <4> QED
        BY <1>2, <2>1, <4>1
    <3> QED
      BY <1>2, <3>1, <3>2
  <2> QED
    BY <1>1, <2>1, <2>2
<1>7. Pending(ctx) # {} => NeedsMoreFrames(ctx, ctx.data[Next0(ctx)].input)
  <2> SUFFICES ASSUME Pending(ctx) # {}
               PROVE  NeedsMoreFrames(ctx, ctx.data[Next0(ctx)].input)
    OBVIOUS
  <2> DEFINE n == Next0(ctx)
             x == ctx.data[n].input
  <2>1. n \in Live(ctx) /\ ctx.nextOutput > 0
    BY <1>1, <1>2, NextFacts
  <2> HIDE DEF n
  <2>2. x \in Nat /\ x < ctx.count
    BY <1>1, <2>1, PlaceInGroup
  <2> HIDE DEF x
  <2>3. NeedsMoreFrames(ctx, x)
    BY <1>2, <1>3, <2>2 DEF NeedsMoreFrames
  <2> QED
    BY <2>3 DEF x, n
<1>8. Pending(ctx) # {} /\ IsCoded(ctx, Next0(ctx)) => ctx.data[Next0(ctx)].input \in ctx.frames
  BY <1>1, NextFacts DEF SourceThere
<1>9. ASSUME ~DoneProcessing(ctx), NothingReady(ctx)
      PROVE  ~flushing /\ (NeedsMoreFiLookahead(ctx) \/ setup.limit = 1)
  <2>1. NeedsMoreFiLookahead(ctx) \/ Pending(ctx) = {}
    BY <1>9 DEF NothingReady
  <2>2. ASSUME flushing
        PROVE  FALSE
    <3>1. ctx.limit = ctx.count /\ (ctx.count > 0 => ctx.nextFrame = ctx.count) /\ ctx.limit # None
      BY <1>1, <1>2, <2>2 DEF QueueOK, None
    <3>2. CASE NeedsMoreFiLookahead(ctx)
      <4>1. ctx.nextFrame < ctx.limit
        BY <3>1, <3>2 DEF NeedsMoreFiLookahead, NeedsMoreFrames
      <4> QED
        BY <1>2, <3>1, <4>1
    <3>3. CASE Pending(ctx) = {}
      <4>1. \A i \in ctx.processed .. ctx.count - 1 : FALSE
        BY <1>1, <2>2, <3>3 DEF AllOK, Shows
      <4>2. ctx.processed < ctx.count => ctx.processed \in ctx.processed .. ctx.count - 1
        BY <1>2
      <4>3. ctx.processed = ctx.count
        BY <1>2, <4>1, <4>2
      <4> QED
        BY <1>9, <3>1, <4>3 DEF DoneProcessing
    <3> QED
      BY <2>1, <3>2, <3>3
  <2>3. ASSUME ~NeedsMoreFiLookahead(ctx)
        PROVE  setup.limit = 1
    <3>1. Pending(ctx) = {} /\ ctx.limit = setup.limit
      BY <1>1, <2>1, <2>2, <2>3
    <3>2. Cardinality({m \in Pending(ctx) : IsCoded(ctx, m)}) = 0
      <4>1. {m \in Pending(ctx) : IsCoded(ctx, m)} = {}
        BY <3>1
      <4> QED
        BY <4>1, FS_EmptySet
    <3>3. ~NeedsMoreFrames(ctx, ctx.nextFrame)
      BY <1>4, <2>3, <3>2 DEF NeedsMoreFiLookahead
    <3>4. ctx.limit # None /\ ctx.limit <= ctx.nextFrame
      BY <1>2, <3>3 DEF NeedsMoreFrames
    <3>5. ctx.nextFrame = 1 \/ ctx.nextFrame + Distance < ctx.count
      BY <1>1, <2>2 DEF QueueOK
    <3> QED
      BY <1>2, <1>3, <1>4, <3>1, <3>4, <3>5 DEF None
  <2> QED
    BY <1>1, <2>2, <2>3
<1>10. Status(ctx) = "NeedMoreData" => ~DoneProcessing(ctx) /\ NothingReady(ctx)
  BY <1>7, <1>8 DEF Status, NothingReady
<1>11. Status(ctx) = "LimitReached" => DoneProcessing(ctx)
  BY <1>7 DEF Status, NothingReady
<1> QED
  BY <1>6, <1>9, <1>10, <1>11

\* What the calls return.
LEMMA ReturnsTold ==
  FInv /\ [Next]_vars =>
    [/\ ret' = "NeedMoreData" => ~flushing /\ (NeedsMoreFiLookahead(ctx) \/ setup.limit = 1)
     /\ ret' = "LimitReached" => flushing /\ Len(packets) = ctx.count]_vars
<1> DEFINE Told == /\ ret' = "NeedMoreData" => ~flushing /\ (NeedsMoreFiLookahead(ctx) \/ setup.limit = 1)
                   /\ ret' = "LimitReached" => flushing /\ Len(packets) = ctx.count
<1> SUFFICES ASSUME FInv, Next
             PROVE  Told
  OBVIOUS
<1>1. CASE \E forced \in BOOLEAN : Send(forced)
  BY <1>1 DEF Send
<1>2. CASE SendRefused
  BY <1>2 DEF SendRefused
<1>3. CASE Flush
  BY <1>3 DEF Flush
<1>4. CASE ReceiveNothing
  <2>1. ret' = Status(ctx)
    BY <1>4 DEF ReceiveNothing, Returns
  <2> QED
    BY <2>1, StatusTold
<1>5. CASE ReceiveExisting
  BY <1>5 DEF ReceiveExisting, Finalize, Returns
<1>6. CASE ReceiveCoded
  <2>1. ret' = "Ok" \/ ret' = "Encoded"
    BY <1>6 DEF ReceiveCoded, Finalize, Returns
  <2> QED
    BY <2>1
<1> QED
  BY <1>1, <1>2, <1>3, <1>4, <1>5, <1>6 DEF Next, Receive

\* compute_frame_invariants leaves no frame out: an input frame that the schedule
\* has come to and that is not out yet is shown by a pending output frame, and is
\* queued with what was sent along; one that is coded hidden is still in its slot
\* of the reference buffer when a show-existing frame takes it from there.
THEOREM FlowInvariance == Spec => []FInv
<1>1. Init => FInv
  BY InitOK, InitShown DEF FInv
<1> QED
  BY <1>1, FlowKeeps, PTL DEF Spec

\* receive_packet answers as api/context.rs says: when needs_more_fi_lookahead is
\* false there is a packet or a frame is encoded (what the channels' unreachable!()
\* rests on), more data is asked for only before the flush, and the limit is
\* reported only when every frame is out.
THEOREM ContractKept == Spec => Contract
<1> QED
  BY FlowInvariance, ReturnsTold, PTL DEF Contract, Spec

\* What a packet shows, as DisplayOrder has it.
ShownBy(r) == IF r.opaque = r.content THEN r.input ELSE None

LEMMA ShownAppend ==
  ASSUME NEW T, NEW s \in Seq(T), NEW r \in T
  PROVE  LET Of(t) == [i \in DOMAIN t |-> ShownBy(t[i])]
         IN Of(Append(s, r)) = Append(Of(s), ShownBy(r)) /\ Len(Of(s)) = Len(s)
<1> DEFINE Of(t) == [i \in DOMAIN t |-> ShownBy(t[i])]
           F(x) == ShownBy(x)
           q == [i \in DOMAIN s |-> F(s[i])]
           p == [i \in DOMAIN Append(s, r) |-> F(Append(s, r)[i])]
<1>1. /\ DOMAIN s = 1 .. Len(s) /\ Len(s) \in Nat
      /\ DOMAIN Append(s, r) = 1 .. Len(s) + 1
      /\ \A i \in 1 .. Len(s) : Append(s, r)[i] = s[i]
      /\ Append(s, r)[Len(s) + 1] = r
  OBVIOUS
<1> HIDE DEF F
<1>2. q \in Seq({F(s[i]) : i \in DOMAIN s}) /\ Len(q) = Len(s)
      /\ \A i \in 1 .. Len(s) : q[i] = F(s[i])
  <2> DEFINE U == {F(s[i]) : i \in DOMAIN s}
  <2>1. q = [i \in 1 .. Len(s) |-> F(s[i])] /\ \A i \in 1 .. Len(s) : F(s[i]) \in U
    BY <1>1
  <2> HIDE DEF U
  <2>2. [i \in 1 .. Len(s) |-> F(s[i])] \in [1 .. Len(s) -> U]
    BY <2>1
  <2>3. q \in Seq(U)
    BY <1>1, <2>1, <2>2
  <2>4. DOMAIN q = 1 .. Len(s)
    BY <2>1
  <2>5. Len(q) = Len(s)
    BY <1>1, <2>3, <2>4
  <2> QED
    BY <2>1, <2>3, <2>5 DEF U
<1> DEFINE a == Append(q, F(r))
<1>3. a = p
  <2>1. /\ DOMAIN a = 1 .. Len(s) + 1
        /\ \A i \in 1 .. Len(s) : a[i] = q[i]
        /\ a[Len(s) + 1] = F(r)
        /\ a = [i \in 1 .. Len(s) + 1 |-> a[i]]
    <3> DEFINE U == {F(s[i]) : i \in DOMAIN s} \cup {F(r)}
    <3>1. q \in Seq(U) /\ F(r) \in U
      <4>1. \A S : \A W : S \subseteq W => Seq(S) \subseteq Seq(W)
        OBVIOUS
      <4> QED
        BY <1>2, <4>1
    <3> HIDE DEF U, q
    <3> DEFINE z == F(r)
    <3> HIDE DEF z
    <3>2. /\ Append(q, z) \in Seq(U) /\ Len(Append(q, z)) = Len(q) + 1
          /\ \A i \in 1 .. Len(q) : Append(q, z)[i] = q[i]
          /\ Append(q, z)[Len(q) + 1] = z
      BY <3>1 DEF z
    <3> DEFINE b == Append(q, z)
    <3>3. b \in Seq(U) /\ Len(b) = Len(s) + 1
      BY <1>2, <3>2
    <3>4. /\ \A i \in 1 .. Len(s) : b[i] = q[i]
          /\ b[Len(s) + 1] = z
      BY <1>2, <3>2
    <3> HIDE DEF b
    <3>5. DOMAIN b = 1 .. Len(s) + 1 /\ b = [i \in 1 .. Len(s) + 1 |-> b[i]]
      BY <3>3
    <3> QED
      BY <3>4, <3>5 DEF b, z
  <2>2. /\ DOMAIN p = 1 .. Len(s) + 1
        /\ \A i \in 1 .. Len(s) + 1 : p[i] = F(Append(s, r)[i])
        /\ p = [i \in 1 .. Len(s) + 1 |-> p[i]]
    BY <1>1
  <2> HIDE DEF a, p, q
  <2>3. \A i \in 1 .. Len(s) + 1 : a[i] = p[i]
    <3> SUFFICES ASSUME NEW i \in 1 .. Len(s) + 1
                 PROVE  a[i] = p[i]
      OBVIOUS
    <3>1. CASE i \in 1 .. Len(s)
      BY <1>1, <1>2, <2>1, <2>2, <3>1
    <3>2. CASE i = Len(s) + 1
      BY <1>1, <2>1, <2>2, <3>2
    <3> QED
      BY <1>1, <3>1, <3>2
  <2> QED
    BY <2>1, <2>2, <2>3
<1> QED
  BY <1>2, <1>3 DEF F

\* A packet is the next delivery.
LEMMA DeliversNext ==
  ASSUME FInv, NEW fi, Delivers(fi), fi \in FrameInvariants, ctx'.count = ctx.count,
         flushing' = flushing, ended' = ended
  PROVE  Order!Deliver
<1> DEFINE T == [input : Nat, content : Nat \cup {None}, t35 : Nat \cup {None}, opaque : Nat \cup {None}]
           r == [input |-> fi.input, content |-> fi.input, t35 |-> fi.t35, opaque |-> fi.input]
           Of(t) == [i \in DOMAIN t |-> ShownBy(t[i])]
<1>1. packets \in Seq(T) /\ Len(packets) = ctx.processed
  BY DEF FInv, ShownOK, Packets
<1>2. /\ fi.input = ctx.processed /\ ctx.processed < ctx.count /\ packets' = Append(packets, r)
  BY DEF Delivers
<1>3. r \in T
  BY FiFacts
<1>4. ShownBy(r) = fi.input
  BY DEF ShownBy
<1> HIDE DEF T, r
<1>5. Of(Append(packets, r)) = Append(Of(packets), ShownBy(r)) /\ Len(Of(packets)) = Len(packets)
  BY ONLY <1>1, <1>3, ShownAppend
<1>6. Of(packets') = Append(Of(packets), Len(Of(packets))) /\ Len(Of(packets)) < ctx.count
  BY <1>1, <1>2, <1>4, <1>5
<1> QED
  BY <1>6 DEF Order!Deliver, ShownBy

LEMMA OrderStep == FInv /\ [Next]_vars => [Order!Next]_(Order!vars)
<1> SUFFICES ASSUME FInv, [Next]_vars
             PROVE  [Order!Next]_(Order!vars)
  OBVIOUS
<1>1. /\ CtxOK(ctx) /\ ended \in BOOLEAN /\ packets \in Packets
  BY DEF FInv, IInv, ShownOK
<1> DEFINE Still == ctx'.count = ctx.count /\ packets' = packets
           Stutter == Still /\ flushing' = flushing /\ ended' = ended
           Step == [Order!Next]_(Order!vars)
<1>2. Stutter => Step
  BY DEF Order!vars
<1>3. Still /\ flushing' /\ ended' = ended => Step
  BY DEF Order!Next, Order!Close
<1>4. ASSUME NEW n \in Pending(ctx), Delivers(ctx.data[n]), ctx'.count = ctx.count,
             flushing' = flushing, ended' = ended
      PROVE  Step
  <2>1. ctx.data[n] \in FrameInvariants
    BY <1>1, LiveFacts DEF CtxOK
  <2>2. Order!Deliver
    BY <1>4, <2>1, DeliversNext
  <2> QED
    BY <2>2 DEF Order!Next
<1> HIDE DEF Step
<1>5. ASSUME NEW forced \in BOOLEAN, Send(forced)
      PROVE  Step
  <2>1. /\ ctx'.count = ctx.count + 1 /\ packets' = packets /\ ~flushing /\ flushing' = flushing
        /\ ended' = ended
    BY <1>5, SendShown DEF Send
  <2>2. Order!Accept
    BY <2>1 DEF Order!Accept
  <2> QED
    BY <2>2 DEF Order!Next, Step
<1>6. ASSUME SendRefused
      PROVE  Step
  BY <1>2, <1>6 DEF SendRefused
<1>7. ASSUME Flush
      PROVE  Step
  <2>1. ctx'.count = ctx.count
    BY <1>7, FlushShown
  <2>2. flushing' /\ ended' = ended /\ packets' = packets
    BY <1>7 DEF Flush
  <2> QED
    BY <1>3, <2>1, <2>2
<1>8. ASSUME ReceiveNothing
      PROVE  Step
  <2>1. ctx'.count = ctx.count
    BY <1>8, ReceiveNothingShown
  <2>2. /\ packets' = packets /\ flushing' = flushing
        /\ ended' = (ended \/ Status(ctx) = "LimitReached")
    BY <1>8 DEF ReceiveNothing, Returns, NoPacket
  <2>3. CASE Status(ctx) = "LimitReached"
    <3>1. flushing /\ Len(packets) = ctx.count /\ ended' = TRUE
      BY <2>2, <2>3, StatusTold
    <3>2. Len([i \in DOMAIN packets |-> ShownBy(packets[i])]) = Len(packets)
      <4> DEFINE T == [input : Nat, content : Nat \cup {None}, t35 : Nat \cup {None},
                       opaque : Nat \cup {None}]
                 x == [input |-> 0, content |-> 0, t35 |-> 0, opaque |-> 0]
                 Of(t) == [i \in DOMAIN t |-> ShownBy(t[i])]
      <4>1. packets \in Seq(T) /\ x \in T
        BY <1>1 DEF Packets
      <4> HIDE DEF T, x
      <4>2. Of(Append(packets, x)) = Append(Of(packets), ShownBy(x)) /\ Len(Of(packets)) = Len(packets)
        BY ONLY <4>1, ShownAppend
      <4> QED
        BY <4>2
    <3>3. Order!Announce
      BY <2>1, <2>2, <3>1, <3>2 DEF Order!Announce, ShownBy
    <3> QED
      BY <3>3 DEF Order!Next, Step
  <2>4. CASE Status(ctx) # "LimitReached"
    <3>1. ended' = ended
      BY <1>1, <2>2, <2>4
    <3> QED
      BY <1>2, <2>1, <2>2, <3>1
  <2> QED
    BY <2>3, <2>4
<1>9. ASSUME Returns("Ok") \/ Returns("Encoded")
      PROVE  flushing' = flushing /\ ended' = ended
  BY <1>1, <1>9 DEF Returns
<1>10. ASSUME ReceiveExisting
       PROVE  Step
  <2>1. Returns("Ok")
    BY <1>10 DEF ReceiveExisting, Finalize
  <2>2. ctx'.count = ctx.count /\ \E n \in Pending(ctx) : Delivers(ctx.data[n])
    BY <1>10, ReceiveExistingShown
  <2> QED
    BY <1>4, <1>9, <2>1, <2>2
<1>11. ASSUME ReceiveCoded
       PROVE  Step
  <2>1. Returns("Ok") \/ Returns("Encoded")
    BY <1>11 DEF ReceiveCoded, Finalize
  <2>2. /\ ctx'.count = ctx.count
        /\ (\E n \in Pending(ctx) : Delivers(ctx.data[n])) \/ packets' = packets
    BY <1>11, ReceiveCodedShown
  <2> QED
    BY <1>2, <1>4, <1>9, <2>1, <2>2
<1>12. ASSUME UNCHANGED vars
       PROVE  Step
  BY <1>2, <1>12 DEF vars, client
<1>13. Step
  BY <1>5, <1>6, <1>7, <1>8, <1>10, <1>11, <1>12 DEF Next, Receive
<1> QED
  BY <1>13 DEF Step

\* EncoderQueue implements DisplayOrder: packet n, coded or shown again, shows the
\* frame that was sent n-th, whatever is coded out of order, and the call that says
\* that the limit is reached comes when all that were sent have been shown.
THEOREM OrderKept == Spec => OrderSpec
<1>1. Init => Order!Init
  <2> SUFFICES ASSUME Init
               PROVE  Order!Init
    OBVIOUS
  <2>1. ctx.count = 0 /\ flushing = FALSE /\ packets = <<>> /\ ended = FALSE
    BY DEF Init, InitCtx
  <2>2. [i \in DOMAIN packets |-> ShownBy(packets[i])] = <<>>
    BY <2>1
  <2> QED
    BY <2>1, <2>2 DEF Order!Init, ShownBy
<1> QED
  BY <1>1, FlowInvariance, OrderStep, PTL DEF Spec, OrderSpec, Order!Spec
=============================================================================
