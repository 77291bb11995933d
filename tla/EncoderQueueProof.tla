-------------------------- MODULE EncoderQueueProof --------------------------
(***************************************************************************)
(* Proofs about GroupSchedule and EncoderQueue.  First, what               *)
(* build_schedule makes, for every depth of the pyramid: the recursions of *)
(* CodingOrder and BuildSchedule are shown to define functions, and then   *)
(* what those compute, by the least counterexample.  Then, that what the   *)
(* encoder looks back at is there, and frames are predicted from what a    *)
(* decoder has, for any pyramid, look-ahead and key frames, and any number *)
(* of frames.                                                              *)
(***************************************************************************)
EXTENDS EncoderQueue, TLAPS, FiniteSetTheorems, WellFoundedInduction

----------------------------------------------------------------------------
(* Numbers *)

\* A set of numbers that is not empty has a least element.
LEMMA MinFacts ==
  ASSUME NEW S, S \subseteq Nat, S # {}
  PROVE  Min(S) \in S /\ \A x \in S : Min(S) <= x
<1> DEFINE R == OpToRel(<, Nat)
<1>1. IsWellFoundedOn(R, Nat)
  BY NatLessThanWellFounded
<1>2. \E m \in S : \A k \in S : ~(<<k, m>> \in R)
  <2> HIDE DEF R
  <2> QED
    BY <1>1, WFMin
<1>3. PICK m \in S : \A k \in S : ~(<<k, m>> \in R)
  BY <1>2
<1>4. \A k \in S : ~(k < m)
  BY <1>3 DEF OpToRel
<1>5. \A k \in S : m <= k
  BY <1>4
<1> QED
  BY <1>5 DEF Min

LEMMA LevelFacts ==
  ASSUME NEW d \in Depths, NEW pos \in Int
  PROVE  PosToLvl(pos, d) \in 0 .. d
<1> DEFINE S == {l \in 0 .. d : pos % 2 ^ (d - l) = 0}
<1>1. d \in Nat /\ d - d = 0 /\ 2 ^ 0 = 1
  BY DEF Depths
<1>2. pos % 1 = 0
  OBVIOUS
<1>3. d \in S
  BY <1>1, <1>2
<1>4. Min(S) \in S
  <2>1. S \subseteq Nat /\ S # {}
    BY <1>3
  <2> HIDE DEF S
  <2> QED
    BY <2>1, MinFacts
<1> QED
  BY <1>4 DEF PosToLvl

LEMMA InputLenFacts ==
  ASSUME NEW d \in Depths
  PROVE  2 ^ d \in Nat \ {0}
<1>1. d \in {0, 1, 2, 3, 4}
  BY DEF Depths
<1>2. 2 ^ 0 = 1 /\ 2 ^ 1 = 2 /\ 2 ^ 2 = 4 /\ 2 ^ 3 = 8 /\ 2 ^ 4 = 16
  OBVIOUS
<1>3. d = 0 => 2 ^ d = 1
  BY ONLY <1>2, Zenon
<1>4. d = 1 => 2 ^ d = 2
  BY ONLY <1>2, Zenon
<1>5. d = 2 => 2 ^ d = 4
  BY ONLY <1>2, Zenon
<1>6. d = 3 => 2 ^ d = 8
  BY ONLY <1>2, Zenon
<1>7. d = 4 => 2 ^ d = 16
  BY ONLY <1>2, Zenon
<1> QED
  BY <1>1, <1>3, <1>4, <1>5, <1>6, <1>7

----------------------------------------------------------------------------
(* Recursion *)

\* Recursion over values of a set S, from it, by a step for each number.
Stepping(S, it, step) == it \in S /\ step \in [Nat -> [S -> S]]

\* What f has done after n steps from it.
Steps(f, n, S, it, step) ==
  f \in [0 .. n -> S] /\ f[0] = it /\ \A k \in 0 .. n - 1 : f[k + 1] = step[k][f[k]]

Forever(f, S, it, step) ==
  f \in [Nat -> S] /\ f[0] = it /\ \A k \in Nat : f[k + 1] = step[k][f[k]]

LEMMA StepsExist ==
  ASSUME NEW S, NEW it, NEW step, Stepping(S, it, step)
  PROVE  \A n \in Nat : \E f : Steps(f, n, S, it, step)
<1> DEFINE B == {n \in Nat : ~\E f : Steps(f, n, S, it, step)}
<1>1. SUFFICES ASSUME B # {}
               PROVE  FALSE
  OBVIOUS
<1> DEFINE m == Min(B)
<1>2. m \in B /\ \A x \in B : m <= x
  <2>1. B \subseteq Nat
    OBVIOUS
  <2> HIDE DEF B
  <2> QED
    BY <1>1, <2>1, MinFacts
<1> HIDE DEF m
<1>3. m # 0
  <2> DEFINE f == [k \in 0 .. 0 |-> it]
  <2>1. f \in [0 .. 0 -> S] /\ f[0] = it /\ 0 .. 0 - 1 = {}
    BY DEF Stepping
  <2>2. Steps(f, 0, S, it, step)
    <3> HIDE DEF f
    <3> QED
      BY <2>1 DEF Steps
  <2> QED
    BY <1>2, <2>2
<1>4. m \in Nat /\ m - 1 \in Nat /\ m - 1 \notin B
  BY <1>2, <1>3
<1>5. PICK f : Steps(f, m - 1, S, it, step)
  BY <1>4
<1>6. /\ f \in [0 .. m - 1 -> S] /\ f[0] = it
      /\ \A k \in 0 .. m - 2 : f[k + 1] = step[k][f[k]]
  BY <1>4, <1>5 DEF Steps
<1> DEFINE last == step[m - 1][f[m - 1]]
           h == [k \in 0 .. m |-> IF k = m THEN last ELSE f[k]]
<1>7. last \in S
  <2>1. m - 1 \in 0 .. m - 1
    BY <1>4
  <2> QED
    BY <1>4, <1>6, <2>1 DEF Stepping
<1>8. h \in [0 .. m -> S]
  <2>1. \A k \in 0 .. m : k = m \/ k \in 0 .. m - 1
    BY <1>4
  <2> QED
    BY <1>6, <1>7, <2>1
<1>9. h[0] = it
  BY <1>3, <1>4, <1>6
<1>10. ASSUME NEW k \in 0 .. m - 1
       PROVE  h[k + 1] = step[k][h[k]]
  <2>1. k \in 0 .. m /\ k # m /\ k + 1 \in 0 .. m /\ h[k] = f[k]
    BY <1>4
  <2>2. CASE k = m - 1
    <3>1. k + 1 = m
      BY <1>4, <2>2
    <3> QED
      BY <2>1, <2>2, <3>1
  <2>3. CASE k # m - 1
    <3>1. k \in 0 .. m - 2 /\ k + 1 # m
      BY <1>4, <2>3
    <3> QED
      BY <1>6, <2>1, <3>1
  <2> QED
    BY <2>2, <2>3
<1>11. Steps(h, m, S, it, step)
  <2> HIDE DEF h
  <2> QED
    BY <1>8, <1>9, <1>10 DEF Steps
<1> QED
  BY <1>2, <1>11

LEMMA StepsAgree ==
  ASSUME NEW S, NEW it, NEW step, Stepping(S, it, step),
         NEW n \in Nat, NEW m \in Nat, NEW f, NEW g,
         Steps(f, n, S, it, step), Steps(g, m, S, it, step)
  PROVE  \A k \in Nat : k <= n /\ k <= m => f[k] = g[k]
<1> DEFINE B == {k \in Nat : k <= n /\ k <= m /\ f[k] # g[k]}
<1>1. SUFFICES ASSUME B # {}
               PROVE  FALSE
  OBVIOUS
<1> DEFINE x == Min(B)
<1>2. x \in B /\ \A y \in B : x <= y
  <2>1. B \subseteq Nat
    OBVIOUS
  <2> HIDE DEF B
  <2> QED
    BY <1>1, <2>1, MinFacts
<1> HIDE DEF x
<1>3. /\ f[0] = it /\ \A k \in 0 .. n - 1 : f[k + 1] = step[k][f[k]]
      /\ g[0] = it /\ \A k \in 0 .. m - 1 : g[k + 1] = step[k][g[k]]
  BY DEF Steps
<1>4. x # 0
  BY <1>2, <1>3
<1> DEFINE w == x - 1
<1>5. /\ w \in Nat /\ w \notin B /\ w \in 0 .. n - 1 /\ w \in 0 .. m - 1
      /\ w <= n /\ w <= m /\ w + 1 = x
  BY <1>2, <1>4
<1> HIDE DEF w
<1>6. f[w] = g[w]
  BY <1>5
<1>7. f[w + 1] = g[w + 1]
  BY <1>3, <1>5, <1>6
<1> QED
  BY <1>2, <1>5, <1>7

LEMMA Recursion ==
  ASSUME NEW S, NEW it, NEW step, Stepping(S, it, step)
  PROVE  \E f : Forever(f, S, it, step)
<1> DEFINE R(n) == CHOOSE f : Steps(f, n, S, it, step)
           h == [k \in Nat |-> R(k)[k]]
<1>1. \A n \in Nat : Steps(R(n), n, S, it, step)
  BY StepsExist
<1> HIDE DEF R
<1>2. h \in [Nat -> S]
  <2>1. ASSUME NEW k \in Nat
        PROVE  R(k)[k] \in S
    <3>1. R(k) \in [0 .. k -> S] /\ k \in 0 .. k
      BY <1>1 DEF Steps
    <3> QED
      BY <3>1
  <2> QED
    BY <2>1
<1>3. h[0] = it
  <2>1. R(0)[0] = it
    BY <1>1 DEF Steps
  <2> QED
    BY <2>1
<1>4. ASSUME NEW k \in Nat
      PROVE  h[k + 1] = step[k][h[k]]
  <2>1. k + 1 \in Nat /\ k \in 0 .. (k + 1) - 1 /\ k <= k + 1
    OBVIOUS
  <2>2. R(k + 1)[k + 1] = step[k][R(k + 1)[k]]
    BY <1>1, <2>1 DEF Steps
  <2>3. R(k + 1)[k] = R(k)[k]
    <3> DEFINE u == R(k + 1)
               v == R(k)
    <3>1. Steps(u, k + 1, S, it, step) /\ Steps(v, k, S, it, step)
      BY <1>1, <2>1
    <3> HIDE DEF u, v
    <3>2. \A j \in Nat : j <= k + 1 /\ j <= k => u[j] = v[j]
      BY <2>1, <3>1, StepsAgree
    <3>3. u[k] = v[k]
      BY <2>1, <3>2
    <3> QED
      BY <3>3 DEF u, v
  <2> QED
    BY <2>1, <2>2, <2>3
<1> HIDE DEF h
<1> QED
  BY <1>2, <1>3, <1>4 DEF Forever

----------------------------------------------------------------------------
(* The coding order *)

\* What subdivide makes of the frames between lo and hi.
Halves(f, lo, hi) ==
  IF hi - lo <= 1 THEN <<>>
  ELSE LET mid == (lo + hi) \div 2
       IN <<mid>> \o f[<<lo, mid>>] \o f[<<mid, hi>>]

LEMMA MidFacts ==
  ASSUME NEW lo \in Nat, NEW hi \in Nat, ~(hi - lo <= 1)
  PROVE  LET mid == (lo + hi) \div 2
         IN mid \in Nat /\ lo < mid /\ mid < hi
  OBVIOUS

LEMMA HalvesType ==
  ASSUME NEW n \in Nat, NEW f \in [(0 .. n) \X (0 .. n) -> Seq(0 .. n)],
         NEW lo \in 0 .. n, NEW hi \in 0 .. n
  PROVE  Halves(f, lo, hi) \in Seq(0 .. n)
<1> DEFINE mid == (lo + hi) \div 2
<1>1. CASE hi - lo <= 1
  BY <1>1 DEF Halves
<1>2. CASE ~(hi - lo <= 1)
  <2>1. mid \in 0 .. n
    BY <1>2, MidFacts
  <2> HIDE DEF mid
  <2>2. <<mid>> \in Seq(0 .. n) /\ f[<<lo, mid>>] \in Seq(0 .. n) /\ f[<<mid, hi>>] \in Seq(0 .. n)
    BY <2>1
  <2>3. Halves(f, lo, hi) = <<mid>> \o f[<<lo, mid>>] \o f[<<mid, hi>>]
    BY <1>2 DEF Halves, mid
  <2> QED
    BY <2>2, <2>3
<1> QED
  BY <1>1, <1>2

LEMMA SubdivideExists ==
  ASSUME NEW n \in Nat
  PROVE  \E f \in [(0 .. n) \X (0 .. n) -> Seq(0 .. n)] :
           f = [r \in (0 .. n) \X (0 .. n) |-> Halves(f, r[1], r[2])]
<1> DEFINE P == (0 .. n) \X (0 .. n)
           S == [P -> Seq(0 .. n)]
           it == [r \in P |-> <<>>]
           once == [g \in S |-> [r \in P |-> Halves(g, r[1], r[2])]]
           step == [k \in Nat |-> once]
<1>0. \A r \in P : r[1] \in 0 .. n /\ r[2] \in 0 .. n /\ r = <<r[1], r[2]>>
  OBVIOUS
<1>1. it \in S
  OBVIOUS
<1>2. once \in [S -> S]
  BY <1>0, HalvesType
<1>3. step \in [Nat -> [S -> S]]
  <2> HIDE DEF once
  <2> QED
    BY <1>2
<1>12. PICK G : Forever(G, S, it, step)
  <2>1. Stepping(S, it, step)
    BY <1>1, <1>3 DEF Stepping
  <2> HIDE DEF P, S, it, once, step
  <2> QED
    BY <2>1, Recursion
<1>4. G \in [Nat -> S] /\ G[0] = it /\ \A k \in Nat : G[k + 1] = step[k][G[k]]
  BY <1>12 DEF Forever
<1>5. \A k \in Nat : G[k] \in S /\ G[k + 1] = [r \in P |-> Halves(G[k], r[1], r[2])]
  BY <1>4
<1>6. \A k \in Nat, r \in P : G[k + 1][r] = Halves(G[k], r[1], r[2])
  BY <1>5
<1> DEFINE Stable(k) == \A r \in P : r[2] - r[1] <= k + 1 => G[k + 1][r] = G[k][r]
<1>7. Stable(0)
  <2> SUFFICES ASSUME NEW r \in P, r[2] - r[1] <= 1
               PROVE  G[0 + 1][r] = G[0][r]
    OBVIOUS
  <2>1. G[0][r] = <<>>
    BY <1>4
  <2>2. G[0 + 1][r] = Halves(G[0], r[1], r[2])
    BY <1>6
  <2> QED
    BY <2>1, <2>2 DEF Halves
<1>8. ASSUME NEW k \in Nat, Stable(k)
      PROVE  Stable(k + 1)
  <2> SUFFICES ASSUME NEW r \in P, r[2] - r[1] <= k + 2
               PROVE  G[k + 2][r] = G[k + 1][r]
    BY (k + 1) + 1 = k + 2
  <2> DEFINE lo == r[1]
             hi == r[2]
             mid == (lo + hi) \div 2
  <2>1. lo \in 0 .. n /\ hi \in 0 .. n /\ hi - lo <= k + 2
    BY <1>0
  <2>2. k + 1 \in Nat /\ (k + 1) + 1 = k + 2
    OBVIOUS
  <2>3. G[k + 2][r] = Halves(G[k + 1], lo, hi) /\ G[k + 1][r] = Halves(G[k], lo, hi)
    BY <1>6, <2>2
  <2> HIDE DEF lo, hi
  <2>4. CASE hi - lo <= 1
    BY <2>3, <2>4 DEF Halves
  <2>5. CASE ~(hi - lo <= 1)
    <3>1. mid \in 0 .. n /\ lo < mid /\ mid < hi
      BY <2>1, <2>5, MidFacts
    <3> HIDE DEF mid
    <3>2. /\ <<lo, mid>> \in P /\ <<mid, hi>> \in P
          /\ <<lo, mid>>[1] = lo /\ <<lo, mid>>[2] = mid
          /\ <<mid, hi>>[1] = mid /\ <<mid, hi>>[2] = hi
      BY <2>1, <3>1
    <3>4. mid - lo <= k + 1 /\ hi - mid <= k + 1
      BY ONLY <2>1, <3>1, k \in Nat, n \in Nat
    <3>3. G[k + 1][<<lo, mid>>] = G[k][<<lo, mid>>] /\ G[k + 1][<<mid, hi>>] = G[k][<<mid, hi>>]
      BY <1>8, <3>2, <3>4
    <3> QED
      BY <2>3, <2>5, <3>3 DEF Halves, mid
  <2> QED
    BY <2>4, <2>5
<1>9. Stable(n)
  <2> DEFINE B == {k \in Nat : ~Stable(k)}
  <2>1. SUFFICES ASSUME B # {}
                 PROVE  FALSE
    OBVIOUS
  <2> DEFINE x == Min(B)
  <2>2. x \in B /\ \A y \in B : x <= y
    <3>1. B \subseteq Nat
      OBVIOUS
    <3> HIDE DEF B
    <3> QED
      BY <2>1, <3>1, MinFacts
  <2> HIDE DEF x
  <2> HIDE DEF Stable
  <2>3. x # 0
    BY <1>7, <2>2
  <2>4. x - 1 \in Nat /\ (x - 1) + 1 = x /\ Stable(x - 1)
    BY <2>2, <2>3
  <2>5. Stable((x - 1) + 1)
    BY <1>8, <2>4
  <2> QED
    BY <2>2, <2>4, <2>5
<1>10. \A r \in P : G[n][r] = Halves(G[n], r[1], r[2])
  <2> TAKE r \in P
  <2>1. r[2] - r[1] <= n + 1
    BY <1>0
  <2> QED
    BY <1>6, <1>9, <2>1
<1>11. G[n] = [r \in P |-> Halves(G[n], r[1], r[2])]
  BY <1>5, <1>10
<1> QED
  BY <1>5, <1>11

\* s has each of the numbers from a to b once.
Listing(s, a, b) ==
  /\ s \in Seq(a .. b)
  /\ \A i, j \in 1 .. Len(s) : s[i] = s[j] => i = j
  /\ \A x \in a .. b : \E i \in 1 .. Len(s) : s[i] = x

LEMMA ListingEmpty ==
  ASSUME NEW a \in Int, NEW b \in Int, b < a
  PROVE  Listing(<<>>, a, b)
  BY DEF Listing

LEMMA ListingSplit ==
  ASSUME NEW a \in Int, NEW b \in Int, NEW m \in a .. b, NEW s, NEW t,
         Listing(s, a, m - 1), Listing(t, m + 1, b)
  PROVE  Listing(<<m>> \o s \o t, a, b)
<1> DEFINE u == <<m>> \o s \o t
           l == Len(s)
           r == Len(t)
<1>1. s \in Seq(a .. m - 1) /\ t \in Seq(m + 1 .. b)
  BY DEF Listing
<1>2. l \in Nat /\ r \in Nat
  BY <1>1
<1>3. /\ \A i \in 1 .. l : s[i] \in a .. m - 1
      /\ \A i \in 1 .. r : t[i] \in m + 1 .. b
  BY <1>1
<1>4. s \in Seq(a .. b) /\ t \in Seq(a .. b) /\ <<m>> \in Seq(a .. b)
  BY <1>1
<1>5. u \in Seq(a .. b) /\ Len(u) = 1 + l + r
  BY <1>4
<1>6. /\ u[1] = m
      /\ \A i \in 1 .. l : u[i + 1] = s[i]
      /\ \A i \in 1 .. r : u[i + 1 + l] = t[i]
  BY <1>4, <1>2
<1> HIDE DEF u, l, r
<1>7. ASSUME NEW i \in 1 .. Len(u)
      PROVE  \/ i = 1 /\ u[i] = m
             \/ i - 1 \in 1 .. l /\ u[i] = s[i - 1] /\ u[i] < m
             \/ i - 1 - l \in 1 .. r /\ u[i] = t[i - 1 - l] /\ u[i] > m
  <2>1. CASE i = 1
    BY <1>6, <2>1
  <2>2. CASE i - 1 \in 1 .. l
    <3>1. (i - 1) + 1 = i
      OBVIOUS
    <3>2. u[i] = s[i - 1]
      BY <1>6, <2>2, <3>1
    <3>3. s[i - 1] \in a .. m - 1
      BY <1>3, <2>2
    <3> QED
      BY <2>2, <3>2, <3>3
  <2>3. CASE i - 1 - l \in 1 .. r
    <3>1. (i - 1 - l) + 1 + l = i
      BY <1>2
    <3>2. u[i] = t[i - 1 - l]
      BY <1>6, <2>3, <3>1
    <3>3. t[i - 1 - l] \in m + 1 .. b
      BY <1>3, <2>3
    <3> QED
      BY <2>3, <3>2, <3>3
  <2> QED
    BY <1>2, <1>5, <2>1, <2>2, <2>3
<1>8. ASSUME NEW i \in 1 .. Len(u), NEW j \in 1 .. Len(u), u[i] = u[j]
      PROVE  i = j
  <2>1. /\ \A h, k \in 1 .. l : s[h] = s[k] => h = k
        /\ \A h, k \in 1 .. r : t[h] = t[k] => h = k
    BY DEF Listing, l, r
  <2>2. u[i] \in Int /\ u[j] \in Int /\ m \in Int
    <3>1. u[i] \in a .. b /\ u[j] \in a .. b
      BY <1>5
    <3> QED
      BY <3>1
  <2>6. \/ j = 1 /\ u[j] = m
        \/ j - 1 \in 1 .. l /\ u[j] = s[j - 1] /\ u[j] < m
        \/ j - 1 - l \in 1 .. r /\ u[j] = t[j - 1 - l] /\ u[j] > m
    BY <1>7
  <2>3. CASE i = 1 /\ u[i] = m
    BY ONLY <1>8, <2>2, <2>3, <2>6
  <2>4. CASE i - 1 \in 1 .. l /\ u[i] = s[i - 1] /\ u[i] < m
    <3>1. j - 1 \in 1 .. l /\ u[j] = s[j - 1]
      BY ONLY <1>8, <2>2, <2>4, <2>6
    <3>2. i - 1 = j - 1
      BY ONLY <1>8, <2>1, <2>4, <3>1
    <3> QED
      BY <3>2
  <2>5. CASE i - 1 - l \in 1 .. r /\ u[i] = t[i - 1 - l] /\ u[i] > m
    <3>1. j - 1 - l \in 1 .. r /\ u[j] = t[j - 1 - l]
      BY ONLY <1>8, <2>2, <2>5, <2>6
    <3>2. i - 1 - l = j - 1 - l
      BY ONLY <1>8, <2>1, <2>5, <3>1
    <3> QED
      BY <1>2, <3>2
  <2> QED
    BY <1>7, <2>3, <2>4, <2>5
<1>9. ASSUME NEW x \in a .. b
      PROVE  \E i \in 1 .. Len(u) : u[i] = x
  <2>1. CASE x = m
    <3>1. 1 \in 1 .. Len(u)
      BY <1>2, <1>5
    <3> QED
      BY <1>6, <2>1, <3>1
  <2>2. CASE x \in a .. m - 1
    <3>1. PICK i \in 1 .. l : s[i] = x
      BY <2>2 DEF Listing, l
    <3>2. i + 1 \in 1 .. Len(u)
      BY <1>2, <1>5
    <3> QED
      BY <1>6, <3>1, <3>2
  <2>3. CASE x \in m + 1 .. b
    <3>1. PICK i \in 1 .. r : t[i] = x
      BY <2>3 DEF Listing, r
    <3>2. i + 1 + l \in 1 .. Len(u)
      BY <1>2, <1>5
    <3> QED
      BY <1>6, <3>1, <3>2
  <2> QED
    BY <2>1, <2>2, <2>3
<1>10. Listing(u, a, b)
  BY <1>5, <1>8, <1>9 DEF Listing
<1> QED
  BY <1>10 DEF u

LEMMA SubdivideFacts ==
  ASSUME NEW n \in Nat, NEW f, f = [r \in (0 .. n) \X (0 .. n) |-> Halves(f, r[1], r[2])]
  PROVE  \A lo, hi \in 0 .. n : Listing(f[<<lo, hi>>], lo + 1, hi - 1)
<1>1. ASSUME NEW lo \in 0 .. n, NEW hi \in 0 .. n
      PROVE  f[<<lo, hi>>] = Halves(f, lo, hi)
  <2> DEFINE r == <<lo, hi>>
  <2>1. r \in (0 .. n) \X (0 .. n) /\ r[1] = lo /\ r[2] = hi
    OBVIOUS
  <2>2. f[r] = Halves(f, r[1], r[2])
    <3> HIDE DEF r
    <3> QED
      BY <2>1
  <2> QED
    BY <2>1, <2>2
<1> DEFINE Good(k) == \A lo, hi \in 0 .. n : hi - lo <= k => Listing(f[<<lo, hi>>], lo + 1, hi - 1)
<1>2. Good(1)
  <2> SUFFICES ASSUME NEW lo \in 0 .. n, NEW hi \in 0 .. n, hi - lo <= 1
               PROVE  Listing(f[<<lo, hi>>], lo + 1, hi - 1)
    OBVIOUS
  <2>1. f[<<lo, hi>>] = <<>>
    BY <1>1 DEF Halves
  <2>2. lo + 1 \in Int /\ hi - 1 \in Int /\ hi - 1 < lo + 1
    OBVIOUS
  <2> QED
    BY <2>1, <2>2, ListingEmpty
<1>3. ASSUME NEW k \in Nat, Good(k)
      PROVE  Good(k + 1)
  <2> SUFFICES ASSUME NEW lo \in 0 .. n, NEW hi \in 0 .. n, hi - lo <= k + 1, ~(hi - lo <= 1)
               PROVE  Listing(f[<<lo, hi>>], lo + 1, hi - 1)
    BY <1>2
  <2> DEFINE mid == (lo + hi) \div 2
  <2>1. mid \in Nat /\ lo < mid /\ mid < hi
    BY MidFacts
  <2>2. f[<<lo, hi>>] = <<mid>> \o f[<<lo, mid>>] \o f[<<mid, hi>>]
    BY <1>1 DEF Halves
  <2> HIDE DEF mid
  <2>3. mid \in 0 .. n /\ mid - lo <= k /\ hi - mid <= k
    BY <2>1
  <2>4. Listing(f[<<lo, mid>>], lo + 1, mid - 1) /\ Listing(f[<<mid, hi>>], mid + 1, hi - 1)
    BY <1>3, <2>3
  <2>5. lo + 1 \in Int /\ hi - 1 \in Int /\ mid \in lo + 1 .. hi - 1
    BY <2>1
  <2> DEFINE x == f[<<lo, mid>>]
             y == f[<<mid, hi>>]
             a == lo + 1
             b == hi - 1
  <2>6. a \in Int /\ b \in Int /\ mid \in a .. b /\ Listing(x, a, mid - 1) /\ Listing(y, mid + 1, b)
    BY <2>4, <2>5
  <2>7. Listing(<<mid>> \o x \o y, a, b)
    <3> HIDE DEF x, y, a, b
    <3> QED
      BY <2>6, ListingSplit
  <2> QED
    BY <2>2, <2>7
<1> HIDE DEF Good
<1>4. \A k \in Nat : Good(k + 1)
  <2> DEFINE B == {k \in Nat : ~Good(k + 1)}
  <2>1. SUFFICES ASSUME B # {}
                 PROVE  FALSE
    OBVIOUS
  <2> DEFINE x == Min(B)
  <2>2. x \in B /\ \A y \in B : x <= y
    <3>1. B \subseteq Nat
      OBVIOUS
    <3> HIDE DEF B
    <3> QED
      BY <2>1, <3>1, MinFacts
  <2> HIDE DEF x
  <2>3. x # 0
    BY <1>2, <2>2
  <2>4. x - 1 \in Nat /\ (x - 1) + 1 = x /\ x \in Nat /\ x - 1 \notin B
    BY <2>2, <2>3
  <2>5. Good(x)
    <3>1. Good((x - 1) + 1)
      BY <2>4
    <3> QED
      BY <2>4, <3>1
  <2> QED
    BY <1>3, <2>2, <2>4, <2>5
<1>5. Good(n + 1)
  BY <1>4
<1> QED
  <2> TAKE lo, hi \in 0 .. n
  <2>1. hi - lo <= n + 1
    OBVIOUS
  <2> QED
    BY <1>5, <2>1 DEF Good

\* Each frame of a group is coded once.
LEMMA CodingOrderFacts ==
  ASSUME NEW d \in Depths
  PROVE  Listing(CodingOrder(d), 1, 2 ^ d)
<1> DEFINE n == 2 ^ d
           P == (0 .. n) \X (0 .. n)
           f == CHOOSE f : f = [r \in P |-> Halves(f, r[1], r[2])]
<1>1. n \in Nat \ {0}
  BY InputLenFacts
<1>2. CodingOrder(d) = <<n>> \o f[<<0, n>>]
  BY DEF CodingOrder, Halves
<1>3. f = [r \in P |-> Halves(f, r[1], r[2])]
  <2>1. \E g : g = [r \in P |-> Halves(g, r[1], r[2])]
    <3> HIDE DEF n
    <3> QED
      BY <1>1, SubdivideExists
  <2> QED
    BY <2>1
<1> HIDE DEF n, f
<1>4. Listing(f[<<0, n>>], 1, n - 1)
  <2>1. \A lo, hi \in 0 .. n : Listing(f[<<lo, hi>>], lo + 1, hi - 1)
    BY <1>1, <1>3, SubdivideFacts
  <2>2. Listing(f[<<0, n>>], 0 + 1, n - 1)
    BY <1>1, <2>1
  <2> QED
    BY <2>2
<1>5. Listing(<<>>, n + 1, n)
  BY <1>1, ListingEmpty
<1>6. Listing(<<n>> \o f[<<0, n>>] \o <<>>, 1, n)
  <2> DEFINE x == f[<<0, n>>]
             y == <<>>
  <2>1. Listing(x, 1, n - 1) /\ Listing(y, n + 1, n) /\ n \in 1 .. n /\ 1 \in Int /\ n \in Int
    BY <1>1, <1>4, <1>5
  <2> HIDE DEF x, y
  <2>2. Listing(<<n>> \o x \o y, 1, n)
    BY <2>1, ListingSplit
  <2> QED
    BY <2>2 DEF x, y
<1>7. <<n>> \o f[<<0, n>>] \o <<>> = <<n>> \o f[<<0, n>>]
  BY <1>1, <1>4 DEF Listing
<1> QED
  BY <1>2, <1>6, <1>7 DEF n

----------------------------------------------------------------------------
(* The schedule *)

EntryType(d) == [offset : 1 .. 2 ^ d, level : 0 .. d, shown : BOOLEAN, sef : BOOLEAN]
Emissions(d) == [sched : Seq(EntryType(d)), disp : 1 .. 2 ^ d + 1]

\* What s says of the frames that are coded, those before disp shown too: a frame
\* that is shown comes before all later ones; each frame is coded once, and
\* shown anew only if it was coded hidden.
Schedules(s, disp, coded) ==
  /\ \A i \in 1 .. Len(s) : /\ s[i].offset \in coded
                            /\ s[i].sef => s[i].shown
                            /\ s[i].shown => s[i].offset < disp
  /\ \A i, j \in 1 .. Len(s) : i < j /\ s[i].shown => s[i].offset < s[j].offset
  /\ \A x \in 1 .. disp - 1 : \E i \in 1 .. Len(s) : s[i].shown /\ s[i].offset = x
  /\ \A x \in coded : \E i \in 1 .. Len(s) : ~s[i].sef /\ s[i].offset = x
  /\ \A i, j \in 1 .. Len(s) : i < j /\ ~s[i].sef /\ ~s[j].sef => s[i].offset # s[j].offset
  /\ \A i \in 1 .. Len(s) : s[i].sef =>
       \E j \in 1 .. i - 1 : ~s[j].sef /\ ~s[j].shown /\ s[j].offset = s[i].offset

EmitOK(d, e, coded) ==
  /\ e \in Emissions(d)
  /\ 1 .. e.disp - 1 \subseteq coded /\ e.disp \notin coded
  /\ Schedules(e.sched, e.disp, coded)

\* What follows when frame off is coded: its entry, and those of frames that were
\* coded hidden and are now shown.
Follows(t, off, disp, next, coded) ==
  /\ Len(t) > 0 /\ ~t[1].sef /\ t[1].offset = off
  /\ \A i \in 1 .. Len(t) : /\ disp <= t[i].offset
                            /\ t[i].shown => t[i].offset < next
                            /\ i > 1 => t[i].sef /\ t[i].shown /\ t[i].offset \in coded
  /\ \A i, j \in 1 .. Len(t) : i < j /\ t[i].shown => t[i].offset < t[j].offset
  /\ \A x \in disp .. next - 1 : \E i \in 1 .. Len(t) : t[i].shown /\ t[i].offset = x

LEMMA ConcatFacts ==
  ASSUME NEW T, NEW s \in Seq(T), NEW t \in Seq(T)
  PROVE  /\ s \o t \in Seq(T) /\ Len(s \o t) = Len(s) + Len(t)
         /\ Len(s) \in Nat /\ Len(t) \in Nat
         /\ \A i \in 1 .. Len(s) : (s \o t)[i] = s[i]
         /\ \A i \in 1 .. Len(t) : (s \o t)[i + Len(s)] = t[i]
  OBVIOUS

LEMMA FollowsKeeps ==
  ASSUME NEW d \in Depths, NEW s \in Seq(EntryType(d)), NEW disp \in 1 .. 2 ^ d + 1,
         NEW coded, Schedules(s, disp, coded),
         NEW off \in 1 .. 2 ^ d, off \notin coded,
         NEW t \in Seq(EntryType(d)), NEW next \in 1 .. 2 ^ d + 1, disp <= next,
         Follows(t, off, disp, next, coded)
  PROVE  Schedules(s \o t, next, coded \cup {off})
<1> DEFINE u == s \o t
           l == Len(s)
           r == Len(t)
           C == coded \cup {off}
           n == 2 ^ d
<1>0. n \in Nat \ {0}
  BY InputLenFacts
<1>1. /\ u \in Seq(EntryType(d)) /\ Len(u) = l + r /\ l \in Nat /\ r \in Nat
      /\ \A i \in 1 .. l : u[i] = s[i]
      /\ \A i \in 1 .. r : u[i + l] = t[i]
  BY ConcatFacts
<1>2. /\ \A i \in 1 .. l : s[i] \in EntryType(d)
      /\ \A i \in 1 .. r : t[i] \in EntryType(d)
      /\ \A i \in 1 .. l : s[i].offset \in 1 .. n
      /\ \A i \in 1 .. r : t[i].offset \in 1 .. n
  <2>1. \A e \in EntryType(d) : e.offset \in 1 .. n
    BY DEF EntryType
  <2>2. /\ \A i \in 1 .. l : s[i] \in EntryType(d)
        /\ \A i \in 1 .. r : t[i] \in EntryType(d)
    OBVIOUS
  <2> HIDE DEF n, l, r
  <2> QED
    BY <2>1, <2>2
<1>3. /\ \A i \in 1 .. l : /\ s[i].offset \in coded
                           /\ s[i].sef => s[i].shown
                           /\ s[i].shown => s[i].offset < disp
      /\ \A i, j \in 1 .. l : i < j /\ s[i].shown => s[i].offset < s[j].offset
      /\ \A x \in 1 .. disp - 1 : \E i \in 1 .. l : s[i].shown /\ s[i].offset = x
      /\ \A x \in coded : \E i \in 1 .. l : ~s[i].sef /\ s[i].offset = x
      /\ \A i, j \in 1 .. l : i < j /\ ~s[i].sef /\ ~s[j].sef => s[i].offset # s[j].offset
      /\ \A i \in 1 .. l : s[i].sef =>
           \E j \in 1 .. i - 1 : ~s[j].sef /\ ~s[j].shown /\ s[j].offset = s[i].offset
  BY DEF Schedules
<1>4. /\ r > 0 /\ ~t[1].sef /\ t[1].offset = off
      /\ \A i \in 1 .. r : /\ disp <= t[i].offset
                           /\ t[i].shown => t[i].offset < next
                           /\ i > 1 => t[i].sef /\ t[i].shown /\ t[i].offset \in coded
      /\ \A i, j \in 1 .. r : i < j /\ t[i].shown => t[i].offset < t[j].offset
      /\ \A x \in disp .. next - 1 : \E i \in 1 .. r : t[i].shown /\ t[i].offset = x
  BY DEF Follows
<1> HIDE DEF u, l, r, n
<1>5. ASSUME NEW i \in 1 .. Len(u)
      PROVE  \/ i \in 1 .. l /\ u[i] = s[i]
             \/ i - l \in 1 .. r /\ i > l /\ u[i] = t[i - l]
  <2>1. CASE i <= l
    BY <1>1, <2>1
  <2>2. CASE i > l
    <3>1. i - l \in 1 .. r /\ (i - l) + l = i
      BY <1>1, <2>2
    <3>2. u[i] = t[i - l]
      BY <1>1, <3>1
    <3> QED
      BY <2>2, <3>1, <3>2
  <2> QED
    BY <1>1, <2>1, <2>2
<1>6. ASSUME NEW i \in 1 .. Len(u)
      PROVE  /\ u[i].offset \in C
             /\ u[i].sef => u[i].shown
             /\ u[i].shown => u[i].offset < next
  <2>1. CASE i \in 1 .. l /\ u[i] = s[i]
    BY <1>2, <1>3, <2>1, <1>0
  <2>2. CASE i - l \in 1 .. r /\ i > l /\ u[i] = t[i - l]
    <3>1. CASE i - l = 1
      BY <1>4, <2>2, <3>1
    <3>2. CASE i - l > 1
      BY <1>4, <2>2, <3>2
    <3> QED
      BY <1>1, <2>2, <3>1, <3>2
  <2> QED
    BY <1>5, <2>1, <2>2
<1>7. ASSUME NEW i \in 1 .. Len(u), NEW j \in 1 .. Len(u), i < j
      PROVE  \/ i \in 1 .. l /\ j \in 1 .. l /\ u[i] = s[i] /\ u[j] = s[j]
             \/ i \in 1 .. l /\ j - l \in 1 .. r /\ u[i] = s[i] /\ u[j] = t[j - l]
             \/ /\ i - l \in 1 .. r /\ j - l \in 1 .. r /\ i - l < j - l
                /\ u[i] = t[i - l] /\ u[j] = t[j - l]
  <2>1. \/ i \in 1 .. l /\ u[i] = s[i]
        \/ i - l \in 1 .. r /\ i > l /\ u[i] = t[i - l]
    BY <1>5
  <2>2. \/ j \in 1 .. l /\ u[j] = s[j]
        \/ j - l \in 1 .. r /\ j > l /\ u[j] = t[j - l]
    BY <1>5
  <2> QED
    BY ONLY <1>1, <1>7, <2>1, <2>2, i \in Int, j \in Int
<1>8. ASSUME NEW i \in 1 .. Len(u), NEW j \in 1 .. Len(u), i < j
      PROVE  /\ u[i].shown => u[i].offset < u[j].offset
             /\ ~u[i].sef /\ ~u[j].sef => u[i].offset # u[j].offset
  <2>1. CASE i \in 1 .. l /\ j \in 1 .. l /\ u[i] = s[i] /\ u[j] = s[j]
    BY ONLY <1>3, <1>8, <2>1
  <2>2. CASE i \in 1 .. l /\ j - l \in 1 .. r /\ u[i] = s[i] /\ u[j] = t[j - l]
    <3>1. s[i].shown => s[i].offset < t[j - l].offset
      <4>1. s[i].offset \in 1 .. n /\ t[j - l].offset \in 1 .. n /\ disp <= t[j - l].offset
        BY ONLY <1>2, <1>4, <2>2
      <4>2. s[i].shown => s[i].offset < disp
        BY ONLY <1>3, <2>2
      <4> QED
        BY <1>0, <4>1, <4>2
    <3>2. ~t[j - l].sef => t[j - l].offset = off
      <4>1. j - l \in Int /\ (j - l = 1 \/ j - l > 1)
        BY <1>1, <2>2
      <4> QED
        BY ONLY <1>4, <2>2, <4>1
    <3>3. s[i].offset # off
      BY ONLY <1>3, <2>2, off \notin coded
    <3> QED
      BY ONLY <2>2, <3>1, <3>2, <3>3
  <2>3. CASE /\ i - l \in 1 .. r /\ j - l \in 1 .. r /\ i - l < j - l
             /\ u[i] = t[i - l] /\ u[j] = t[j - l]
    <3>1. t[i - l].shown => t[i - l].offset < t[j - l].offset
      BY ONLY <1>4, <2>3
    <3>2. j - l > 1
      BY <1>1, <2>3
    <3>3. t[j - l].sef
      BY ONLY <1>4, <2>3, <3>2
    <3> QED
      BY ONLY <2>3, <3>1, <3>3
  <2> QED
    BY <1>7, <1>8, <2>1, <2>2, <2>3
<1>9. ASSUME NEW x \in 1 .. next - 1
      PROVE  \E i \in 1 .. Len(u) : u[i].shown /\ u[i].offset = x
  <2>1. CASE x \in 1 .. disp - 1
    <3>1. PICK i \in 1 .. l : s[i].shown /\ s[i].offset = x
      BY <1>3, <2>1
    <3>2. i \in 1 .. Len(u) /\ u[i] = s[i]
      BY <1>1
    <3> QED
      BY <3>1, <3>2
  <2>2. CASE x \in disp .. next - 1
    <3>1. PICK i \in 1 .. r : t[i].shown /\ t[i].offset = x
      BY <1>4, <2>2
    <3>2. i + l \in 1 .. Len(u) /\ u[i + l] = t[i]
      BY <1>1
    <3> QED
      BY <3>1, <3>2
  <2> QED
    BY <1>0, <2>1, <2>2
<1>10. ASSUME NEW x \in C
       PROVE  \E i \in 1 .. Len(u) : ~u[i].sef /\ u[i].offset = x
  <2>1. CASE x \in coded
    <3>1. PICK i \in 1 .. l : ~s[i].sef /\ s[i].offset = x
      BY <1>3, <2>1
    <3>2. i \in 1 .. Len(u) /\ u[i] = s[i]
      BY <1>1
    <3> QED
      BY <3>1, <3>2
  <2>2. CASE x = off
    <3>1. 1 \in 1 .. r /\ 1 + l \in 1 .. Len(u)
      BY <1>1, <1>4
    <3>2. u[1 + l] = t[1]
      BY <1>1, <3>1
    <3> QED
      BY <1>4, <2>2, <3>1, <3>2
  <2> QED
    BY <2>1, <2>2
<1>11. ASSUME NEW i \in 1 .. Len(u), u[i].sef
       PROVE  \E j \in 1 .. i - 1 : ~u[j].sef /\ ~u[j].shown /\ u[j].offset = u[i].offset
  <2>1. CASE i \in 1 .. l /\ u[i] = s[i]
    <3>1. PICK j \in 1 .. i - 1 : ~s[j].sef /\ ~s[j].shown /\ s[j].offset = s[i].offset
      BY <1>3, <1>11, <2>1
    <3>2. j \in 1 .. l
      BY <1>1, <2>1
    <3> QED
      BY <1>1, <2>1, <3>1, <3>2
  <2>2. CASE i - l \in 1 .. r /\ i > l /\ u[i] = t[i - l]
    <3>1. i - l > 1
      <4>1. i - l # 1
        BY ONLY <1>4, <1>11, <2>2
      <4> QED
        BY <1>1, <2>2, <4>1
    <3>2. t[i - l].offset \in coded /\ disp <= t[i - l].offset
      BY ONLY <1>4, <2>2, <3>1
    <3>3. PICK j \in 1 .. l : ~s[j].sef /\ s[j].offset = t[i - l].offset
      BY ONLY <1>3, <3>2
    <3>4. ~s[j].shown
      <4>1. s[j].shown => s[j].offset < disp
        BY <1>3
      <4>2. t[i - l].offset \in 1 .. n
        BY ONLY <1>2, <2>2
      <4> QED
        BY <1>0, <3>2, <3>3, <4>1, <4>2
    <3>5. j \in 1 .. i - 1 /\ u[j] = s[j]
      BY <1>1, <2>2
    <3> QED
      BY ONLY <2>2, <3>3, <3>4, <3>5
  <2> QED
    BY <1>5, <2>1, <2>2
<1> HIDE DEF C
<1>12. Schedules(u, next, C)
  BY <1>6, <1>8, <1>9, <1>10, <1>11 DEF Schedules
<1> QED
  BY <1>12 DEF u, C


LEMMA EntryIs ==
  ASSUME NEW d \in Depths, NEW off \in 1 .. 2 ^ d, NEW shown \in BOOLEAN, NEW sef \in BOOLEAN
  PROVE  /\ Entry(off, d, shown, sef) \in EntryType(d)
         /\ Entry(off, d, shown, sef).offset = off
         /\ Entry(off, d, shown, sef).shown = shown
         /\ Entry(off, d, shown, sef).sef = sef
<1>1. off \in Int
  BY InputLenFacts
<1>2. PosToLvl(off, d) \in 0 .. d
  BY <1>1, LevelFacts
<1> QED
  BY <1>2 DEF Entry, EntryType

\* The frames that are shown behind frame p: as far as there is none missing.
LEMMA CaughtUpFacts ==
  ASSUME NEW d \in Depths, NEW p \in 1 .. 2 ^ d, NEW coded, coded \subseteq 1 .. 2 ^ d
  PROVE  LET c == Cardinality(CaughtUp(d, p + 1, coded))
         IN /\ c \in Nat /\ p + c <= 2 ^ d
            /\ p + 1 .. p + c \subseteq coded
            /\ p + c + 1 \notin coded
<1> DEFINE n == 2 ^ d
           C == CaughtUp(d, p + 1, coded)
<1>7. C = {j \in p + 1 .. n : p + 1 .. j \subseteq coded}
  BY DEF CaughtUp
<1>8. n \in Nat \ {0} /\ p \in 1 .. n /\ coded \subseteq 1 .. n
  BY InputLenFacts
<1> HIDE DEF n, C
<1> DEFINE B == {x \in p + 1 .. n + 1 : x \notin coded}
           m == Min(B)
<1>1. n + 1 \in B
  BY <1>8
<1>2. m \in B /\ \A x \in B : m <= x
  <2>1. B \subseteq Nat /\ B # {}
    BY <1>1, <1>8
  <2> HIDE DEF B
  <2> QED
    BY <2>1, MinFacts
<1> HIDE DEF m
<1>3. m \in p + 1 .. n + 1 /\ m \notin coded /\ \A x \in p + 1 .. n + 1 : x < m => x \in coded
  BY <1>2, <1>8
<1>4. C = p + 1 .. m - 1
  <2>1. ASSUME NEW j \in C
        PROVE  j \in p + 1 .. m - 1
    <3>1. j \in p + 1 .. n /\ p + 1 .. j \subseteq coded
      BY <1>7
    <3>2. m \notin p + 1 .. j
      BY <1>3, <1>8, <3>1
    <3> QED
      BY <1>3, <1>8, <3>1, <3>2
  <2>2. ASSUME NEW j \in p + 1 .. m - 1
        PROVE  j \in C
    <3>1. j \in p + 1 .. n
      BY <1>3, <1>8
    <3>2. p + 1 .. j \subseteq coded
      BY <1>3, <1>8, <3>1
    <3> QED
      BY <1>7, <3>1, <3>2
  <2> QED
    BY <2>1, <2>2
<1>5. Cardinality(C) = m - 1 - p
  <2>1. Cardinality(p + 1 .. m - 1) =
          IF p + 1 > m - 1 THEN 0 ELSE (m - 1) - (p + 1) + 1
    BY <1>3, <1>8, FS_Interval
  <2>2. Cardinality(C) = Cardinality(p + 1 .. m - 1)
    BY ONLY <1>4
  <2>3. m \in Int /\ p \in Int /\ p + 1 <= m
    BY <1>3, <1>8
  <2> HIDE DEF B
  <2> QED
    BY ONLY <2>1, <2>2, <2>3
<1> HIDE DEF B
<1>6. p + Cardinality(C) = m - 1 /\ p + Cardinality(C) + 1 = m /\ Cardinality(C) \in Nat
  BY <1>3, <1>5, <1>8
<1> QED
  BY <1>3, <1>6, <1>8 DEF n, C

LEMMA EmitKeeps ==
  ASSUME NEW d \in Depths, NEW e, NEW coded, EmitOK(d, e, coded), coded \subseteq 1 .. 2 ^ d,
         NEW off \in 1 .. 2 ^ d, off \notin coded
  PROVE  EmitOK(d, Emit(d, e, off, coded \cup {off}), coded \cup {off})
<1> DEFINE n == 2 ^ d
           D == coded \cup {off}
           r == Emit(d, e, off, D)
<1>1. n \in Nat \ {0}
  BY InputLenFacts
<1>2. /\ e \in [sched : Seq(EntryType(d)), disp : 1 .. n + 1]
      /\ 1 .. e.disp - 1 \subseteq coded /\ e.disp \notin coded
      /\ Schedules(e.sched, e.disp, coded)
  BY DEF EmitOK, Emissions
<1>3. /\ e.sched \in Seq(EntryType(d)) /\ e.disp \in 1 .. n + 1
      /\ e = [sched |-> e.sched, disp |-> e.disp]
  BY <1>2
<1>4. e.disp <= off
  <2>1. ~(off \in 1 .. e.disp - 1)
    BY <1>2
  <2> HIDE DEF n
  <2> QED
    BY <1>1, <1>3, <2>1 DEF n
<1>5. CASE off # e.disp
  <2> DEFINE x == Entry(off, d, FALSE, FALSE)
             t == <<x>>
  <2>1. x \in EntryType(d) /\ x.offset = off /\ x.shown = FALSE /\ x.sef = FALSE
    BY EntryIs
  <2>2. r = [sched |-> e.sched \o t, disp |-> e.disp]
    <3>1. r = [e EXCEPT !.sched = Append(@, x)]
      BY <1>5 DEF Emit
    <3>2. Append(e.sched, x) = e.sched \o t
      <4> HIDE DEF x
      <4> QED
        BY <1>3, <2>1
    <3> HIDE DEF r, x
    <3> QED
      BY <1>3, <3>1, <3>2
  <2> HIDE DEF x
  <2>3. t \in Seq(EntryType(d))
    BY <2>1
  <2>4. Follows(t, off, e.disp, e.disp, coded)
    <3>1. Len(t) = 1 /\ t[1] = x
      OBVIOUS
    <3>2. e.disp .. e.disp - 1 = {}
      BY <1>3
    <3> HIDE DEF t
    <3>3. \A i \in 1 .. Len(t) : i = 1
      BY <3>1
    <3> QED
      BY <1>4, <2>1, <3>1, <3>2, <3>3 DEF Follows
  <2> HIDE DEF t
  <2>5. Schedules(e.sched \o t, e.disp, D)
    BY <1>2, <1>3, <2>3, <2>4, FollowsKeeps
  <2>6. e.sched \o t \in Seq(EntryType(d))
    BY <1>3, <2>3
  <2>7. 1 .. e.disp - 1 \subseteq D /\ e.disp \notin D
    BY <1>2, <1>5
  <2> HIDE DEF r, D
  <2>8. EmitOK(d, r, D)
    BY <1>3, <2>2, <2>5, <2>6, <2>7 DEF EmitOK, Emissions
  <2> QED
    BY <2>8 DEF r, D
<1>6. CASE off = e.disp
  <2> DEFINE C == CaughtUp(d, off + 1, D)
             c == Cardinality(C)
             x == Entry(off, d, TRUE, FALSE)
             sefs == [i \in 1 .. c |-> Entry(off + i, d, TRUE, TRUE)]
             t == <<x>> \o sefs
  <2>1. c \in Nat /\ off + c <= n /\ off + 1 .. off + c \subseteq D /\ off + c + 1 \notin D
    <3>1. D \subseteq 1 .. n
      OBVIOUS
    <3> HIDE DEF D
    <3> QED
      BY <3>1, CaughtUpFacts
  <2>2. x \in EntryType(d) /\ x.offset = off /\ x.shown = TRUE /\ x.sef = FALSE
    BY EntryIs
  <2> HIDE DEF c, C
  <2>3. ASSUME NEW i \in 1 .. c
        PROVE  LET y == Entry(off + i, d, TRUE, TRUE)
               IN y \in EntryType(d) /\ y.offset = off + i /\ y.shown = TRUE /\ y.sef = TRUE
    <3>1. off + i \in 1 .. 2 ^ d
      BY <1>1, <2>1
    <3> QED
      BY <3>1, EntryIs
  <2>4. sefs \in Seq(EntryType(d)) /\ Len(sefs) = c
    <3>1. sefs \in [1 .. c -> EntryType(d)]
      BY <2>3
    <3> HIDE DEF sefs
    <3> QED
      BY <2>1, <3>1
  <2>5. \A i \in 1 .. c : sefs[i] = Entry(off + i, d, TRUE, TRUE)
    OBVIOUS
  <2>6. r = [sched |-> Append(e.sched, x) \o sefs, disp |-> off + 1 + Len(sefs)]
    BY <1>6 DEF Emit, C, c
  <2> HIDE DEF x, sefs
  <2>7. t \in Seq(EntryType(d)) /\ Len(t) = 1 + c /\ t[1] = x
        /\ \A i \in 1 .. c : t[i + 1] = sefs[i]
    <3>1. <<x>> \in Seq(EntryType(d)) /\ Len(<<x>>) = 1 /\ <<x>>[1] = x /\ 1 \in 1 .. 1
      BY <2>2
    <3> QED
      BY <2>4, <3>1, ConcatFacts
  <2>8. Append(e.sched, x) \o sefs = e.sched \o t
    BY <1>3, <2>2, <2>4
  <2> HIDE DEF t
  <2> DEFINE next == off + 1 + c
  <2>9. next \in 1 .. n + 1 /\ e.disp <= next
    BY <1>1, <1>3, <1>6, <2>1
  <2>10. ASSUME NEW i \in 1 .. Len(t)
         PROVE  /\ t[i].offset = off + i - 1 /\ t[i].shown
                /\ i = 1 => ~t[i].sef
                /\ i > 1 => t[i].sef /\ t[i].offset \in coded
    <3>1. CASE i = 1
      BY <2>2, <2>7, <3>1
    <3>2. CASE i > 1
      <4>1. i - 1 \in 1 .. c /\ (i - 1) + 1 = i
        BY <2>1, <2>7, <3>2
      <4>2. t[i] = Entry(off + (i - 1), d, TRUE, TRUE)
        BY <2>5, <2>7, <4>1
      <4>3. t[i].offset = off + (i - 1) /\ t[i].shown = TRUE /\ t[i].sef = TRUE
        BY <2>3, <4>1, <4>2
      <4>4. off + (i - 1) \in D /\ off + (i - 1) # off
        BY <1>1, <2>1, <4>1
      <4> QED
        BY <1>1, <3>2, <4>3, <4>4
    <3> QED
      BY <3>1, <3>2
  <2>11. Follows(t, off, e.disp, next, coded)
    <3>1. off \in Int /\ Len(t) = 1 + c
      BY <1>1, <2>7
    <3>2. 1 \in 1 .. Len(t)
      BY <2>1, <3>1
    <3>3. Len(t) > 0 /\ ~t[1].sef /\ t[1].offset = off
      BY <2>1, <2>10, <3>1, <3>2
    <3>4. \A i \in 1 .. Len(t) : /\ e.disp <= t[i].offset
                                 /\ t[i].shown => t[i].offset < next
                                 /\ i > 1 => t[i].sef /\ t[i].shown /\ t[i].offset \in coded
      BY <1>6, <2>1, <2>10, <3>1
    <3>5. \A i, j \in 1 .. Len(t) : i < j /\ t[i].shown => t[i].offset < t[j].offset
      <4> TAKE i, j \in 1 .. Len(t)
      <4>1. t[i].offset = off + i - 1 /\ t[j].offset = off + j - 1
        BY <2>10
      <4> QED
        BY <3>1, <4>1
    <3>6. \A y \in e.disp .. next - 1 : \E i \in 1 .. Len(t) : t[i].shown /\ t[i].offset = y
      <4> TAKE y \in e.disp .. next - 1
      <4>1. y - off + 1 \in 1 .. Len(t) /\ off + (y - off + 1) - 1 = y
        BY <1>6, <2>1, <3>1
      <4> QED
        BY <2>10, <4>1
    <3> HIDE DEF next
    <3> QED
      BY <3>3, <3>4, <3>5, <3>6 DEF Follows
  <2> HIDE DEF next
  <2>12. Schedules(e.sched \o t, next, D)
    BY <1>2, <1>3, <2>7, <2>9, <2>11, FollowsKeeps
  <2>13. 1 .. next - 1 \subseteq D /\ next \notin D
    <3>1. next = off + c + 1 /\ off \in Int
      BY <1>1, <2>1 DEF next
    <3>2. \A y \in 1 .. next - 1 : y \in 1 .. e.disp - 1 \/ y = off \/ y \in off + 1 .. off + c
      BY <1>6, <2>1, <3>1
    <3> QED
      BY <1>2, <2>1, <3>1, <3>2
  <2>14. r = [sched |-> e.sched \o t, disp |-> next]
    BY <2>4, <2>6, <2>8 DEF next
  <2>15. e.sched \o t \in Seq(EntryType(d))
    BY <1>3, <2>7
  <2> HIDE DEF r, D
  <2>16. EmitOK(d, r, D)
    BY <2>9, <2>12, <2>13, <2>14, <2>15 DEF EmitOK, Emissions
  <2> QED
    BY <2>16 DEF r, D
<1> QED
  BY <1>5, <1>6


\* The frames that are coded first.
FirstOf(order, k) == {order[i] : i \in 1 .. k}

LEMMA FirstOfFacts ==
  ASSUME NEW n \in Nat, NEW order, Listing(order, 1, n)
  PROVE  /\ FirstOf(order, 0) = {}
         /\ Len(order) \in Nat /\ FirstOf(order, Len(order)) = 1 .. n
         /\ \A k \in 1 .. Len(order) :
              /\ FirstOf(order, k) = FirstOf(order, k - 1) \cup {order[k]}
              /\ order[k] \in 1 .. n /\ order[k] \notin FirstOf(order, k - 1)
              /\ FirstOf(order, k - 1) \subseteq 1 .. n
<1> DEFINE l == Len(order)
<1>1. /\ order \in Seq(1 .. n)
      /\ \A i, j \in 1 .. l : order[i] = order[j] => i = j
      /\ \A x \in 1 .. n : \E i \in 1 .. l : order[i] = x
  BY DEF Listing
<1>2. l \in Nat /\ \A i \in 1 .. l : order[i] \in 1 .. n
  <2>1. order \in Seq(1 .. n)
    BY <1>1
  <2>2. l \in Nat
    BY ONLY <2>1
  <2>3. ASSUME NEW i \in 1 .. l
        PROVE  order[i] \in 1 .. n
    BY ONLY <2>1, i \in 1 .. l
  <2> QED
    BY <2>2, <2>3
<1> HIDE DEF l
<1>3. FirstOf(order, 0) = {}
  BY DEF FirstOf
<1>4. FirstOf(order, l) = 1 .. n
  BY <1>1, <1>2 DEF FirstOf
<1>5. ASSUME NEW k \in 1 .. l
      PROVE  /\ FirstOf(order, k) = FirstOf(order, k - 1) \cup {order[k]}
             /\ order[k] \in 1 .. n /\ order[k] \notin FirstOf(order, k - 1)
             /\ FirstOf(order, k - 1) \subseteq 1 .. n
  <2>1. \A i \in 1 .. k : i \in 1 .. k - 1 \/ i = k
    BY <1>2
  <2>2. \A i \in 1 .. k - 1 : i \in 1 .. k /\ i \in 1 .. l /\ i # k
    BY <1>2
  <2>3. k \in 1 .. k
    BY <1>2
  <2>4. FirstOf(order, k) = FirstOf(order, k - 1) \cup {order[k]}
    BY <2>1, <2>2, <2>3 DEF FirstOf
  <2>5. order[k] \notin FirstOf(order, k - 1)
    BY <1>1, <2>2 DEF FirstOf
  <2>6. FirstOf(order, k - 1) \subseteq 1 .. n
    BY <1>2, <2>2 DEF FirstOf
  <2> QED
    BY <1>2, <2>4, <2>5, <2>6
<1> QED
  BY <1>2, <1>3, <1>4, <1>5 DEF l

EmitInit == [sched |-> <<>>, disp |-> 1]

LEMMA EmittedOK ==
  ASSUME NEW d \in Depths, NEW order, Listing(order, 1, 2 ^ d), NEW f, f[0] = EmitInit,
         \A k \in 1 .. Len(order) :
           EmitOK(d, f[k - 1], FirstOf(order, k - 1)) =>
             f[k] = Emit(d, f[k - 1], order[k], FirstOf(order, k))
  PROVE  \A k \in 0 .. Len(order) : EmitOK(d, f[k], FirstOf(order, k))
<1> DEFINE l == Len(order)
           Good(k) == EmitOK(d, f[k], FirstOf(order, k))
<1>1. 2 ^ d \in Nat \ {0}
  BY InputLenFacts
<1>2. /\ FirstOf(order, 0) = {} /\ l \in Nat
      /\ \A k \in 1 .. l :
           /\ FirstOf(order, k) = FirstOf(order, k - 1) \cup {order[k]}
           /\ order[k] \in 1 .. 2 ^ d /\ order[k] \notin FirstOf(order, k - 1)
           /\ FirstOf(order, k - 1) \subseteq 1 .. 2 ^ d
  <2> DEFINE n == 2 ^ d
  <2> HIDE DEF n
  <2>1. n \in Nat /\ Listing(order, 1, n)
    BY <1>1 DEF n
  <2> QED
    BY <2>1, FirstOfFacts DEF n
<1>3. Good(0)
  <2>1. /\ EmitInit.sched = <<>> /\ EmitInit.disp = 1
        /\ EmitInit \in [sched : Seq(EntryType(d)), disp : 1 .. 2 ^ d + 1]
    BY <1>1 DEF EmitInit
  <2>2. Schedules(<<>>, 1, {})
    BY DEF Schedules
  <2> DEFINE e == EmitInit
  <2>3. e \in Emissions(d)
    BY <2>1 DEF Emissions
  <2>4. 1 .. e.disp - 1 \subseteq {} /\ e.disp \notin {} /\ Schedules(e.sched, e.disp, {})
    <3>1. 1 .. 1 - 1 = {}
      OBVIOUS
    <3> QED
      BY <2>1, <2>2, <3>1
  <2> HIDE DEF e
  <2>5. EmitOK(d, e, {})
    BY <2>3, <2>4 DEF EmitOK
  <2> QED
    BY <1>2, <2>5 DEF e
<1>4. ASSUME NEW k \in 1 .. l, Good(k - 1)
      PROVE  Good(k)
  <2>1. f[k] = Emit(d, f[k - 1], order[k], FirstOf(order, k))
    BY <1>4
  <2> DEFINE off == order[k]
             coded == FirstOf(order, k - 1)
             e == f[k - 1]
  <2>2. /\ EmitOK(d, e, coded) /\ coded \subseteq 1 .. 2 ^ d
        /\ off \in 1 .. 2 ^ d /\ off \notin coded
        /\ FirstOf(order, k) = coded \cup {off}
    BY <1>2, <1>4
  <2>3. EmitOK(d, Emit(d, e, off, coded \cup {off}), coded \cup {off})
    <3> HIDE DEF off, coded, e
    <3> QED
      BY <2>2, EmitKeeps
  <2> QED
    BY <2>1, <2>2, <2>3
<1> HIDE DEF Good, l
<1>5. \A k \in 0 .. l : Good(k)
  <2> DEFINE B == {k \in 0 .. l : ~Good(k)}
  <2>1. SUFFICES ASSUME B # {}
                 PROVE  FALSE
    OBVIOUS
  <2> DEFINE x == Min(B)
  <2>2. x \in B /\ \A y \in B : x <= y
    <3>1. B \subseteq Nat
      BY <1>2
    <3> HIDE DEF B
    <3> QED
      BY <2>1, <3>1, MinFacts
  <2> HIDE DEF x
  <2>3. x # 0
    BY <1>3, <2>2
  <2>4. x \in 1 .. l /\ x - 1 \in 0 .. l /\ x - 1 \notin B
    BY <1>2, <2>2, <2>3
  <2> QED
    BY <1>4, <2>2, <2>4
<1> QED
  BY <1>5 DEF Good, l

LEMMA EmittedExists ==
  ASSUME NEW d \in Depths, NEW order, Listing(order, 1, 2 ^ d)
  PROVE  \E f : f = [k \in 0 .. Len(order) |->
                       IF k = 0 THEN EmitInit
                       ELSE Emit(d, f[k - 1], order[k], FirstOf(order, k))]
<1> DEFINE l == Len(order)
           S == Emissions(d)
           NextOf(k, e) == IF k < l /\ EmitOK(d, e, FirstOf(order, k))
                         THEN Emit(d, e, order[k + 1], FirstOf(order, k + 1)) ELSE e
           step == [k \in Nat |-> [e \in S |-> NextOf(k, e)]]
<1>1. 2 ^ d \in Nat \ {0}
  BY InputLenFacts
<1>2. /\ l \in Nat
      /\ \A k \in 1 .. l :
           /\ FirstOf(order, k) = FirstOf(order, k - 1) \cup {order[k]}
           /\ order[k] \in 1 .. 2 ^ d /\ order[k] \notin FirstOf(order, k - 1)
           /\ FirstOf(order, k - 1) \subseteq 1 .. 2 ^ d
  <2> DEFINE n == 2 ^ d
  <2> HIDE DEF n
  <2>1. n \in Nat /\ Listing(order, 1, n)
    BY <1>1 DEF n
  <2> QED
    BY <2>1, FirstOfFacts DEF n
<1> HIDE DEF l
<1>3. EmitInit \in S
  BY <1>1 DEF EmitInit, Emissions
<1>4. ASSUME NEW k \in Nat, NEW e \in S
      PROVE  NextOf(k, e) \in S
  <2>1. CASE k < l /\ EmitOK(d, e, FirstOf(order, k))
    <3> DEFINE off == order[k + 1]
               coded == FirstOf(order, k)
    <3>1. k + 1 \in 1 .. l /\ (k + 1) - 1 = k
      BY <1>2, <2>1
    <3>2. /\ EmitOK(d, e, coded) /\ coded \subseteq 1 .. 2 ^ d
          /\ off \in 1 .. 2 ^ d /\ off \notin coded
          /\ FirstOf(order, k + 1) = coded \cup {off}
      BY <1>2, <2>1, <3>1
    <3>3. EmitOK(d, Emit(d, e, off, coded \cup {off}), coded \cup {off})
      <4> HIDE DEF off, coded
      <4> QED
        BY <3>2, EmitKeeps
    <3>4. NextOf(k, e) = Emit(d, e, off, coded \cup {off})
      BY <2>1, <3>2
    <3> HIDE DEF off, coded, NextOf, S
    <3> QED
      BY <3>3, <3>4 DEF EmitOK, S
  <2>2. CASE ~(k < l /\ EmitOK(d, e, FirstOf(order, k)))
    BY <2>2
  <2> QED
    BY <2>1, <2>2
<1> HIDE DEF NextOf
<1>5. Stepping(S, EmitInit, step)
  BY <1>3, <1>4 DEF Stepping
<1>6. PICK G : Forever(G, S, EmitInit, step)
  <2> HIDE DEF S, step
  <2> QED
    BY <1>5, Recursion
<1>7. /\ G \in [Nat -> S] /\ G[0] = EmitInit
      /\ \A k \in Nat : G[k + 1] = step[k][G[k]]
  BY <1>6 DEF Forever
<1>8. \A k \in Nat : G[k + 1] = NextOf(k, G[k])
  <2> HIDE DEF S
  <2> QED
    BY <1>7
<1>9. ASSUME NEW k \in 1 .. l, EmitOK(d, G[k - 1], FirstOf(order, k - 1))
      PROVE  G[k] = Emit(d, G[k - 1], order[k], FirstOf(order, k))
  <2> DEFINE j == k - 1
  <2>1. j \in Nat /\ j < l /\ j + 1 = k
    BY <1>2
  <2>2. EmitOK(d, G[j], FirstOf(order, j))
    BY <1>9
  <2> HIDE DEF j
  <2>3. G[j + 1] = Emit(d, G[j], order[j + 1], FirstOf(order, j + 1))
    BY <1>8, <2>1, <2>2 DEF NextOf
  <2> QED
    BY <2>1, <2>3 DEF j
<1>10. \A k \in 0 .. l : EmitOK(d, G[k], FirstOf(order, k))
  BY <1>7, <1>9, EmittedOK DEF l
<1> DEFINE h == [k \in 0 .. l |-> G[k]]
<1>11. ASSUME NEW k \in 0 .. l
       PROVE  h[k] = IF k = 0 THEN EmitInit
                     ELSE Emit(d, h[k - 1], order[k], FirstOf(order, k))
  <2>1. CASE k = 0
    BY <1>7, <2>1
  <2>2. CASE k # 0
    <3>1. k \in 1 .. l /\ k - 1 \in 0 .. l
      BY <1>2, <2>2
    <3>2. G[k] = Emit(d, G[k - 1], order[k], FirstOf(order, k))
      BY <1>9, <1>10, <3>1
    <3>3. h[k] = G[k] /\ h[k - 1] = G[k - 1]
      BY <3>1
    <3> QED
      BY <2>2, <3>2, <3>3
  <2> QED
    BY <2>1, <2>2
<1>12. h = [k \in 0 .. l |-> IF k = 0 THEN EmitInit
                             ELSE Emit(d, h[k - 1], order[k], FirstOf(order, k))]
  BY <1>11
<1> QED
  BY <1>12 DEF l

\* What build_schedule makes.
ScheduleOK(d) ==
  /\ Sched[d] \in Seq(EntryType(d)) /\ Len(Sched[d]) > 0
  /\ Schedules(Sched[d], 2 ^ d + 1, 1 .. 2 ^ d)

\* build_schedule: "schedule must display every input frame".  Each frame of a
\* group is coded once and shown once, in order, and no frame that is coded
\* behind one that is shown is before it, for each depth of the pyramid.
THEOREM ScheduleShowsAll == \A d \in Depths : ScheduleOK(d)
<1> TAKE d \in Depths
<1> DEFINE order == CodingOrder(d)
           l == Len(order)
           F == CHOOSE f : f = [k \in 0 .. l |-> IF k = 0 THEN EmitInit
                                  ELSE Emit(d, f[k - 1], order[k], FirstOf(order, k))]
           n == 2 ^ d
<1>1. n \in Nat \ {0} /\ Listing(order, 1, n)
  BY InputLenFacts, CodingOrderFacts
<1>2. Sched[d] = F[l].sched
  <2>1. Sched[d] = BuildSchedule(d)
    BY DEF Sched
  <2>2. BuildSchedule(d) = F[l].sched
    BY DEF BuildSchedule, EmitInit, FirstOf
  <2> QED
    BY <2>1, <2>2
<1>3. F = [k \in 0 .. l |-> IF k = 0 THEN EmitInit
                            ELSE Emit(d, F[k - 1], order[k], FirstOf(order, k))]
  <2>1. \E f : f = [k \in 0 .. l |-> IF k = 0 THEN EmitInit
                      ELSE Emit(d, f[k - 1], order[k], FirstOf(order, k))]
    <3> HIDE DEF order
    <3> QED
      BY <1>1, EmittedExists
  <2> QED
    BY <2>1
<1> HIDE DEF F, order, n
<1>4. /\ l \in Nat /\ FirstOf(order, l) = 1 .. n
      /\ order \in Seq(1 .. n) /\ \E i \in 1 .. l : order[i] = n
  <2>1. n \in 1 .. n
    BY <1>1
  <2> QED
    BY <1>1, <2>1, FirstOfFacts DEF Listing
<1> HIDE DEF l
<1>5. /\ F[0] = EmitInit
      /\ \A k \in 1 .. l : F[k] = Emit(d, F[k - 1], order[k], FirstOf(order, k))
  BY <1>3, <1>4
<1>6. \A k \in 0 .. l : EmitOK(d, F[k], FirstOf(order, k))
  BY <1>1, <1>5, EmittedOK DEF l, n
<1>7. EmitOK(d, F[l], 1 .. n)
  BY <1>4, <1>6
<1> DEFINE e == F[l]
<1>8. /\ e.sched \in Seq(EntryType(d)) /\ e.disp \in 1 .. n + 1 /\ e.disp \notin 1 .. n
      /\ Schedules(e.sched, e.disp, 1 .. n)
  BY <1>7 DEF EmitOK, Emissions, n
<1> HIDE DEF e
<1>9. e.disp = n + 1
  BY <1>1, <1>8
<1>10. Len(e.sched) > 0
  <2>1. n \in 1 .. n
    BY <1>1
  <2>2. \E i \in 1 .. Len(e.sched) : ~e.sched[i].sef /\ e.sched[i].offset = n
    BY <1>8, <2>1 DEF Schedules
  <2> QED
    BY <1>8, <2>2
<1> QED
  BY <1>2, <1>8, <1>9, <1>10 DEF ScheduleOK, e, n

----------------------------------------------------------------------------
(* Levels *)

LEMMA PowerFacts == 2 ^ 0 = 1 /\ 2 ^ 1 = 2 /\ 2 ^ 2 = 4 /\ 2 ^ 3 = 8 /\ 2 ^ 4 = 16
  OBVIOUS

\* A power of two divides what a greater one divides.
LEMMA PowerDivides ==
  ASSUME NEW x \in Int, NEW t \in 0 .. 4, NEW u \in 0 .. t, x % 2 ^ t = 0
  PROVE  x % 2 ^ u = 0
<1>1. /\ x % 16 = 0 => x % 8 = 0
      /\ x % 8 = 0 => x % 4 = 0
      /\ x % 4 = 0 => x % 2 = 0
      /\ x % 1 = 0
  OBVIOUS
<1> DEFINE D(k) == x % 2 ^ k = 0
<1>2. /\ D(4) => D(3)
      /\ D(3) => D(2)
      /\ D(2) => D(1)
      /\ D(0)
  BY <1>1, PowerFacts
<1>3. D(t)
  OBVIOUS
<1> HIDE DEF D
<1>4. t \in {0, 1, 2, 3, 4} /\ u \in {0, 1, 2, 3, 4} /\ u <= t
  OBVIOUS
<1>5. D(u)
  BY <1>2, <1>3, <1>4
<1> QED
  BY <1>5 DEF D

\* What the level says of a frame.
LEMMA LevelIs ==
  ASSUME NEW d \in Depths, NEW pos \in Int, NEW l \in 0 .. d
  PROVE  PosToLvl(pos, d) <= l <=> pos % 2 ^ (d - l) = 0
<1> DEFINE S == {k \in 0 .. d : pos % 2 ^ (d - k) = 0}
           m == PosToLvl(pos, d)
<1>1. d \in 0 .. 4
  BY DEF Depths
<1>2. m \in S /\ \A k \in S : m <= k
  <2>1. S \subseteq Nat
    BY <1>1
  <2>2. d \in S
    <3>1. d - d = 0 /\ d \in 0 .. d /\ pos % 1 = 0
      BY <1>1
    <3> QED
      BY <3>1, PowerFacts
  <2>3. m = Min(S)
    BY DEF PosToLvl
  <2> HIDE DEF S, m
  <2> QED
    BY <2>1, <2>2, <2>3, MinFacts
<1>3. m \in 0 .. d /\ pos % 2 ^ (d - m) = 0
  BY <1>2
<1>4. pos % 2 ^ (d - l) = 0 => m <= l
  BY <1>2
<1> HIDE DEF m
<1>5. ASSUME m <= l
      PROVE  pos % 2 ^ (d - l) = 0
  <2>1. d - m \in 0 .. 4 /\ d - l \in 0 .. d - m
    BY <1>1, <1>3, <1>5
  <2> QED
    BY <1>3, <2>1, PowerDivides
<1> QED
  BY <1>4, <1>5 DEF m

\* The middle of a range of the pyramid is alone at its level.
LEMMA MidAlone ==
  ASSUME NEW d \in Depths, NEW e \in 1 .. d, NEW lo \in Nat, lo % 2 ^ e = 0,
         NEW pos \in lo + 1 .. lo + 2 ^ e - 1,
         PosToLvl(pos, d) = PosToLvl(lo + 2 ^ (e - 1), d)
  PROVE  pos = lo + 2 ^ (e - 1)
<1> DEFINE mid == lo + 2 ^ (e - 1)
           D(x, k) == x % 2 ^ k = 0
<1>1. d \in 0 .. 4 /\ e \in {1, 2, 3, 4} /\ e <= d
  BY DEF Depths
<1>2. /\ mid \in Int /\ pos \in Int /\ D(mid, e - 1) /\ ~D(mid, e)
      /\ D(pos, e - 1) => pos = mid
  <2>1. CASE e = 1
    <3>1. e - 1 = 0 /\ 2 ^ e = 2 /\ 2 ^ (e - 1) = 1
      BY <2>1, PowerFacts
    <3>2. lo % 2 = 0 /\ pos \in lo + 1 .. lo + 2 - 1
      BY <3>1
    <3>3. (lo + 1) % 1 = 0 /\ (lo + 1) % 2 # 0 /\ pos = lo + 1
      BY <3>2
    <3> QED
      BY <3>1, <3>3
  <2>2. CASE e = 2
    <3>1. e - 1 = 1 /\ 2 ^ e = 4 /\ 2 ^ (e - 1) = 2
      BY <2>2, PowerFacts
    <3>2. lo % 4 = 0 /\ pos \in lo + 1 .. lo + 4 - 1
      BY <3>1
    <3>3. (lo + 2) % 2 = 0 /\ (lo + 2) % 4 # 0 /\ (pos % 2 = 0 => pos = lo + 2)
      BY <3>2
    <3> QED
      BY <3>1, <3>3
  <2>3. CASE e = 3
    <3>1. e - 1 = 2 /\ 2 ^ e = 8 /\ 2 ^ (e - 1) = 4
      BY <2>3, PowerFacts
    <3>2. lo % 8 = 0 /\ pos \in lo + 1 .. lo + 8 - 1
      BY <3>1
    <3>3. (lo + 4) % 4 = 0 /\ (lo + 4) % 8 # 0 /\ (pos % 4 = 0 => pos = lo + 4)
      BY <3>2
    <3> QED
      BY <3>1, <3>3
  <2>4. CASE e = 4
    <3>1. e - 1 = 3 /\ 2 ^ e = 16 /\ 2 ^ (e - 1) = 8
      BY <2>4, PowerFacts
    <3>2. lo % 16 = 0 /\ pos \in lo + 1 .. lo + 16 - 1
      BY <3>1
    <3>3. (lo + 8) % 8 = 0 /\ (lo + 8) % 16 # 0 /\ (pos % 8 = 0 => pos = lo + 8)
      BY <3>2
    <3> QED
      BY <3>1, <3>3
  <2> QED
    BY <1>1, <2>1, <2>2, <2>3, <2>4
<1> DEFINE l == d - (e - 1)
<1>3. l \in 0 .. d /\ d - l = e - 1 /\ l - 1 \in 0 .. d /\ d - (l - 1) = e
  BY <1>1
<1>4. PosToLvl(pos, d) = PosToLvl(mid, d)
  OBVIOUS
<1> HIDE DEF mid, l
<1>5. PosToLvl(mid, d) <= l
  BY <1>2, <1>3, LevelIs
<1>6. D(pos, e - 1)
  BY <1>2, <1>3, <1>4, <1>5, LevelIs
<1> QED
  BY <1>2, <1>6 DEF mid

\* When a frame is listed, those up to any before it at its level are.
Layered(s, a, d) ==
  \A i, j \in 1 .. Len(s) : i < j /\ PosToLvl(s[i], d) = PosToLvl(s[j], d) =>
    \A x \in a .. s[i] : \E k \in 1 .. j - 1 : s[k] = x

LEMMA LayeredSplit ==
  ASSUME NEW d, NEW a \in Int, NEW b \in Int, NEW m \in a .. b, NEW s, NEW t,
         Listing(s, a, m - 1), Listing(t, m + 1, b), Layered(s, a, d), Layered(t, m + 1, d),
         \A x \in a .. b : PosToLvl(x, d) = PosToLvl(m, d) => x = m
  PROVE  Layered(<<m>> \o s \o t, a, d)
<1> DEFINE u == <<m>> \o s \o t
           l == Len(s)
           r == Len(t)
<1>1. s \in Seq(a .. m - 1) /\ t \in Seq(m + 1 .. b)
  BY DEF Listing
<1>2. l \in Nat /\ r \in Nat
  BY <1>1
<1>3. /\ \A i \in 1 .. l : s[i] \in a .. m - 1
      /\ \A i \in 1 .. r : t[i] \in m + 1 .. b
  BY <1>1
<1>4. s \in Seq(a .. b) /\ t \in Seq(a .. b) /\ <<m>> \in Seq(a .. b)
  BY <1>1
<1>5. u \in Seq(a .. b) /\ Len(u) = 1 + l + r
  BY <1>4
<1>6. /\ u[1] = m
      /\ \A i \in 1 .. l : u[i + 1] = s[i]
      /\ \A i \in 1 .. r : u[i + 1 + l] = t[i]
  BY <1>4, <1>2
<1> HIDE DEF u, l, r
<1>7. ASSUME NEW i \in 1 .. Len(u)
      PROVE  \/ i = 1 /\ u[i] = m
             \/ i - 1 \in 1 .. l /\ u[i] = s[i - 1]
             \/ i - 1 - l \in 1 .. r /\ u[i] = t[i - 1 - l]
  <2>1. CASE i = 1
    BY <1>6, <2>1
  <2>2. CASE i - 1 \in 1 .. l
    <3>1. (i - 1) + 1 = i
      OBVIOUS
    <3> QED
      BY <1>6, <2>2, <3>1
  <2>3. CASE i - 1 - l \in 1 .. r
    <3>1. (i - 1 - l) + 1 + l = i
      BY <1>2
    <3> QED
      BY <1>6, <2>3, <3>1
  <2> QED
    BY <1>2, <1>5, <2>1, <2>2, <2>3
<1>8. ASSUME NEW i \in 1 .. Len(u), NEW j \in 1 .. Len(u), i < j,
             PosToLvl(u[i], d) = PosToLvl(u[j], d), NEW x \in a .. u[i]
      PROVE  \E k \in 1 .. j - 1 : u[k] = x
  <2>1. u[i] \in a .. b /\ u[j] \in a .. b
    BY <1>5
  <2>2. i # 1
    <3>1. ASSUME i = 1
          PROVE  FALSE
      <4>1. u[j] = m /\ u[i] = m
        BY <1>6, <1>8, <2>1, <3>1
      <4>2. j - 1 \in 1 .. l \/ j - 1 - l \in 1 .. r
        BY <1>7, <1>8, <3>1
      <4>3. u[j] \in a .. m - 1 \/ u[j] \in m + 1 .. b
        BY <1>3, <1>7, <1>8, <3>1
      <4> QED
        BY <4>1, <4>3
    <3> QED
      BY <3>1
  <2>3. CASE x = m
    <3>1. 1 \in 1 .. j - 1
      BY <1>8
    <3> QED
      BY <1>6, <2>3, <3>1
  <2>4. CASE i - 1 \in 1 .. l /\ u[i] = s[i - 1]
    <3>1. CASE j - 1 \in 1 .. l /\ u[j] = s[j - 1]
      <4>1. PICK k \in 1 .. (j - 1) - 1 : s[k] = x
        <5>1. i - 1 < j - 1 /\ x \in a .. s[i - 1] /\ PosToLvl(s[i - 1], d) = PosToLvl(s[j - 1], d)
          BY <1>8, <2>4, <3>1
        <5> QED
          BY <2>4, <3>1, <5>1 DEF Layered, l
      <4>2. k + 1 \in 1 .. j - 1 /\ k \in 1 .. l
        BY <1>2, <3>1
      <4> QED
        BY <1>6, <4>1, <4>2
    <3>2. CASE j - 1 - l \in 1 .. r
      <4>1. x \in a .. m - 1
        BY <1>3, <1>8, <2>4
      <4>2. PICK k \in 1 .. l : s[k] = x
        BY <4>1 DEF Listing, l
      <4>3. k + 1 \in 1 .. j - 1
        BY <1>2, <3>2
      <4> QED
        BY <1>6, <4>2, <4>3
    <3> QED
      BY <1>7, <1>8, <2>2, <3>1, <3>2
  <2>5. CASE i - 1 - l \in 1 .. r /\ u[i] = t[i - 1 - l]
    <3>1. j - 1 - l \in 1 .. r /\ u[j] = t[j - 1 - l]
      <4>1. j # 1 /\ ~(j - 1 \in 1 .. l)
        BY <1>2, <1>8, <2>5
      <4> QED
        BY <1>7, <4>1
    <3>2. CASE x \in a .. m - 1
      <4>1. PICK k \in 1 .. l : s[k] = x
        BY <3>2 DEF Listing, l
      <4>2. k + 1 \in 1 .. j - 1
        BY <1>2, <3>1
      <4> QED
        BY <1>6, <4>1, <4>2
    <3>3. CASE x \in m + 1 .. u[i]
      <4>1. PICK k \in 1 .. (j - 1 - l) - 1 : t[k] = x
        <5>1. /\ i - 1 - l < j - 1 - l /\ x \in m + 1 .. t[i - 1 - l]
              /\ PosToLvl(t[i - 1 - l], d) = PosToLvl(t[j - 1 - l], d)
          BY <1>2, <1>8, <2>5, <3>1, <3>3
        <5> QED
          BY <2>5, <3>1, <5>1 DEF Layered, r
      <4>2. k + 1 + l \in 1 .. j - 1 /\ k \in 1 .. r
        BY <1>2, <3>1
      <4> QED
        BY <1>6, <4>1, <4>2
    <3>4. x \in a .. m - 1 \/ x = m \/ x \in m + 1 .. u[i]
      <4>1. x \in Int /\ m \in Int /\ u[i] \in Int
        BY <1>8, <2>1
      <4> QED
        BY <1>8, <4>1
    <3> QED
      BY <2>3, <3>2, <3>3, <3>4
  <2> QED
    BY <1>7, <2>2, <2>4, <2>5
<1> QED
  BY <1>8 DEF Layered, u

LEMMA ListingOf ==
  ASSUME NEW n \in Nat, NEW f, f = [r \in (0 .. n) \X (0 .. n) |-> Halves(f, r[1], r[2])],
         NEW lo \in 0 .. n, NEW hi \in 0 .. n
  PROVE  /\ f[<<lo, hi>>] = Halves(f, lo, hi)
         /\ Listing(f[<<lo, hi>>], lo + 1, hi - 1)
<1>1. f[<<lo, hi>>] = Halves(f, lo, hi)
  <2> DEFINE r == <<lo, hi>>
  <2>1. r \in (0 .. n) \X (0 .. n) /\ r[1] = lo /\ r[2] = hi
    OBVIOUS
  <2>2. f[r] = Halves(f, r[1], r[2])
    <3> HIDE DEF r
    <3> QED
      BY <2>1
  <2> QED
    BY <2>1, <2>2
<1> QED
  BY <1>1, SubdivideFacts

LEMMA PowerSteps ==
  ASSUME NEW e \in 1 .. 4
  PROVE  2 ^ (e - 1) \in Nat \ {0} /\ 2 ^ e = 2 * 2 ^ (e - 1)
<1>1. e \in {1, 2, 3, 4}
  OBVIOUS
<1>2. CASE e = 1
  BY <1>2, PowerFacts
<1>3. CASE e = 2
  <2>1. e - 1 = 1
    BY <1>3
  <2> QED
    BY <1>3, <2>1, PowerFacts
<1>4. CASE e = 3
  <2>1. e - 1 = 2
    BY <1>4
  <2> QED
    BY <1>4, <2>1, PowerFacts
<1>5. CASE e = 4
  <2>1. e - 1 = 3
    BY <1>5
  <2> QED
    BY <1>5, <2>1, PowerFacts
<1> QED
  BY <1>1, <1>2, <1>3, <1>4, <1>5

\* subdivide, for the ranges of a pyramid.
LEMMA SubdivideLayered ==
  ASSUME NEW d \in Depths, NEW n, n = 2 ^ d,
         NEW f, f = [r \in (0 .. n) \X (0 .. n) |-> Halves(f, r[1], r[2])]
  PROVE  \A e \in 0 .. d : \A lo \in 0 .. n :
           lo % 2 ^ e = 0 /\ lo + 2 ^ e <= n => Layered(f[<<lo, lo + 2 ^ e>>], lo + 1, d)
<1> DEFINE Good(e) == \A lo \in 0 .. n :
             lo % 2 ^ e = 0 /\ lo + 2 ^ e <= n => Layered(f[<<lo, lo + 2 ^ e>>], lo + 1, d)
<1>1. d \in 0 .. 4 /\ n \in Nat \ {0}
  BY InputLenFacts DEF Depths
<1>2. Good(0)
  <2> SUFFICES ASSUME NEW lo \in 0 .. n, lo + 1 <= n
               PROVE  Layered(f[<<lo, lo + 1>>], lo + 1, d)
    BY PowerFacts
  <2>1. lo + 1 \in 0 .. n /\ (lo + 1) - lo <= 1
    OBVIOUS
  <2>2. f[<<lo, lo + 1>>] = <<>>
    BY <1>1, <2>1, ListingOf DEF Halves
  <2> QED
    BY <2>2 DEF Layered
<1>3. ASSUME NEW e \in 1 .. d, Good(e - 1)
      PROVE  Good(e)
  <2> SUFFICES ASSUME NEW lo \in 0 .. n, lo % 2 ^ e = 0, lo + 2 ^ e <= n
               PROVE  Layered(f[<<lo, lo + 2 ^ e>>], lo + 1, d)
    OBVIOUS
  <2> DEFINE h == 2 ^ (e - 1)
             mid == lo + h
             hi == lo + 2 ^ e
  <2>1. h \in Nat \ {0} /\ 2 ^ e = 2 * h /\ hi = lo + 2 * h
    <3>1. e \in 1 .. 4
      BY <1>1
    <3>2. 2 ^ (e - 1) \in Nat \ {0} /\ 2 ^ e = 2 * 2 ^ (e - 1)
      BY <3>1, PowerSteps
    <3> QED
      BY <3>2
  <2>2. \A x \in lo + 1 .. hi - 1 : PosToLvl(x, d) = PosToLvl(mid, d) => x = mid
    <3> TAKE x \in lo + 1 .. hi - 1
    <3>1. lo \in Nat
      BY <1>1
    <3> HIDE DEF h
    <3> QED
      BY <3>1, MidAlone DEF h
  <2>3. lo % 2 ^ (e - 1) = 0 /\ mid % 2 ^ (e - 1) = 0
    <3>1. e \in 0 .. 4 /\ e - 1 \in 0 .. e /\ lo \in Int
      BY <1>1
    <3>2. lo % 2 ^ (e - 1) = 0
      BY <3>1, PowerDivides
    <3>3. e - 1 \in {0, 1, 2, 3}
      BY <1>1
    <3>4. h \in {1, 2, 4, 8}
      BY <3>3, PowerFacts
    <3>5. lo % h = 0
      BY <3>2
    <3> HIDE DEF h
    <3>6. (lo + h) % h = 0
      BY <3>1, <3>4, <3>5
    <3> QED
      BY <3>2, <3>6 DEF h
  <2> HIDE DEF h
  <2>4. /\ mid \in 0 .. n /\ hi \in 0 .. n /\ lo < mid /\ mid < hi /\ ~(hi - lo <= 1)
        /\ hi = mid + h /\ (lo + hi) \div 2 = mid
    BY <1>1, <2>1
  <2>5. f[<<lo, hi>>] = <<mid>> \o f[<<lo, mid>>] \o f[<<mid, hi>>]
    <3> HIDE DEF mid, hi
    <3> QED
      BY <1>1, <2>4, ListingOf DEF Halves
  <2>6. Layered(f[<<lo, mid>>], lo + 1, d) /\ Layered(f[<<mid, hi>>], mid + 1, d)
    <3>1. \A x \in 0 .. n : x % h = 0 /\ x + h <= n => Layered(f[<<x, x + h>>], x + 1, d)
      BY <1>3 DEF h
    <3>2. lo % h = 0 /\ mid % h = 0
      BY <2>3 DEF h
    <3> HIDE DEF Good
    <3>3. Layered(f[<<lo, lo + h>>], lo + 1, d)
      BY <1>1, <2>4, <3>1, <3>2
    <3>4. Layered(f[<<mid, mid + h>>], mid + 1, d)
      <4> HIDE DEF mid
      <4> QED
        BY <1>1, <2>4, <3>1, <3>2
    <3>5. mid + h = hi
      BY <2>4
    <3> QED
      BY <3>3, <3>4, <3>5
  <2> HIDE DEF mid, hi
  <2>7. Listing(f[<<lo, mid>>], lo + 1, mid - 1) /\ Listing(f[<<mid, hi>>], mid + 1, hi - 1)
    BY <1>1, <2>4, ListingOf
  <2> DEFINE s == f[<<lo, mid>>]
             t == f[<<mid, hi>>]
             a == lo + 1
             b == hi - 1
  <2>8. /\ a \in Int /\ b \in Int /\ mid \in a .. b
        /\ Listing(s, a, mid - 1) /\ Listing(t, mid + 1, b)
        /\ Layered(s, a, d) /\ Layered(t, mid + 1, d)
        /\ \A x \in a .. b : PosToLvl(x, d) = PosToLvl(mid, d) => x = mid
    BY <1>1, <2>2, <2>4, <2>6, <2>7
  <2>9. Layered(<<mid>> \o s \o t, a, d)
    <3> HIDE DEF s, t, a, b
    <3> QED
      BY <2>8, LayeredSplit
  <2>10. Layered(f[<<lo, hi>>], lo + 1, d)
    BY <2>5, <2>9
  <2> QED
    BY <2>10 DEF hi
<1>4. \A e \in 0 .. d : Good(e)
  <2> DEFINE P(k) == k <= d => Good(k)
  <2>1. P(0)
    BY <1>2
  <2>2. /\ P(0) => P(1)
        /\ P(1) => P(2)
        /\ P(2) => P(3)
        /\ P(3) => P(4)
    <3> HIDE DEF Good
    <3>1. \A k \in {1, 2, 3, 4} : Good(k - 1) /\ k <= d => Good(k)
      BY <1>1, <1>3
    <3>2. 1 - 1 = 0 /\ 2 - 1 = 1 /\ 3 - 1 = 2 /\ 4 - 1 = 3
      OBVIOUS
    <3> QED
      BY <1>1, <3>1, <3>2
  <2> HIDE DEF Good
  <2> TAKE e \in 0 .. d
  <2>3. e \in {0, 1, 2, 3, 4} /\ e <= d
    BY <1>1
  <2> HIDE DEF P
  <2>4. P(e)
    BY <2>1, <2>2, <2>3
  <2> QED
    BY <2>3, <2>4 DEF P
<1> QED
  BY <1>4

\* The coding order, level by level.
LEMMA CodingOrderLayered ==
  ASSUME NEW d \in Depths
  PROVE  Layered(CodingOrder(d), 1, d)
<1> DEFINE n == 2 ^ d
           P == (0 .. n) \X (0 .. n)
           f == CHOOSE f : f = [r \in P |-> Halves(f, r[1], r[2])]
<1>1. n \in Nat \ {0} /\ d \in 0 .. 4 /\ n \in {1, 2, 4, 8, 16}
  <2>1. d \in {0, 1, 2, 3, 4}
    BY DEF Depths
  <2>2. /\ d = 0 => n = 1
        /\ d = 1 => n = 2
        /\ d = 2 => n = 4
        /\ d = 3 => n = 8
        /\ d = 4 => n = 16
    BY ONLY PowerFacts, Zenon
  <2> HIDE DEF n
  <2> QED
    BY <2>1, <2>2
<1>2. CodingOrder(d) = <<n>> \o f[<<0, n>>]
  BY DEF CodingOrder, Halves
<1>3. f = [r \in P |-> Halves(f, r[1], r[2])]
  <2>1. \E g : g = [r \in P |-> Halves(g, r[1], r[2])]
    <3> HIDE DEF n
    <3> QED
      BY <1>1, SubdivideExists
  <2> QED
    BY <2>1
<1> DEFINE x == f[<<0, n>>]
           y == <<>>
<1> HIDE DEF f
<1>4. Listing(x, 1, n - 1) /\ Layered(x, 1, d)
  <2>1. d \in 0 .. d /\ 0 \in 0 .. n /\ n \in 0 .. n
    BY <1>1
  <2>2. 0 % n = 0 /\ 0 + n <= n
    <3> HIDE DEF n
    <3> QED
      BY <1>1
  <2>3. \A e \in 0 .. d : \A lo \in 0 .. n :
          lo % 2 ^ e = 0 /\ lo + 2 ^ e <= n => Layered(f[<<lo, lo + 2 ^ e>>], lo + 1, d)
    <3>1. n = 2 ^ d
      OBVIOUS
    <3> HIDE DEF n
    <3> QED
      BY <1>3, <3>1, SubdivideLayered
  <2>4. Layered(f[<<0, 0 + n>>], 0 + 1, d)
    BY <2>1, <2>2, <2>3
  <2>5. 0 + n = n /\ 0 + 1 = 1
    BY <1>1
  <2>6. Layered(x, 1, d)
    BY <2>4, <2>5
  <2>7. Listing(f[<<0, n>>], 0 + 1, n - 1)
    <3> HIDE DEF n
    <3> QED
      BY <1>1, <1>3, <2>1, ListingOf
  <2> QED
    BY <2>6, <2>7
<1>5. \A p \in 1 .. n : PosToLvl(p, d) = PosToLvl(n, d) => p = n
  <2> TAKE p \in 1 .. n
  <2>1. 0 \in 0 .. d /\ d - 0 = d /\ n \in Int /\ p \in Int
    BY <1>1
  <2>2. PosToLvl(n, d) <= 0 <=> n % n = 0
    BY <2>1, LevelIs
  <2>3. PosToLvl(p, d) <= 0 <=> p % n = 0
    BY <2>1, LevelIs
  <2>4. p \in 1 .. n
    OBVIOUS
  <2> HIDE DEF n
  <2>5. n % n = 0 /\ (p % n = 0 => p = n)
    BY <1>1, <2>4
  <2> QED
    BY <2>2, <2>3, <2>5
<1> HIDE DEF x, n
<1>6. Listing(y, n + 1, n) /\ Layered(y, n + 1, d) /\ n \in 1 .. n /\ 1 \in Int /\ n \in Int
  BY <1>1, ListingEmpty DEF Layered
<1> HIDE DEF y
<1>7. Layered(<<n>> \o x \o y, 1, d)
  BY <1>4, <1>5, <1>6, LayeredSplit
<1>8. <<n>> \o x \o y = <<n>> \o x
  BY <1>1, <1>4 DEF Listing, y
<1> QED
  BY <1>2, <1>7, <1>8 DEF x

\* An entry is at the level of its frame; when a frame is coded, those coded
\* before at its level are shown.
Spaced(s, d) ==
  /\ \A i \in 1 .. Len(s) : s[i].level = PosToLvl(s[i].offset, d)
  /\ \A i, j \in 1 .. Len(s) : i < j /\ ~s[i].sef /\ ~s[j].sef /\ s[i].level = s[j].level =>
       \E k \in 1 .. j - 1 : s[k].shown /\ s[k].offset = s[i].offset

LEMMA AppendConcat ==
  ASSUME NEW T, NEW s \in Seq(T), NEW x \in T, NEW t \in Seq(T)
  PROVE  Append(s, x) \o t = s \o (<<x>> \o t)
  OBVIOUS

\* Schedule u is s and then an entry for frame off and only such that show again.
Extends(s, u, off, d) ==
  \E t \in Seq(EntryType(d)) :
    /\ u = s \o t
    /\ Len(t) > 0 /\ ~t[1].sef /\ t[1].offset = off
    /\ \A i \in 1 .. Len(t) : /\ t[i].level = PosToLvl(t[i].offset, d)
                              /\ i > 1 => t[i].sef

\* That is what frame off does.
LEMMA EmitIs ==
  ASSUME NEW d \in Depths, NEW e \in Emissions(d), NEW coded, coded \subseteq 1 .. 2 ^ d,
         NEW off \in coded
  PROVE  Extends(e.sched, Emit(d, e, off, coded).sched, off, d)
<1> DEFINE n == 2 ^ d
           r == Emit(d, e, off, coded)
           Made(t) == /\ t \in Seq(EntryType(d)) /\ r.sched = e.sched \o t
                      /\ Len(t) > 0 /\ ~t[1].sef /\ t[1].offset = off
                      /\ \A i \in 1 .. Len(t) : /\ t[i].level = PosToLvl(t[i].offset, d)
                                                /\ i > 1 => t[i].sef
<1>1. n \in Nat \ {0} /\ off \in 1 .. n
  BY InputLenFacts
<1>2. /\ e.sched \in Seq(EntryType(d)) /\ e.disp \in 1 .. n + 1
      /\ e = [sched |-> e.sched, disp |-> e.disp]
  BY DEF Emissions
<1>3. \A p \in 1 .. n : \A shown, sef \in BOOLEAN :
        Entry(p, d, shown, sef).level = PosToLvl(p, d)
  BY DEF Entry
<1>4. CASE off # e.disp
  <2> DEFINE x == Entry(off, d, FALSE, FALSE)
             t == <<x>>
  <2>1. x \in EntryType(d) /\ x.offset = off /\ x.sef = FALSE /\ x.level = PosToLvl(off, d)
    BY <1>1, <1>3, EntryIs
  <2>2. r.sched = e.sched \o t
    <3>1. r = [e EXCEPT !.sched = Append(@, x)]
      BY <1>4 DEF Emit
    <3>2. Append(e.sched, x) = e.sched \o t
      <4> HIDE DEF x
      <4> QED
        BY <1>2, <2>1
    <3> HIDE DEF r, x
    <3> QED
      BY <1>2, <3>1, <3>2
  <2> HIDE DEF x, r
  <2>3. Made(t)
    BY <2>1, <2>2
  <2> QED
    BY <2>3 DEF r, Extends
<1>5. CASE off = e.disp
  <2> DEFINE c == Cardinality(CaughtUp(d, off + 1, coded))
             x == Entry(off, d, TRUE, FALSE)
             sefs == [i \in 1 .. c |-> Entry(off + i, d, TRUE, TRUE)]
             t == <<x>> \o sefs
  <2>1. c \in Nat /\ off + c <= n
    BY CaughtUpFacts
  <2>2. x \in EntryType(d) /\ x.offset = off /\ x.sef = FALSE /\ x.level = PosToLvl(off, d)
    BY <1>1, <1>3, EntryIs
  <2>3. r.sched = Append(e.sched, x) \o sefs
    BY <1>5 DEF Emit
  <2> HIDE DEF c
  <2>4. ASSUME NEW i \in 1 .. c
        PROVE  LET y == Entry(off + i, d, TRUE, TRUE)
               IN /\ y \in EntryType(d) /\ y.offset = off + i /\ y.sef = TRUE
                  /\ y.level = PosToLvl(off + i, d)
    <3>1. off + i \in 1 .. n
      BY <1>1, <2>1
    <3> QED
      BY <1>3, <3>1, EntryIs
  <2>5. sefs \in Seq(EntryType(d)) /\ Len(sefs) = c
    <3>1. sefs \in [1 .. c -> EntryType(d)]
      BY <2>4
    <3> HIDE DEF sefs
    <3> QED
      BY <2>1, <3>1
  <2>6. \A i \in 1 .. c : sefs[i] = Entry(off + i, d, TRUE, TRUE)
    OBVIOUS
  <2> HIDE DEF x, sefs, r
  <2>7. t \in Seq(EntryType(d)) /\ Len(t) = 1 + c /\ t[1] = x
        /\ \A i \in 1 .. c : t[i + 1] = sefs[i]
    <3>1. <<x>> \in Seq(EntryType(d)) /\ Len(<<x>>) = 1 /\ <<x>>[1] = x /\ 1 \in 1 .. 1
      BY <2>2
    <3> QED
      BY <2>5, <3>1, ConcatFacts
  <2>8. Append(e.sched, x) \o sefs = e.sched \o t
    <3> DEFINE T == EntryType(d)
               s == e.sched
    <3>1. s \in Seq(T) /\ x \in T /\ sefs \in Seq(T)
      BY <1>2, <2>2, <2>5
    <3>2. Append(s, x) \o sefs = s \o (<<x>> \o sefs)
      <4> HIDE DEF T, s, sefs
      <4> QED
        BY <3>1, AppendConcat
    <3> QED
      BY <3>2
  <2> HIDE DEF t
  <2>9. ASSUME NEW i \in 1 .. Len(t)
        PROVE  t[i].level = PosToLvl(t[i].offset, d) /\ (i > 1 => t[i].sef)
    <3>1. CASE i = 1
      BY <2>2, <2>7, <3>1
    <3>2. CASE i > 1
      <4>1. i - 1 \in 1 .. c /\ (i - 1) + 1 = i
        BY <2>1, <2>7, <3>2
      <4>2. t[i] = Entry(off + (i - 1), d, TRUE, TRUE)
        BY <2>6, <2>7, <4>1
      <4>3. /\ t[i].offset = off + (i - 1) /\ t[i].sef = TRUE
            /\ t[i].level = PosToLvl(off + (i - 1), d)
        BY <2>4, <4>1, <4>2
      <4> QED
        BY <4>3
    <3> QED
      BY <3>1, <3>2
  <2>10. Made(t)
    BY <2>1, <2>2, <2>3, <2>7, <2>8, <2>9
  <2> QED
    BY <2>10 DEF r, Extends
<1> QED
  BY <1>4, <1>5

LEMMA SpacedKeeps ==
  ASSUME NEW d \in Depths, NEW e, NEW coded, EmitOK(d, e, coded), coded \subseteq 1 .. 2 ^ d,
         Spaced(e.sched, d), NEW off \in 1 .. 2 ^ d,
         \A x \in coded : PosToLvl(x, d) = PosToLvl(off, d) => 1 .. x \subseteq coded
  PROVE  Spaced(Emit(d, e, off, coded \cup {off}).sched, d)
<1> DEFINE n == 2 ^ d
           s == e.sched
           l == Len(s)
           u == Emit(d, e, off, coded \cup {off}).sched
<1>1. n \in Nat \ {0} /\ off \in 1 .. n
  BY InputLenFacts
<1>2. /\ e \in Emissions(d) /\ s \in Seq(EntryType(d)) /\ e.disp \in 1 .. n + 1
      /\ e.disp \notin coded
      /\ Schedules(s, e.disp, coded)
  BY DEF EmitOK, Emissions
<1>3. PICK t \in Seq(EntryType(d)) :
        /\ u = s \o t
        /\ Len(t) > 0 /\ ~t[1].sef /\ t[1].offset = off
        /\ \A i \in 1 .. Len(t) : /\ t[i].level = PosToLvl(t[i].offset, d)
                                  /\ i > 1 => t[i].sef
  <2> DEFINE D == coded \cup {off}
  <2>1. D \subseteq 1 .. 2 ^ d
    OBVIOUS
  <2>3. off \in D /\ d \in Depths /\ e \in Emissions(d)
    BY <1>2
  <2> HIDE DEF D, n, s, l, u
  <2>2. Extends(e.sched, Emit(d, e, off, D).sched, off, d)
    BY <2>1, <2>3, EmitIs
  <2> QED
    BY <2>2 DEF D, Extends, u, s
<1> HIDE DEF u
<1>4. /\ u \in Seq(EntryType(d)) /\ Len(u) = l + Len(t) /\ l \in Nat /\ Len(t) \in Nat
      /\ \A i \in 1 .. l : u[i] = s[i]
      /\ \A i \in 1 .. Len(t) : u[i + l] = t[i]
  BY <1>2, <1>3, ConcatFacts
<1> HIDE DEF s, l, n
<1>5. ASSUME NEW i \in 1 .. Len(u)
      PROVE  /\ u[i].level = PosToLvl(u[i].offset, d)
             /\ i <= l => u[i] = s[i]
             /\ i = l + 1 => u[i].offset = off
             /\ i > l + 1 => u[i].sef
  <2>1. CASE i <= l
    BY <1>4, <2>1 DEF Spaced, s, l
  <2>2. CASE i > l
    <3>1. i - l \in 1 .. Len(t) /\ (i - l) + l = i
      BY <1>4, <2>2
    <3>2. u[i] = t[i - l]
      BY <1>4, <3>1
    <3>3. i = l + 1 => i - l = 1
      BY <1>4
    <3>4. i > l + 1 => i - l > 1
      BY <1>4
    <3> QED
      BY <1>3, <1>4, <2>2, <3>1, <3>2, <3>3, <3>4
  <2> QED
    BY <1>4, <2>1, <2>2
<1>6. ASSUME NEW i \in 1 .. Len(u), NEW j \in 1 .. Len(u), i < j, ~u[i].sef, ~u[j].sef,
             u[i].level = u[j].level
      PROVE  \E k \in 1 .. j - 1 : u[k].shown /\ u[k].offset = u[i].offset
  <2>1. j <= l + 1 /\ i \in 1 .. l /\ u[i] = s[i]
    BY <1>4, <1>5, <1>6
  <2>2. CASE j <= l
    <3>1. j \in 1 .. l /\ u[j] = s[j]
      BY <1>4, <2>2
    <3>2. PICK k \in 1 .. j - 1 : s[k].shown /\ s[k].offset = s[i].offset
      BY <1>6, <2>1, <3>1 DEF Spaced, s, l
    <3>3. k \in 1 .. l
      BY <1>4, <3>1
    <3> QED
      BY <1>4, <2>1, <3>2, <3>3
  <2>3. CASE j = l + 1
    <3>1. s[i].offset \in coded /\ PosToLvl(s[i].offset, d) = PosToLvl(off, d)
      <4>1. \A k \in 1 .. l : s[k].offset \in coded
        BY <1>2 DEF Schedules, l
      <4>2. u[i].level = PosToLvl(u[i].offset, d) /\ u[j].level = PosToLvl(off, d)
        BY <1>5, <2>3
      <4> QED
        BY <1>6, <2>1, <4>1, <4>2
    <3>2. 1 .. s[i].offset \subseteq coded /\ s[i].offset \in 1 .. n
      BY <3>1 DEF n
    <3>3. s[i].offset \in 1 .. e.disp - 1
      BY <1>1, <1>2, <3>2
    <3>4. PICK k \in 1 .. l : s[k].shown /\ s[k].offset = s[i].offset
      BY <1>2, <3>3 DEF Schedules, l
    <3>5. k \in 1 .. j - 1
      BY <1>4, <2>3
    <3> QED
      BY <1>4, <2>1, <3>4, <3>5
  <2> QED
    BY <1>4, <2>1, <2>2, <2>3
<1> QED
  BY <1>5, <1>6 DEF Spaced, u

\* build_schedule, as the frames are emitted.
LEMMA ScheduleMade ==
  ASSUME NEW d \in Depths
  PROVE  LET order == CodingOrder(d)
             l == Len(order)
         IN \E F : /\ Sched[d] = F[l].sched /\ F[0] = EmitInit
                   /\ \A k \in 1 .. l : F[k] = Emit(d, F[k - 1], order[k], FirstOf(order, k))
                   /\ \A k \in 0 .. l : EmitOK(d, F[k], FirstOf(order, k))
<1> DEFINE order == CodingOrder(d)
           l == Len(order)
           F == CHOOSE f : f = [k \in 0 .. l |-> IF k = 0 THEN EmitInit
                                  ELSE Emit(d, f[k - 1], order[k], FirstOf(order, k))]
           n == 2 ^ d
<1>1. n \in Nat \ {0} /\ Listing(order, 1, n)
  BY InputLenFacts, CodingOrderFacts
<1>2. Sched[d] = F[l].sched
  <2>1. Sched[d] = BuildSchedule(d)
    BY DEF Sched
  <2>2. BuildSchedule(d) = F[l].sched
    BY DEF BuildSchedule, EmitInit, FirstOf
  <2> QED
    BY <2>1, <2>2
<1>3. F = [k \in 0 .. l |-> IF k = 0 THEN EmitInit
                            ELSE Emit(d, F[k - 1], order[k], FirstOf(order, k))]
  <2>1. \E f : f = [k \in 0 .. l |-> IF k = 0 THEN EmitInit
                      ELSE Emit(d, f[k - 1], order[k], FirstOf(order, k))]
    <3> HIDE DEF order
    <3> QED
      BY <1>1, EmittedExists
  <2> QED
    BY <2>1
<1> HIDE DEF F, order, n
<1>4. l \in Nat
  BY <1>1, FirstOfFacts
<1> HIDE DEF l
<1>5. /\ F[0] = EmitInit
      /\ \A k \in 1 .. l : F[k] = Emit(d, F[k - 1], order[k], FirstOf(order, k))
  BY <1>3, <1>4
<1>6. \A k \in 0 .. l : EmitOK(d, F[k], FirstOf(order, k))
  BY <1>1, <1>5, EmittedOK DEF l, n
<1> QED
  BY <1>2, <1>5, <1>6 DEF order, l

\* build_schedule: a frame that is coded ahead of its turn is shown before
\* another of its level is coded, which would take its slot; for each depth.
THEOREM ScheduleSpaced == \A d \in Depths : Spaced(Sched[d], d)
<1> TAKE d \in Depths
<1> DEFINE order == CodingOrder(d)
           l == Len(order)
           n == 2 ^ d
<1>1. n \in Nat \ {0} /\ Listing(order, 1, n) /\ Layered(order, 1, d)
  BY InputLenFacts, CodingOrderFacts, CodingOrderLayered
<1>2. PICK F : /\ Sched[d] = F[l].sched /\ F[0] = EmitInit
               /\ \A k \in 1 .. l : F[k] = Emit(d, F[k - 1], order[k], FirstOf(order, k))
               /\ \A k \in 0 .. l : EmitOK(d, F[k], FirstOf(order, k))
  BY ScheduleMade
<1> HIDE DEF order, n
<1>3. /\ l \in Nat
      /\ \A k \in 1 .. l :
           /\ FirstOf(order, k) = FirstOf(order, k - 1) \cup {order[k]}
           /\ order[k] \in 1 .. n /\ order[k] \notin FirstOf(order, k - 1)
           /\ FirstOf(order, k - 1) \subseteq 1 .. n
  BY <1>1, FirstOfFacts
<1> DEFINE Good(k) == Spaced(F[k].sched, d)
<1>4. Good(0)
  <2>1. EmitInit.sched = <<>>
    BY DEF EmitInit
  <2>2. Spaced(<<>>, d)
    BY DEF Spaced
  <2> QED
    BY <1>2, <2>1, <2>2
<1>5. ASSUME NEW k \in 1 .. l, Good(k - 1)
      PROVE  Good(k)
  <2> DEFINE off == order[k]
             coded == FirstOf(order, k - 1)
             e == F[k - 1]
  <2>1. /\ EmitOK(d, e, coded) /\ coded \subseteq 1 .. 2 ^ d /\ Spaced(e.sched, d)
        /\ off \in 1 .. 2 ^ d /\ FirstOf(order, k) = coded \cup {off}
    BY <1>2, <1>3, <1>5 DEF n
  <2>2. \A x \in coded : PosToLvl(x, d) = PosToLvl(off, d) => 1 .. x \subseteq coded
    <3> SUFFICES ASSUME NEW x \in coded, PosToLvl(x, d) = PosToLvl(off, d), NEW y \in 1 .. x
                 PROVE  y \in coded
      OBVIOUS
    <3>1. PICK i \in 1 .. k - 1 : x = order[i]
      BY DEF FirstOf
    <3>2. i \in 1 .. l /\ k \in 1 .. l /\ i < k
      BY <1>3, <3>1
    <3>3. \E j \in 1 .. k - 1 : order[j] = y
      BY <1>1, <3>1, <3>2 DEF Layered
    <3> QED
      BY <3>3 DEF FirstOf
  <2>3. Spaced(Emit(d, e, off, coded \cup {off}).sched, d)
    <3> HIDE DEF off, coded, e
    <3> QED
      BY <2>1, <2>2, SpacedKeeps
  <2> QED
    BY <1>2, <2>1, <2>3
<1> HIDE DEF Good, l
<1>6. \A k \in 0 .. l : Good(k)
  <2> DEFINE B == {k \in 0 .. l : ~Good(k)}
  <2>1. SUFFICES ASSUME B # {}
                 PROVE  FALSE
    OBVIOUS
  <2> DEFINE x == Min(B)
  <2>2. x \in B /\ \A y \in B : x <= y
    <3>1. B \subseteq Nat
      BY <1>3
    <3> HIDE DEF B
    <3> QED
      BY <2>1, <3>1, MinFacts
  <2> HIDE DEF x
  <2>3. x # 0
    BY <1>4, <2>2
  <2>4. x \in 1 .. l /\ x - 1 \in 0 .. l /\ x - 1 \notin B
    BY <1>3, <2>2, <2>3
  <2> QED
    BY <1>5, <2>2, <2>4
<1>7. Good(l)
  BY <1>3, <1>6
<1> QED
  BY <1>2, <1>7 DEF Good, l

----------------------------------------------------------------------------
(* The encoder's frame queue *)


Slots == [RefSlots -> RefType]

FrameInvariants ==
  [type : {"key", "inter", "switch"}, input : Nat, sef : BOOLEAN, show : BOOLEAN,
   hint : Nat, level : Nat, slot : RefSlots, refs : Seq(RefSlots),
   refresh : SUBSET RefSlots, rec : Slots, look : Slots, t35 : Nat \cup {None}]

Maps(T) == UNION {[S -> T] : S \in SUBSET Nat}

Contexts ==
  [count : Nat, limit : Nat \cup {None}, output : Nat, processed : Nat,
   frames : SUBSET Nat, end : BOOLEAN, data : Maps(FrameInvariants \cup {Placeholder}),
   gopOutput : Maps(Nat), gopInput : Maps(Nat), keyframes : SUBSET Nat, forced : SUBSET Nat,
   nextFrame : Nat, nextOutput : Nat, opaque : SUBSET Nat, t35 : SUBSET Nat]

\* The output frames that are there and not skipped.
Live(c) == {m \in DOMAIN c.data : ~Skipped(c, m)}
Distance == KeyframeLookaheadDistance(Depth)

\* The input queue.  Key frames are decided as far as the look-ahead allows.
QueueOK(c) ==
  /\ c.count <= setup.frames
  /\ c.frames \subseteq 0 .. c.count - 1
  /\ \A i \in c.frames : i .. c.count - 1 \subseteq c.frames
  /\ c.count > 0 => c.count - 1 \in c.frames
  /\ c.forced \subseteq 0 .. c.count - 1
  /\ 0 \in c.keyframes /\ c.keyframes \subseteq 0 .. c.nextFrame - 1
  /\ c.nextFrame = 1 \/ c.nextFrame \in 1 .. c.count
  /\ c.limit # None => c.count <= c.limit
  /\ c.end => c.limit = c.count /\ (c.count > 0 => c.nextFrame = c.count)
  /\ ~c.end => /\ c.count <= c.nextFrame + Distance + 1
               /\ c.nextFrame = 1 \/ c.nextFrame + Distance < c.count
               /\ c.nextFrame - 1 \in c.frames \/ c.count = 0

\* The output frames: those that are not collected are all there.
DataOK(c) ==
  /\ DOMAIN c.data \subseteq 0 .. c.nextOutput - 1
  /\ DOMAIN c.gopInput = DOMAIN c.gopOutput
  /\ DOMAIN c.data \subseteq DOMAIN c.gopOutput
  /\ DOMAIN c.gopOutput \subseteq 0 .. c.nextOutput
  /\ c.output <= c.nextOutput
  /\ \A m \in 0 .. c.nextOutput - 1 : m + 1 >= c.output => m \in DOMAIN c.data
  /\ \A m \in Live(c) : c.data[m].input < c.nextFrame /\ c.data[m].input < c.count
  /\ c.nextOutput > 0 /\ ~c.end => Distance + 1 < c.count

\* Where frame m is, when the last group of pictures starts with output frame g
\* and input frame k: before it, its key frame, or in it and before the next.
InGroup(c, m, g, k) ==
  LET fi == c.data[m]
  IN \/ m < g /\ fi.input < k
     \/ m = g /\ fi.input = k /\ fi.show
     \/ /\ m > g /\ fi.input = k + OrderHint(Depth, m - g)
        /\ fi.show = EntryAt(Depth, m - g).shown
        /\ fi.input < k + setup.maxKey
        /\ \A i \in c.keyframes : i > k => i > fi.input

GroupOK(c) ==
  c.nextOutput > 0 =>
    LET g == c.gopOutput[c.nextOutput - 1]
        k == c.gopInput[c.nextOutput - 1]
    IN g < c.nextOutput /\ \A m \in Live(c) : InGroup(c, m, g, k)

\* Behind a frame that is shown come only later ones.
OrderOK(c) ==
  \A m, n \in Live(c) : m < n /\ c.data[m].show => c.data[m].input < c.data[n].input

\* What a reference buffer holds.
RefOK(c, m, ref) ==
  /\ ref.output = None \/ ref.output \in 0 .. m
  /\ ref.output \in DOMAIN c.data => IsCoded(c, ref.output)

RefsOK(c) ==
  \A m \in Live(c) :
    LET fi == c.data[m]
    IN /\ fi.type = "key" => fi.refresh = RefSlots /\ ~fi.sef /\ fi.show
       /\ fi.sef => fi.show
       /\ \A i \in RefSlots :
            /\ RefOK(c, m, fi.rec[i]) /\ RefOK(c, m, fi.look[i])
            /\ m >= c.output => fi.rec[i].output < m
            /\ ~fi.sef => fi.look[i].output # None
            /\ ~fi.sef /\ (fi.type # "key" \/ m < c.output) => fi.rec[i].output # None

\* A frame that is coded is still ahead.
CodedAhead(c) == c.nextOutput > 0 => \E m \in Pending(c) : IsCoded(c, m)

\* Up to the frame that is coded next, reference buffers are the decoder's.
SyncOK(c, dec) ==
  \A m \in Pending(c) :
    c.data[m].type # "key" /\ (\A k \in Pending(c) : k < m => c.data[k].sef) =>
      \A i \in RefSlots : c.data[m].rec[i] = Ref(dec[i].output, FALSE)

\* Each packet shows a later frame than those before.
ProcessedOK(c) ==
  c.processed > 0 =>
    \E m \in Live(c) : m < c.output /\ c.data[m].show /\ c.processed <= c.data[m].input + 1

\* Frames that are to be coded are still there.
SourceThere(c) == \A n \in Pending(c) : IsCoded(c, n) => c.data[n].input \in c.frames

CtxOK(c) ==
  /\ c \in Contexts
  /\ QueueOK(c) /\ DataOK(c) /\ GroupOK(c) /\ OrderOK(c) /\ RefsOK(c)
  /\ ProcessedOK(c) /\ SourceThere(c)

IInv ==
  /\ setup \in Setups
  /\ CtxOK(ctx)
  /\ ~flushing => CodedAhead(ctx)
  /\ SyncOK(ctx, decoder)
  /\ decoder \in [RefSlots -> [output : Nat \cup {None}, input : Nat \cup {None}]]
  /\ ~flushing => ctx.limit = setup.limit
  /\ ctx.end = flushing /\ flushing \in BOOLEAN /\ ended \in BOOLEAN
  /\ ret \in {"none", "Ok", "EnoughData", "NeedMoreData", "LimitReached", "Encoded"}

----------------------------------------------------------------------------
(* Numbers *)

\* A bounded set of numbers that is not empty has a greatest element.
LEMMA MaxFacts ==
  ASSUME NEW b \in Nat, NEW S, S \subseteq 0 .. b, S # {}
  PROVE  Max(S) \in S /\ \A x \in S : x <= Max(S)
<1> DEFINE T == {b - x : x \in S}
<1>1. T \subseteq Nat /\ T # {}
  <2>1. \A x \in S : b - x \in Nat
    <3> TAKE x \in S
    <3>1. x \in Nat /\ x <= b
      OBVIOUS
    <3> QED
      BY <3>1
  <2>2. T \subseteq Nat
    BY <2>1
  <2>3. PICK x \in S : TRUE
    OBVIOUS
  <2>4. b - x \in T
    BY <2>3
  <2> QED
    BY <2>2, <2>4
<1>2. Min(T) \in T /\ \A y \in T : Min(T) <= y
  BY <1>1, MinFacts
<1>3. PICK m \in S : Min(T) = b - m
  BY <1>2
<1>4. \A x \in S : x <= m
  BY <1>2, <1>3
<1> QED
  BY <1>4 DEF Max

\* Division.
LEMMA DivFacts ==
  ASSUME NEW a \in Nat, NEW l \in Nat \ {0}
  PROVE  a \div l \in Nat /\ a % l \in 0 .. l - 1 /\ a = (l * (a \div l)) + (a % l)
  OBVIOUS

LEMMA DivMono ==
  ASSUME NEW a \in Nat, NEW b \in Nat, NEW l \in Nat \ {0}, a < b
  PROVE  \/ a \div l < b \div l
         \/ a \div l = b \div l /\ a % l < b % l
  OBVIOUS

LEMMA TimesMono ==
  ASSUME NEW n \in Nat, NEW a \in Nat, NEW b \in Nat, a < b
  PROVE  n * a \in Nat /\ n * b \in Nat /\ n * a + n <= n * b
  OBVIOUS

----------------------------------------------------------------------------
(* The schedule *)

LEMMA SchedFacts ==
  ASSUME NEW d \in Depths
  PROVE  /\ GroupInputLen(d) \in Nat \ {0} /\ GroupOutputLen(d) \in Nat \ {0}
         /\ \A i \in 1 .. GroupOutputLen(d) :
              /\ Sched[d][i] \in [offset : 1 .. GroupInputLen(d), level : 0 .. d,
                                  shown : BOOLEAN, sef : BOOLEAN]
              /\ Sched[d][i].sef => Sched[d][i].shown
         /\ \A i, j \in 1 .. GroupOutputLen(d) :
              i < j /\ Sched[d][i].shown => Sched[d][i].offset < Sched[d][j].offset
<1> DEFINE s == Sched[d]
           l == GroupOutputLen(d)
<1>1. GroupInputLen(d) \in Nat \ {0} /\ GroupInputLen(d) = 2 ^ d
  BY InputLenFacts DEF GroupInputLen
<1>2. s \in Seq(EntryType(d)) /\ Len(s) > 0 /\ Schedules(s, 2 ^ d + 1, 1 .. 2 ^ d) /\ l = Len(s)
  BY ScheduleShowsAll DEF ScheduleOK, GroupOutputLen
<1> HIDE DEF s, l
<1>3. l \in Nat \ {0} /\ \A i \in 1 .. l : s[i] \in EntryType(d)
  BY <1>2
<1>4. EntryType(d) = [offset : 1 .. GroupInputLen(d), level : 0 .. d, shown : BOOLEAN, sef : BOOLEAN]
  BY <1>1 DEF EntryType
<1>5. /\ \A i \in 1 .. l : s[i].sef => s[i].shown
      /\ \A i, j \in 1 .. l : i < j /\ s[i].shown => s[i].offset < s[j].offset
  BY <1>2 DEF Schedules
<1> QED
  BY <1>1, <1>3, <1>4, <1>5 DEF s, l

LEMMA GroupFacts ==
  ASSUME NEW d \in Depths
  PROVE  GroupInputLen(d) \in Nat \ {0} /\ GroupOutputLen(d) \in Nat \ {0}
  BY SchedFacts

\* An entry of the schedule.
LEMMA EntryFacts ==
  ASSUME NEW d \in Depths, NEW a \in Nat \ {0}
  PROVE  /\ IdxInGroupOutput(d, a) + 1 \in 1 .. GroupOutputLen(d)
         /\ EntryAt(d, a) \in [offset : 1 .. GroupInputLen(d), level : 0 .. d,
                               shown : BOOLEAN, sef : BOOLEAN]
         /\ EntryAt(d, a).sef => EntryAt(d, a).shown
<1>1. IdxInGroupOutput(d, a) + 1 \in 1 .. GroupOutputLen(d)
  <2> DEFINE x == a - 1
             l == GroupOutputLen(d)
  <2>1. x \in Nat /\ l \in Nat \ {0}
    BY GroupFacts
  <2>2. x % l \in 0 .. l - 1
    <3> HIDE DEF x, l
    <3> QED
      BY <2>1, DivFacts
  <2> QED
    BY <2>1, <2>2 DEF IdxInGroupOutput
<1> QED
  BY <1>1, SchedFacts DEF EntryAt

LEMMA HintFacts ==
  ASSUME NEW d \in Depths, NEW a \in Nat \ {0}
  PROVE  /\ OrderHint(d, a) \in Nat \ {0}
         /\ OrderHint(d, a) = GroupInputLen(d) * ((a - 1) \div GroupOutputLen(d))
                                + EntryAt(d, a).offset
         /\ (a - 1) \div GroupOutputLen(d) \in Nat
<1> DEFINE q == (a - 1) \div GroupOutputLen(d)
           n == GroupInputLen(d)
           o == EntryAt(d, a).offset
<1>1. q \in Nat
  BY GroupFacts, DivFacts, a - 1 \in Nat
<1>2. n \in Nat \ {0} /\ o \in 1 .. n
  BY GroupFacts, EntryFacts
<1>3. n * q \in Nat
  <2> HIDE DEF n, q
  <2> QED
    BY <1>1, <1>2
<1>4. OrderHint(d, a) = n * q + o
  BY DEF OrderHint
<1> QED
  BY <1>1, <1>2, <1>3, <1>4

\* Frames that come behind one that is shown are later.
LEMMA HintMono ==
  ASSUME NEW d \in Depths, NEW a \in Nat \ {0}, NEW b \in Nat, a < b, EntryAt(d, a).shown
  PROVE  OrderHint(d, a) < OrderHint(d, b)
<1> DEFINE l == GroupOutputLen(d)
           n == GroupInputLen(d)
           x == a - 1
           y == b - 1
           o == EntryAt(d, a).offset
           p == EntryAt(d, b).offset
<1>1. l \in Nat \ {0} /\ n \in Nat \ {0} /\ x \in Nat /\ y \in Nat /\ x < y /\ b \in Nat \ {0}
  BY GroupFacts
<1>2. /\ OrderHint(d, a) = n * (x \div l) + o /\ OrderHint(d, b) = n * (y \div l) + p
      /\ o \in 1 .. n /\ p \in 1 .. n /\ x \div l \in Nat /\ y \div l \in Nat
      /\ (x % l) + 1 \in 1 .. l /\ (y % l) + 1 \in 1 .. l
      /\ EntryAt(d, a) = Sched[d][(x % l) + 1] /\ EntryAt(d, b) = Sched[d][(y % l) + 1]
  BY <1>1, HintFacts, EntryFacts DEF EntryAt, IdxInGroupOutput
<1>3. x \div l < y \div l \/ (x \div l = y \div l /\ x % l < y % l)
  <2> HIDE DEF x, y, l
  <2> QED
    BY <1>1, DivMono
<1>4. CASE x \div l < y \div l
  <2> DEFINE q == x \div l
             r == y \div l
  <2>1. q \in Nat /\ r \in Nat /\ q < r
    BY <1>2, <1>4
  <2>2. n * q \in Nat /\ n * r \in Nat /\ n * q + n <= n * r
    <3> HIDE DEF n, q, r
    <3> QED
      BY <1>1, <2>1, TimesMono
  <2>3. OrderHint(d, a) = n * q + o /\ OrderHint(d, b) = n * r + p
    BY <1>2
  <2> HIDE DEF n, q, r, o, p
  <2> QED
    BY <1>1, <1>2, <2>2, <2>3
<1>5. CASE x \div l = y \div l /\ x % l < y % l
  <2> DEFINE i == (x % l) + 1
             j == (y % l) + 1
  <2>1. i \in 1 .. l /\ j \in 1 .. l /\ i < j
    BY <1>1, <1>2, <1>5
  <2>2. Sched[d][i].shown /\ o = Sched[d][i].offset /\ p = Sched[d][j].offset
    BY <1>2
  <2>3. o < p
    <3> HIDE DEF i, j, o, p
    <3> QED
      BY <2>1, <2>2, SchedFacts
  <2>4. n * (x \div l) \in Nat
    <3> HIDE DEF n, x, l
    <3> QED
      BY <1>1, <1>2
  <2> HIDE DEF n, x, y, l, o, p
  <2> QED
    BY <1>1, <1>2, <1>5, <2>3, <2>4
<1> QED
  BY <1>3, <1>4, <1>5

LEMMA SlotFacts ==
  ASSUME NEW d \in Depths, NEW level \in 0 .. d, NEW hint \in Int
  PROVE  SlotIdx(d, level, hint) \in RefSlots
<1> DEFINE q == hint \div GroupInputLen(d)
<1>1. q \in Int
  <2> DEFINE n == GroupInputLen(d)
  <2>1. n \in Nat \ {0}
    BY GroupFacts
  <2>2. hint \div n \in Int
    <3> HIDE DEF n
    <3> QED
      BY <2>1
  <2> QED
    BY <2>2
<1>2. q % 4 \in 0 .. 3
  <2> HIDE DEF q
  <2> QED
    BY <1>1
<1>3. SlotIdx(d, level, hint) = IF level = 0 THEN q % 4 ELSE 3 + level
  BY DEF SlotIdx
<1> HIDE DEF q
<1> QED
  BY <1>2, <1>3 DEF RefSlots, Depths

\* Frames predict from slots of the reference buffer.
LEMMA RefFramesFacts ==
  ASSUME NEW d \in Depths, NEW level \in 0 .. d, NEW hint \in Int, NEW multiref \in BOOLEAN,
         NEW slot \in RefSlots
  PROVE  RefFrames(d, level, hint, slot, multiref) \in Seq(RefSlots)
<1> DEFINE step == GroupInputLen(d) \div 2 ^ level
           back == (slot + 3) % 4
           further == (slot + 2) % 4
<1>1. back \in RefSlots /\ further \in RefSlots
  BY DEF RefSlots
<1>2. \A oh \in Int : SlotIdx(d, PosToLvl(oh, d), oh) \in RefSlots
  BY LevelFacts, SlotFacts
<1>3. step \in Int
  <2>1. level \in {0, 1, 2, 3, 4}
    BY DEF Depths
  <2>3. GroupInputLen(level) \in Nat \ {0} /\ GroupInputLen(level) = 2 ^ level
    <3>1. level \in Depths
      BY <2>1 DEF Depths
    <3> QED
      BY <3>1, GroupFacts DEF GroupInputLen
  <2>4. GroupInputLen(d) \in Nat
    BY GroupFacts
  <2> QED
    BY <2>3, <2>4, DivFacts
<1>4. hint - step \in Int /\ hint + step \in Int
  <2> HIDE DEF step
  <2> QED
    BY <1>3
<1>5. RefFrames(d, level, hint, slot, multiref) =
        IF level = 0 THEN IF multiref THEN <<back, further, back>> ELSE <<back, back, back>>
        ELSE <<SlotIdx(d, PosToLvl(hint - step, d), hint - step),
               SlotIdx(d, PosToLvl(hint + step, d), hint + step), slot>>
  BY DEF RefFrames
<1> HIDE DEF step, back, further
<1> QED
  BY <1>1, <1>2, <1>4, <1>5

----------------------------------------------------------------------------
(* Contexts *)

LEMMA SetupFacts ==
  ASSUME setup \in Setups
  PROVE  /\ Depth \in Depths /\ Distance \in Nat /\ Distance >= 2
         /\ setup.rdo \in Nat \ {0} /\ setup.maxKey \in Nat \ {0} /\ Multiref \in BOOLEAN
         /\ setup.frames \in Nat /\ setup.limit \in Nat \cup {None} /\ setup.limit # 0
         /\ setup.switch \in Nat /\ (setup.switch > 0 => Depth = 0)
<1>1. /\ setup.depth \in Depths /\ setup.rdo \in Nat \ {0} /\ setup.maxKey \in Nat \ {0}
      /\ setup.multiref \in BOOLEAN
      /\ setup.frames \in Nat /\ setup.limit \in Nat \cup {None} /\ setup.limit # 0
      /\ setup.switch \in Nat /\ (setup.switch > 0 => setup.depth = 0)
  BY SetupAssumption DEF None
<1>2. GroupInputLen(setup.depth) \in Nat \ {0}
  BY <1>1, GroupFacts
<1> QED
  BY <1>1, <1>2 DEF Depth, Distance, Multiref, Reorder, KeyframeLookaheadDistance,
                    MaxReorderingLatency

LEMMA MapFacts ==
  ASSUME NEW T, NEW f
  PROVE  f \in Maps(T) <=> /\ DOMAIN f \subseteq Nat /\ f = [m \in DOMAIN f |-> f[m]]
                           /\ \A m \in DOMAIN f : f[m] \in T
<1>1. ASSUME f \in Maps(T)
      PROVE  /\ DOMAIN f \subseteq Nat /\ f = [m \in DOMAIN f |-> f[m]]
             /\ \A m \in DOMAIN f : f[m] \in T
  <2>1. PICK S \in SUBSET Nat : f \in [S -> T]
    BY <1>1 DEF Maps
  <2> QED
    BY <2>1
<1>2. ASSUME DOMAIN f \subseteq Nat, f = [m \in DOMAIN f |-> f[m]],
             \A m \in DOMAIN f : f[m] \in T
      PROVE  f \in Maps(T)
  <2>1. f \in [DOMAIN f -> T] /\ DOMAIN f \in SUBSET Nat
    BY <1>2
  <2> QED
    BY <2>1 DEF Maps
<1> QED
  BY <1>1, <1>2

LEMMA InsertFacts ==
  ASSUME NEW T, NEW f \in Maps(T), NEW n \in Nat, NEW v \in T
  PROVE  /\ Insert(f, n, v) \in Maps(T)
         /\ DOMAIN Insert(f, n, v) = DOMAIN f \cup {n}
         /\ Insert(f, n, v)[n] = v
         /\ \A m \in DOMAIN f \ {n} : Insert(f, n, v)[m] = f[m]
<1>1. DOMAIN f \subseteq Nat /\ \A m \in DOMAIN f : f[m] \in T
  BY MapFacts
<1> DEFINE g == Insert(f, n, v)
<1>2. g = [m \in DOMAIN f \cup {n} |-> IF m = n THEN v ELSE f[m]]
  BY DEF Insert
<1>3. DOMAIN g \subseteq Nat /\ g = [m \in DOMAIN g |-> g[m]] /\ \A m \in DOMAIN g : g[m] \in T
  BY <1>1, <1>2
<1>4. g \in Maps(T)
  <2> HIDE DEF g
  <2> QED
    BY <1>3, MapFacts
<1> QED
  BY <1>2, <1>4

LEMMA CtxFacts ==
  ASSUME NEW c \in Contexts
  PROVE  /\ c.count \in Nat /\ c.limit \in Nat \cup {None} /\ c.output \in Nat
         /\ c.processed \in Nat /\ c.frames \subseteq Nat /\ c.end \in BOOLEAN
         /\ c.data \in Maps(FrameInvariants \cup {Placeholder})
         /\ c.gopOutput \in Maps(Nat) /\ c.gopInput \in Maps(Nat)
         /\ c.keyframes \subseteq Nat /\ c.forced \subseteq Nat /\ c.nextFrame \in Nat
         /\ c.nextOutput \in Nat /\ c.opaque \subseteq Nat /\ c.t35 \subseteq Nat
  BY DEF Contexts

LEMMA FiFacts ==
  ASSUME NEW fi \in FrameInvariants
  PROVE  /\ fi.type \in {"key", "inter", "switch"} /\ fi.input \in Nat /\ fi.sef \in BOOLEAN
         /\ fi.show \in BOOLEAN /\ fi.slot \in RefSlots /\ fi.refs \in Seq(RefSlots)
         /\ fi.refresh \subseteq RefSlots /\ fi.rec \in Slots /\ fi.look \in Slots
         /\ fi.t35 \in Nat \cup {None} /\ fi # Placeholder /\ fi.type # "skipped"
  BY DEF FrameInvariants, Placeholder

LEMMA LiveFacts ==
  ASSUME NEW c \in Contexts
  PROVE  /\ DOMAIN c.data \subseteq Nat /\ Live(c) \subseteq DOMAIN c.data
         /\ \A m \in Live(c) : c.data[m] \in FrameInvariants
         /\ \A m \in DOMAIN c.data : m \in Live(c) <=> c.data[m] # Placeholder
         /\ Pending(c) = {m \in Live(c) : m >= c.output}
<1>1. DOMAIN c.data \subseteq Nat
      /\ \A m \in DOMAIN c.data : c.data[m] \in FrameInvariants \cup {Placeholder}
  BY CtxFacts, MapFacts
<1>2. Placeholder.type = "skipped"
  BY DEF Placeholder
<1>3. \A m \in DOMAIN c.data : m \in Live(c) <=> c.data[m] # Placeholder
  BY <1>1, <1>2, FiFacts DEF Live, Skipped
<1> QED
  BY <1>1, <1>3 DEF Live, Pending

----------------------------------------------------------------------------
(* The next output frame *)

\* The last group of pictures: the output frame and the input frame it starts with.
LastOutput(c) == IF c.nextOutput = 0 THEN 0 ELSE c.gopOutput[c.nextOutput - 1]
LastInput(c) == IF c.nextOutput = 0 THEN 0 ELSE c.gopInput[c.nextOutput - 1]

\* The place of the next output frame in it, and the input frame it names.
InLast(c) == c.nextOutput - LastOutput(c)
Named(c) == InputFrameno(Depth, InLast(c), LastInput(c))
NextKey(c) == NextKeyframeInput(c, LastInput(c))

\* The next output frame is of the group that starts with g and k, and ...
Grouped(c, g, k, t) ==
  [c EXCEPT !.gopOutput = Insert(@, c.nextOutput, g), !.gopInput = Insert(@, c.nextOutput, k),
            !.t35 = t]

\* ... has data v.
WithData(c, g, k, t, v) == [Grouped(c, g, k, t) EXCEPT !.data = Insert(@, c.nextOutput, v)]

\* The group of pictures ends with the next output frame.
Ends(c) == Named(c) >= NextKey(c) /\ EndsGop(c, c.nextOutput, InLast(c), NextKey(c))

\* What build_frame_properties waits for.
Waits(c) ==
  \/ NeedsMoreFrameQLookahead(c, Named(c))
  \/ (c.nextOutput = 0 \/ Named(c) < NextKey(c)) /\ Named(c) \notin c.frames
  \/ c.nextOutput > 0 /\ Ends(c) /\ NextKey(c) \notin c.frames

\* What it can be: nothing yet, skipped, a key frame, or another frame of the group.
NothingNext(c, r) ==
  /\ ~r.ok /\ Waits(c)
  /\ \E t \in SUBSET Nat : r.c = Grouped(c, LastOutput(c), LastInput(c), t)

SkippedNext(c, r) ==
  /\ r.ok /\ c.nextOutput > 0 /\ Named(c) >= NextKey(c) /\ ~Ends(c)
  /\ \E t \in SUBSET Nat :
       r.c = WithData(c, LastOutput(c), LastInput(c), t, Placeholder)

KeyNext(c, r) ==
  /\ r.ok
  /\ \E t \in SUBSET Nat : \E k \in c.frames : \E t35 \in Nat \cup {None} :
       /\ r.c = WithData(c, c.nextOutput, k, t, KeyFi(k, t35))
       /\ k <= Named(c)
       /\ IF c.nextOutput = 0 THEN k = 0 ELSE k = NextKey(c) /\ Ends(c)

InterNext(c, r) ==
  /\ r.ok /\ c.nextOutput > 0 /\ Named(c) \in c.frames /\ Named(c) < NextKey(c)
  /\ \E t \in SUBSET Nat : \E t35 \in Nat \cup {None} :
       r.c = WithData(c, LastOutput(c), LastInput(c), t,
                      EntryFi(c.data[Max(PreviousCodedFi(c, c.nextOutput))],
                              EntryAt(Depth, InLast(c)), OrderHint(Depth, InLast(c)),
                              InLast(c), Named(c), t35))

Starts(c) ==
  /\ c.nextOutput > 0 => /\ c.nextOutput - 1 \in DOMAIN c.gopOutput
                         /\ c.nextOutput - 1 \in DOMAIN c.gopInput
                         /\ LastOutput(c) < c.nextOutput
  /\ 0 \in c.keyframes

LEMMA StartsFacts ==
  ASSUME setup \in Setups, NEW c \in Contexts, Starts(c)
  PROVE  /\ LastOutput(c) \in Nat /\ LastInput(c) \in Nat /\ InLast(c) \in Nat
         /\ InLast(c) = 0 <=> c.nextOutput = 0
         /\ Named(c) \in Nat
         /\ Named(c) = LastInput(c) + (IF c.nextOutput = 0 THEN 0 ELSE OrderHint(Depth, InLast(c)))
         /\ c.nextOutput > 0 => Named(c) > LastInput(c)
         /\ c.nextOutput = 0 => Named(c) = 0 /\ LastInput(c) = 0
<1>1. c.nextOutput \in Nat /\ c.gopOutput \in Maps(Nat) /\ c.gopInput \in Maps(Nat)
  BY CtxFacts
<1>2. LastOutput(c) \in Nat /\ LastInput(c) \in Nat
  BY <1>1, MapFacts DEF LastOutput, LastInput, Starts
<1>3. InLast(c) \in Nat /\ (InLast(c) = 0 <=> c.nextOutput = 0)
  BY <1>1, <1>2 DEF InLast, Starts, LastOutput
<1>4. Named(c) = LastInput(c) + (IF c.nextOutput = 0 THEN 0 ELSE OrderHint(Depth, InLast(c)))
  BY <1>3 DEF Named, InputFrameno
<1>5. c.nextOutput > 0 => OrderHint(Depth, InLast(c)) \in Nat \ {0}
  BY <1>1, <1>3, SetupFacts, HintFacts
<1> QED
  BY <1>1, <1>2, <1>3, <1>4, <1>5 DEF LastInput

\* The next key frame is after the last, and there is none between.
LEMMA NextKeyFacts ==
  ASSUME setup \in Setups, NEW c \in Contexts, NEW g \in Nat
  PROVE  /\ NextKeyframeInput(c, g) \in Nat
         /\ NextKeyframeInput(c, g) <= g + setup.maxKey
         /\ \A k \in c.keyframes : k > g => NextKeyframeInput(c, g) <= k
         /\ c.limit # None => NextKeyframeInput(c, g) <= c.limit
         /\ \/ NextKeyframeInput(c, g) > g /\ NextKeyframeInput(c, g) \in c.keyframes
            \/ NextKeyframeInput(c, g) = g + setup.maxKey
            \/ NextKeyframeInput(c, g) = c.limit
<1> DEFINE S == {k \in c.keyframes : k > g} \cup {g + setup.maxKey}
                  \cup (IF c.limit = None THEN {} ELSE {c.limit})
<1>1. /\ c.keyframes \subseteq Nat /\ c.limit \in Nat \cup {None} /\ setup.maxKey \in Nat \ {0}
  BY CtxFacts, SetupFacts
<1>2. S \subseteq Nat /\ g + setup.maxKey \in S
  BY <1>1
<1>3. Min(S) \in S /\ \A x \in S : Min(S) <= x
  <2> HIDE DEF S
  <2> QED
    BY <1>2, MinFacts
<1>4. NextKeyframeInput(c, g) = Min(S)
  BY DEF NextKeyframeInput
<1> QED
  BY <1>1, <1>2, <1>3, <1>4

LEMMA GroupedFacts ==
  ASSUME NEW c \in Contexts, NEW g \in Nat, NEW k \in Nat, NEW t \in SUBSET Nat
  PROVE  LET d == Grouped(c, g, k, t)
         IN /\ d \in Contexts /\ d.count = c.count /\ d.limit = c.limit /\ d.output = c.output
            /\ d.processed = c.processed /\ d.frames = c.frames /\ d.end = c.end
            /\ d.data = c.data /\ d.keyframes = c.keyframes /\ d.forced = c.forced
            /\ d.nextFrame = c.nextFrame /\ d.nextOutput = c.nextOutput /\ d.t35 = t
            /\ d.opaque = c.opaque
            /\ d.gopOutput = Insert(c.gopOutput, c.nextOutput, g)
            /\ d.gopInput = Insert(c.gopInput, c.nextOutput, k)
            /\ d.gopOutput[c.nextOutput] = g /\ d.gopInput[c.nextOutput] = k
<1>1. c.gopOutput \in Maps(Nat) /\ c.gopInput \in Maps(Nat) /\ c.nextOutput \in Nat
  BY CtxFacts
<1>2. /\ Insert(c.gopOutput, c.nextOutput, g) \in Maps(Nat)
      /\ Insert(c.gopInput, c.nextOutput, k) \in Maps(Nat)
  BY <1>1, InsertFacts
<1>3. /\ Insert(c.gopOutput, c.nextOutput, g)[c.nextOutput] = g
      /\ Insert(c.gopInput, c.nextOutput, k)[c.nextOutput] = k
  BY DEF Insert
<1> QED
  BY <1>2, <1>3 DEF Grouped, Contexts

LEMMA WithDataFacts ==
  ASSUME NEW c \in Contexts, NEW g \in Nat, NEW k \in Nat, NEW t \in SUBSET Nat,
         NEW v \in FrameInvariants \cup {Placeholder}
  PROVE  LET d == WithData(c, g, k, t, v)
         IN /\ d \in Contexts /\ d.count = c.count /\ d.limit = c.limit /\ d.output = c.output
            /\ d.processed = c.processed /\ d.frames = c.frames /\ d.end = c.end
            /\ d.data = Insert(c.data, c.nextOutput, v)
            /\ d.keyframes = c.keyframes /\ d.forced = c.forced /\ d.opaque = c.opaque
            /\ d.nextFrame = c.nextFrame /\ d.nextOutput = c.nextOutput
            /\ d.gopOutput = Insert(c.gopOutput, c.nextOutput, g)
            /\ d.gopInput = Insert(c.gopInput, c.nextOutput, k)
<1>1. /\ Insert(c.gopOutput, c.nextOutput, g) \in Maps(Nat)
      /\ Insert(c.gopInput, c.nextOutput, k) \in Maps(Nat)
      /\ Insert(c.data, c.nextOutput, v) \in Maps(FrameInvariants \cup {Placeholder})
  BY CtxFacts, InsertFacts
<1> QED
  BY <1>1 DEF WithData, Grouped, Contexts

\* build_frame_properties does one of these, and the key frames and frames
\* that it asks about are known.
LEMMA BuildCases ==
  ASSUME setup \in Setups, NEW c \in Contexts, Starts(c)
  PROVE  LET r == SetFrameProperties(c, c.nextOutput)
         IN \/ NothingNext(c, r)
            \/ /\ ~NeedsMoreFrameQLookahead(c, Named(c))
               /\ SkippedNext(c, r) \/ KeyNext(c, r) \/ InterNext(c, r)
<1> DEFINE n == c.nextOutput
           g == LastOutput(c)
           k == LastInput(c)
           a == InLast(c)
           i == Named(c)
           m == NextKey(c)
           t0 == c.t35
           t == c.t35 \ {i}
           t35 == IF i \in c.t35 THEN i ELSE None
           d0 == Grouped(c, g, k, t0)
           d == Grouped(c, g, k, t)
           r == SetFrameProperties(c, n)
<1>1. /\ n \in Nat /\ t0 \in SUBSET Nat /\ t \in SUBSET Nat
      /\ g \in Nat /\ k \in Nat /\ a \in Nat /\ i \in Nat /\ (a = 0 <=> n = 0)
      /\ (n > 0 => i > k) /\ (n = 0 => i = 0 /\ k = 0 /\ g = 0) /\ t35 \in Nat \cup {None}
  BY CtxFacts, StartsFacts DEF LastOutput
<1>2. /\ d0 \in Contexts /\ d0.gopOutput[n] = g /\ d0.gopInput[n] = k
      /\ d0.frames = c.frames /\ d0.count = c.count /\ d0.end = c.end /\ d0.limit = c.limit
      /\ d0.t35 = t0
  BY <1>1, GroupedFacts
<1>3. /\ d \in Contexts /\ d.gopOutput[n] = g /\ d.gopInput[n] = k
      /\ d.frames = c.frames /\ d.data = c.data /\ d.limit = c.limit
      /\ d.keyframes = c.keyframes /\ d.nextOutput = n
  BY <1>1, GroupedFacts
<1>4. r = BuildNamed(d0, n, a, i)
  <2>1. [c EXCEPT !.gopOutput = Insert(@, n, g), !.gopInput = Insert(@, n, k)] = d0
    BY DEF Grouped, Contexts
  <2>2. r = BuildAt(d0, n, n - d0.gopOutput[n])
    BY <2>1 DEF SetFrameProperties, LastOutput, LastInput
  <2> QED
    BY <1>2, <2>2 DEF BuildAt, InLast, Named
<1>5. NeedsMoreFrameQLookahead(d0, i) <=> NeedsMoreFrameQLookahead(c, i)
  BY <1>2 DEF NeedsMoreFrameQLookahead, LookaheadEnd, NeedsMoreFrames
<1>6. CASE NeedsMoreFrameQLookahead(c, i)
  <2>1. r = [ok |-> FALSE, c |-> d0]
    BY <1>4, <1>5, <1>6 DEF BuildNamed, NoData
  <2>2. Waits(c)
    BY <1>6 DEF Waits
  <2> QED
    BY <1>1, <2>1, <2>2 DEF NothingNext
<1>7. CASE ~NeedsMoreFrameQLookahead(c, i)
  <2>1. [d0 EXCEPT !.t35 = @ \ {i}] = d
    BY <1>2, CtxFacts DEF Grouped, Contexts
  <2>2. NextKeyframeInput(d0, d0.gopInput[n]) = m
    <3>1. d0.keyframes = c.keyframes
      BY <1>1, GroupedFacts
    <3> QED
      BY <1>2, <3>1 DEF NextKey, NextKeyframeInput
  <2>3. r = BuildInGop(d, n, a, i, m, t35)
    <3> HIDE DEF d0, d, m, i, a, r, n
    <3> QED
      BY <1>2, <1>4, <1>5, <1>7, <2>1, <2>2 DEF BuildNamed
  <2>4. /\ m \in Nat /\ (\A x \in c.keyframes : x > k => m <= x)
        /\ (c.limit # None => m <= c.limit)
    BY <1>1, NextKeyFacts DEF NextKey
  <2>5. CASE n = 0
    <3>1. r = BuildFrame(d, n, i, t35)
      BY <1>1, <2>3, <2>5 DEF BuildInGop
    <3>2. CASE i \notin c.frames
      <4>1. r = [ok |-> FALSE, c |-> d]
        BY <1>3, <3>1, <3>2 DEF BuildFrame, NoData
      <4>2. Waits(c)
        BY <2>5, <3>2 DEF Waits
      <4> QED
        BY <1>1, <4>1, <4>2 DEF NothingNext
    <3>3. CASE i \in c.frames
      <4>1. i \in d.keyframes /\ i = 0
        BY <1>1, <1>3, <2>5 DEF Starts
      <4>2. r = TypeFrame(StartGop(d, n, i), n, i, t35)
        BY <1>3, <3>1, <3>3, <4>1 DEF BuildFrame
      <4>3. StartGop(d, n, i) = d
        <5>1. n \in DOMAIN d.gopOutput /\ n \in DOMAIN d.gopInput /\ d.gopOutput[n] = n /\ d.gopInput[n] = i
          <6>1. d.gopOutput = Insert(c.gopOutput, n, g) /\ d.gopInput = Insert(c.gopInput, n, k)
            BY <1>1, GroupedFacts
          <6> QED
            BY <1>1, <1>3, <2>5, <6>1 DEF Insert
        <5>2. d.gopOutput \in Maps(Nat) /\ d.gopInput \in Maps(Nat)
          BY <1>3, CtxFacts
        <5>3. /\ d.gopOutput = [x \in DOMAIN d.gopOutput |-> d.gopOutput[x]]
              /\ d.gopInput = [x \in DOMAIN d.gopInput |-> d.gopInput[x]]
          <6> HIDE DEF d
          <6> QED
            BY <5>2, MapFacts
        <5>4. [d.gopOutput EXCEPT ![n] = n] = d.gopOutput /\ [d.gopInput EXCEPT ![n] = i] = d.gopInput
          <6> HIDE DEF d, n, i
          <6> QED
            BY <5>1, <5>3
        <5> QED
          <6> HIDE DEF d, n, i
          <6> QED
            BY <1>3, <5>4 DEF StartGop, Contexts
      <4>4. r = Built(d, n, KeyFi(k, t35))
        BY <1>1, <1>3, <2>5, <4>1, <4>2, <4>3 DEF TypeFrame, BuildTyped
      <4>5. r = [ok |-> TRUE, c |-> WithData(c, n, 0, t, KeyFi(0, t35))]
        BY <1>1, <2>5, <4>4 DEF Built, WithData, Grouped
      <4>6. KeyNext(c, r)
        <5>1. 0 \in c.frames /\ 0 <= Named(c) /\ c.nextOutput = 0
          BY <1>1, <2>5, <3>3, <4>1
        <5>2. r.ok /\ r.c = WithData(c, c.nextOutput, 0, t, KeyFi(0, t35))
              /\ t \in SUBSET Nat /\ t35 \in Nat \cup {None}
          BY <1>1, <4>5
        <5> HIDE DEF r, t, t35
        <5> QED
          BY <5>1, <5>2 DEF KeyNext
      <4> QED
        BY <1>7, <4>6
    <3> QED
      BY <3>2, <3>3
  <2>6. CASE n > 0 /\ i < m
    <3>1. a # 0 /\ i \notin d.keyframes
      BY <1>1, <1>3, <2>4, <2>6
    <3>2. r = BuildFrame(d, n, i, t35)
      BY <2>3, <2>6 DEF BuildInGop
    <3>3. CASE i \notin c.frames
      <4>1. r = [ok |-> FALSE, c |-> d]
        BY <1>3, <3>2, <3>3 DEF BuildFrame, NoData
      <4>2. Waits(c)
        BY <2>6, <3>3 DEF Waits
      <4> QED
        BY <1>1, <4>1, <4>2 DEF NothingNext
    <3>4. CASE i \in c.frames
      <4>1. r = TypeFrame(d, n, i, t35)
        BY <1>3, <3>1, <3>2, <3>4 DEF BuildFrame
      <4> DEFINE fi == EntryFi(c.data[Max(PreviousCodedFi(c, n))], EntryAt(Depth, a),
                               OrderHint(Depth, a), a, i, t35)
      <4>2. PreviousCodedFi(d, n) = PreviousCodedFi(c, n)
        BY <1>3 DEF PreviousCodedFi, PreviousFi, IsCoded, Skipped
      <4>3. n - d.gopOutput[n] = a
        BY <1>3 DEF InLast
      <4>4. r = Built(d, n, fi)
        BY <1>3, <3>1, <4>1, <4>2, <4>3 DEF TypeFrame, BuildTyped
      <4>5. r = [ok |-> TRUE, c |-> WithData(c, g, k, t, fi)]
        BY <4>4 DEF Built, WithData
      <4>6. InterNext(c, r)
        <5> HIDE DEF r, t, t35
        <5> QED
          BY <1>1, <2>6, <3>4, <4>5 DEF InterNext
      <4> QED
        BY <1>7, <4>6
    <3> QED
      BY <3>3, <3>4
  <2>7. CASE n > 0 /\ ~(i < m)
    <3>1. ~(a = 0 \/ i < m) /\ i >= m
      BY <1>1, <2>4, <2>7
    <3>5. EndsGop(d, n, a, m) <=> EndsGop(c, n, a, m)
      <4>1. PreviousFi(d, n) = PreviousFi(c, n)
        BY <1>3 DEF PreviousFi, Skipped
      <4> QED
        BY <1>3, <4>1 DEF EndsGop
    <3>6. Ends(c) <=> EndsGop(d, n, a, m)
      BY <3>1, <3>5 DEF Ends
    <3>2. CASE ~EndsGop(d, n, a, m)
      <4>1. r = Built(d, n, Placeholder)
        BY <2>3, <3>1, <3>2 DEF BuildInGop
      <4>2. r = [ok |-> TRUE, c |-> WithData(c, g, k, t, Placeholder)]
        BY <4>1 DEF Built, WithData
      <4>3. SkippedNext(c, r)
        <5>1. Named(c) >= NextKey(c) /\ ~Ends(c)
          BY <3>1, <3>2, <3>6
        <5> HIDE DEF r, t
        <5> QED
          BY <1>1, <2>7, <4>2, <5>1 DEF SkippedNext
      <4> QED
        BY <1>7, <4>3
    <3>3. CASE EndsGop(d, n, a, m) /\ m \notin c.frames
      <4>1. r = [ok |-> FALSE, c |-> d]
        BY <1>3, <2>3, <3>1, <3>3 DEF BuildInGop, NoData
      <4>2. Waits(c)
        BY <2>7, <3>3, <3>6 DEF Waits
      <4> QED
        BY <1>1, <4>1, <4>2 DEF NothingNext
    <3>4. CASE EndsGop(d, n, a, m) /\ m \in c.frames
      <4> DEFINE e == Grouped(c, n, m, t)
      <4>1. r = BuildFrame(StartGop(d, n, m), n, m, t35)
        BY <1>3, <2>3, <3>1, <3>4 DEF BuildInGop
      <4>2. \A x \in Nat : [Insert(c.gopOutput, n, x) EXCEPT ![n] = n] = Insert(c.gopOutput, n, n)
        BY DEF Insert
      <4>3. \A x \in Nat : [Insert(c.gopInput, n, x) EXCEPT ![n] = m] = Insert(c.gopInput, n, m)
        BY DEF Insert
      <4>4. StartGop(d, n, m) = e
        <5>1. /\ d.gopOutput = Insert(c.gopOutput, n, g) /\ d.gopInput = Insert(c.gopInput, n, k)
          BY <1>1, GroupedFacts
        <5>2. /\ [d.gopOutput EXCEPT ![n] = n] = Insert(c.gopOutput, n, n)
              /\ [d.gopInput EXCEPT ![n] = m] = Insert(c.gopInput, n, m)
          BY <1>1, <4>2, <4>3, <5>1
        <5>3. [d EXCEPT !.gopOutput[n] = n, !.gopInput[n] = m] =
                [d EXCEPT !.gopOutput = Insert(c.gopOutput, n, n),
                          !.gopInput = Insert(c.gopInput, n, m)]
          <6> HIDE DEF d, n, m
          <6> QED
            BY <5>2
        <5>4. [d EXCEPT !.gopOutput = Insert(c.gopOutput, n, n),
                        !.gopInput = Insert(c.gopInput, n, m)] = e
          <6> HIDE DEF m, t
          <6> QED
            BY DEF Grouped, Contexts
        <5> QED
          BY <5>3, <5>4 DEF StartGop
      <4>5. StartGop(e, n, m) = e
        <5>1. e.gopOutput = Insert(c.gopOutput, n, n) /\ e.gopInput = Insert(c.gopInput, n, m)
          BY <1>1, <2>4, GroupedFacts
        <5>2. [e.gopOutput EXCEPT ![n] = n] = e.gopOutput /\ [e.gopInput EXCEPT ![n] = m] = e.gopInput
          BY <1>1, <2>4, <4>2, <4>3, <5>1
        <5> HIDE DEF n, m
        <5> QED
          BY <5>2 DEF StartGop, Grouped, Contexts
      <4>6. e.frames = c.frames /\ e.gopOutput[n] = n /\ e.gopInput[n] = m
        BY <1>1, <2>4, GroupedFacts
      <4>7. r = TypeFrame(e, n, m, t35)
        <5> HIDE DEF e, r
        <5> QED
          BY <3>4, <4>1, <4>4, <4>5, <4>6 DEF BuildFrame
      <4>8. r = Built(e, n, KeyFi(m, t35))
        <5>1. n - e.gopOutput[n] = 0
          BY <1>1, <4>6
        <5> HIDE DEF e, r
        <5> QED
          BY <4>6, <4>7, <5>1 DEF TypeFrame, BuildTyped
      <4>9. r = [ok |-> TRUE, c |-> WithData(c, n, m, t, KeyFi(m, t35))]
        BY <4>8 DEF Built, WithData
      <4>10. KeyNext(c, r)
        <5>1. m = NextKey(c) /\ i = Named(c) /\ m <= i /\ m \in c.frames /\ c.nextOutput # 0
              /\ Ends(c)
          BY <1>1, <2>4, <2>7, <3>4, <3>6
        <5>2. t \in SUBSET Nat /\ t35 \in Nat \cup {None} /\ n = c.nextOutput
          BY <1>1
        <5> HIDE DEF r, t, t35, m, i, n
        <5> QED
          BY <4>9, <5>1, <5>2 DEF KeyNext
      <4> QED
        BY <1>7, <4>10
    <3> QED
      BY <3>2, <3>3, <3>4
  <2> QED
    BY <1>1, <2>5, <2>6, <2>7
<1> QED
  BY <1>6, <1>7

----------------------------------------------------------------------------
(* What the next output frame is *)

LEMMA KeyFiFacts ==
  ASSUME NEW k \in Nat, NEW t35 \in Nat \cup {None}
  PROVE  /\ KeyFi(k, t35) \in FrameInvariants
         /\ KeyFi(k, t35).type = "key" /\ KeyFi(k, t35).input = k /\ ~KeyFi(k, t35).sef
         /\ KeyFi(k, t35).show /\ KeyFi(k, t35).refresh = RefSlots
         /\ KeyFi(k, t35).rec = NoRefs /\ KeyFi(k, t35).look = NoRefs
<1>1. NoRefs \in Slots
  BY DEF NoRefs, NoRef, Ref, Slots, RefType
<1>2. <<>> \in Seq(RefSlots) /\ 0 \in RefSlots
  BY DEF RefSlots
<1> QED
  BY <1>1, <1>2 DEF KeyFi, FrameInvariants

LEMMA EntryFiFacts ==
  ASSUME setup \in Setups, NEW prev \in FrameInvariants, NEW a \in Nat \ {0}, NEW i \in Nat,
         NEW t35 \in Nat \cup {None}
  PROVE  LET fi == EntryFi(prev, EntryAt(Depth, a), OrderHint(Depth, a), a, i, t35)
         IN /\ fi \in FrameInvariants /\ fi.type # "key" /\ fi.input = i
            /\ fi.sef = EntryAt(Depth, a).sef /\ fi.show = EntryAt(Depth, a).shown
            /\ fi.rec = prev.rec /\ (~fi.sef => fi.look = prev.look)
<1> DEFINE e == EntryAt(Depth, a)
           hint == OrderHint(Depth, a)
           slot == SlotIdx(Depth, e.level, hint)
           switch == Switches(a, e)
           refs == RefFrames(Depth, e.level, hint, slot, Multiref)
<1>1. Depth \in Depths /\ Multiref \in BOOLEAN
  BY SetupFacts
<1>2. /\ e.level \in 0 .. Depth /\ e.shown \in BOOLEAN /\ e.sef \in BOOLEAN
      /\ hint \in Nat
  BY <1>1, EntryFacts, HintFacts
<1>3. slot \in RefSlots
  BY <1>1, <1>2, SlotFacts
<1>4. refs \in Seq(RefSlots)
  <2> HIDE DEF hint, slot, e
  <2> QED
    BY <1>1, <1>2, <1>3, RefFramesFacts
<1>5. prev.rec \in Slots /\ prev.look \in Slots /\ NoRefs \in Slots
  BY FiFacts DEF NoRefs, NoRef, Ref, Slots, RefType
<1>6. e.level \in Nat
  BY <1>1, <1>2 DEF Depths
<1>7. EntryFi(prev, e, hint, a, i, t35) =
        [type |-> IF switch THEN "switch" ELSE "inter",
         input |-> i, sef |-> e.sef, show |-> e.shown, hint |-> hint, level |-> e.level,
         slot |-> slot, refs |-> refs,
         refresh |-> IF switch THEN RefSlots ELSE IF e.sef THEN {} ELSE {slot},
         rec |-> prev.rec, look |-> IF e.sef THEN NoRefs ELSE prev.look,
         t35 |-> IF e.shown THEN t35 ELSE None]
  BY DEF EntryFi, InterFi
<1> HIDE DEF e, hint, slot, switch, refs
<1>8. {slot} \subseteq RefSlots
  BY <1>3
<1>9. EntryFi(prev, e, hint, a, i, t35) \in FrameInvariants
  BY <1>2, <1>3, <1>4, <1>5, <1>6, <1>7, <1>8 DEF FrameInvariants
<1> QED
  BY <1>2, <1>7, <1>9 DEF e, hint

\* The look-ahead's part in it.
Looked(c, v) ==
  IF v = Placeholder \/ v.sef THEN v
  ELSE [v EXCEPT !.look = [i \in RefSlots |-> IF i \in v.refresh THEN Ref(c.nextOutput, TRUE)
                                             ELSE v.look[i]],
                 !.rec = IF c.output = c.nextOutput THEN v.rec ELSE v.look]

LEMMA LookedFacts ==
  ASSUME NEW c \in Contexts, NEW v \in FrameInvariants
  PROVE  LET w == Looked(c, v)
         IN /\ w \in FrameInvariants
            /\ w.type = v.type /\ w.input = v.input /\ w.sef = v.sef /\ w.show = v.show
            /\ w.refresh = v.refresh /\ w.slot = v.slot
            /\ v.sef => w = v
            /\ ~v.sef => /\ w.rec = IF c.output = c.nextOutput THEN v.rec ELSE v.look
                         /\ \A i \in RefSlots : w.look[i] = IF i \in v.refresh
                                THEN Ref(c.nextOutput, TRUE) ELSE v.look[i]
<1> DEFINE look == [i \in RefSlots |-> IF i \in v.refresh THEN Ref(c.nextOutput, TRUE)
                                             ELSE v.look[i]]
           rec == IF c.output = c.nextOutput THEN v.rec ELSE v.look
<1>1. /\ v.look \in Slots /\ v.rec \in Slots /\ v # Placeholder /\ v.sef \in BOOLEAN
      /\ c.nextOutput \in Nat
  BY FiFacts, CtxFacts
<1>2. look \in Slots
  BY <1>1 DEF Slots, RefType, Ref
<1>3. rec \in Slots
  BY <1>1
<1>4. Looked(c, v) = IF v.sef THEN v ELSE [v EXCEPT !.look = look, !.rec = rec]
  BY <1>1 DEF Looked
<1>5. \A i \in RefSlots : look[i] = IF i \in v.refresh THEN Ref(c.nextOutput, TRUE) ELSE v.look[i]
  OBVIOUS
<1> HIDE DEF look, rec
<1>6. CASE v.sef
  BY <1>4, <1>6
<1>7. CASE ~v.sef
  <2>1. Looked(c, v) = [v EXCEPT !.look = look, !.rec = rec]
    BY <1>4, <1>7
  <2>2. [v EXCEPT !.look = look, !.rec = rec] \in FrameInvariants
    BY <1>2, <1>3 DEF FrameInvariants
  <2>3. Looked(c, v).rec = rec /\ Looked(c, v).look = look
    BY <2>1 DEF FrameInvariants
  <2>4. /\ Looked(c, v).type = v.type /\ Looked(c, v).input = v.input /\ Looked(c, v).sef = v.sef
        /\ Looked(c, v).show = v.show /\ Looked(c, v).refresh = v.refresh
        /\ Looked(c, v).slot = v.slot
    BY <2>1 DEF FrameInvariants
  <2> QED
    BY <1>5, <1>7, <2>1, <2>2, <2>3, <2>4 DEF rec
<1> QED
  BY <1>1, <1>6, <1>7

\* Context e has one output frame more than c, with data v, in the group that
\* starts with g and k.
Adds(c, e, g, k, v) ==
  /\ e \in Contexts /\ g \in Nat /\ k \in Nat /\ v \in FrameInvariants \cup {Placeholder}
  /\ e.count = c.count /\ e.limit = c.limit /\ e.output = c.output
  /\ e.processed = c.processed /\ e.frames = c.frames /\ e.end = c.end
  /\ e.keyframes = c.keyframes /\ e.forced = c.forced /\ e.nextFrame = c.nextFrame
  /\ e.nextOutput = c.nextOutput + 1 /\ e.opaque = c.opaque
  /\ e.data = Insert(c.data, c.nextOutput, v)
  /\ e.gopOutput = Insert(c.gopOutput, c.nextOutput, g)
  /\ e.gopInput = Insert(c.gopInput, c.nextOutput, k)

LEMMA ScheduleFacts ==
  ASSUME NEW c \in Contexts, NEW g \in Nat, NEW k \in Nat, NEW t \in SUBSET Nat,
         NEW v \in FrameInvariants \cup {Placeholder}
  PROVE  Adds(c, [LookAhead(WithData(c, g, k, t, v), c.nextOutput) EXCEPT
                    !.nextOutput = c.nextOutput + 1], g, k, Looked(c, v))
<1> DEFINE n == c.nextOutput
           d == WithData(c, g, k, t, v)
           w == Looked(c, v)
           e == [LookAhead(d, n) EXCEPT !.nextOutput = n + 1]
<1>1. /\ d \in Contexts /\ d.count = c.count /\ d.limit = c.limit /\ d.output = c.output
      /\ d.processed = c.processed /\ d.frames = c.frames /\ d.end = c.end
      /\ d.data = Insert(c.data, c.nextOutput, v)
      /\ d.keyframes = c.keyframes /\ d.forced = c.forced /\ d.opaque = c.opaque
      /\ d.nextFrame = c.nextFrame /\ d.nextOutput = c.nextOutput
      /\ d.gopOutput = Insert(c.gopOutput, c.nextOutput, g)
      /\ d.gopInput = Insert(c.gopInput, c.nextOutput, k)
  BY WithDataFacts
<1>2. n \in Nat /\ c.data \in Maps(FrameInvariants \cup {Placeholder})
  BY CtxFacts
<1>3. w \in FrameInvariants \cup {Placeholder}
  <2>1. CASE v = Placeholder
    BY <2>1 DEF Looked
  <2>2. CASE v \in FrameInvariants
    BY <2>2, LookedFacts
  <2> QED
    BY <2>1, <2>2
<1>4. d.data[n] = v
  BY <1>1 DEF Insert
<1>5. Insert(c.data, n, w) \in Maps(FrameInvariants \cup {Placeholder})
  <2> HIDE DEF w
  <2> QED
    BY <1>2, <1>3, InsertFacts
<1>6. LookAhead(d, n) = [d EXCEPT !.data = Insert(c.data, n, w)]
  <2>1. CASE ~IsCoded(d, n)
    <3>1. v = Placeholder \/ v.sef
      BY <1>4, <2>1, FiFacts DEF IsCoded, Skipped
    <3>2. w = v
      BY <3>1 DEF Looked
    <3>3. LookAhead(d, n) = d
      BY <2>1 DEF LookAhead
    <3>4. [d EXCEPT !.data = Insert(c.data, n, v)] = d
      <4> HIDE DEF d, n
      <4>1. d.data = Insert(c.data, n, v)
        BY <1>1 DEF n
      <4> QED
        BY <1>1, <4>1 DEF Contexts
    <3> QED
      BY <3>2, <3>3, <3>4
  <2>2. CASE IsCoded(d, n)
    <3>1. v \in FrameInvariants /\ ~v.sef
      BY <1>4, <2>2 DEF IsCoded, Skipped, Placeholder
    <3> DEFINE look == [i \in RefSlots |-> IF i \in v.refresh THEN Ref(n, TRUE) ELSE v.look[i]]
               rec == IF c.output = n THEN v.rec ELSE v.look
    <3>2. LookAhead(d, n) = [d EXCEPT !.data[n].look = look, !.data[n].rec = rec]
      BY <1>1, <1>4, <2>2 DEF LookAhead
    <3>3. w = [v EXCEPT !.look = look, !.rec = rec]
      BY <3>1, FiFacts DEF Looked
    <3> HIDE DEF look, rec, w
    <3>4. [d.data EXCEPT ![n].look = look, ![n].rec = rec] = [d.data EXCEPT ![n] = w]
      <4>1. n \in DOMAIN d.data
        BY <1>1 DEF Insert
      <4> HIDE DEF d, n
      <4> QED
        BY <1>4, <3>3, <4>1
    <3>5. [d.data EXCEPT ![n] = w] = Insert(c.data, n, w)
      BY <1>1 DEF Insert
    <3>6. [d EXCEPT !.data[n].look = look, !.data[n].rec = rec] =
            [d EXCEPT !.data = [d.data EXCEPT ![n].look = look, ![n].rec = rec]]
      <4> HIDE DEF d, n
      <4> QED
        BY <1>1 DEF Contexts
    <3> QED
      BY <3>2, <3>4, <3>5, <3>6
  <2> QED
    BY <2>1, <2>2
<1>7. e = [d EXCEPT !.data = Insert(c.data, n, w), !.nextOutput = n + 1]
  <2> HIDE DEF d, w, n
  <2> QED
    BY <1>1, <1>6 DEF Contexts
<1>8. e \in Contexts
  <2>1. n + 1 \in Nat
    BY <1>2
  <2> HIDE DEF d, w, n, e
  <2> QED
    BY <1>1, <1>5, <1>7, <2>1 DEF Contexts
<1>9. /\ e.data = Insert(c.data, n, w) /\ e.nextOutput = n + 1
      /\ e.count = d.count /\ e.limit = d.limit /\ e.output = d.output
      /\ e.processed = d.processed /\ e.frames = d.frames /\ e.end = d.end
      /\ e.keyframes = d.keyframes /\ e.forced = d.forced
      /\ e.nextFrame = d.nextFrame /\ e.opaque = d.opaque
      /\ e.gopOutput = d.gopOutput /\ e.gopInput = d.gopInput
  <2> HIDE DEF d, w, n, e
  <2> QED
    BY <1>1, <1>7 DEF Contexts
<1> HIDE DEF e, d, w
<1> QED
  BY <1>1, <1>3, <1>8, <1>9 DEF Adds, e, d, w
----------------------------------------------------------------------------
(* One more output frame *)

\* The look-ahead of a frame is there when it is full, or after the end.
LEMMA LookaheadFacts ==
  ASSUME setup \in Setups, NEW c \in Contexts, QueueOK(c), c.count > 0 \/ c.end,
         NEW i \in Nat, ~NeedsMoreFrameQLookahead(c, i)
  PROVE  c.end \/ i + Distance + 1 < c.count
<1> SUFFICES ASSUME ~c.end
             PROVE  i + Distance + 1 < c.count
  OBVIOUS
<1> DEFINE S == {0} \cup c.frames \cup (IF c.end THEN {c.count} ELSE {})
<1>1. c.count \in Nat /\ c.limit \in Nat \cup {None} /\ c.count > 0 /\ Distance \in Nat
  BY CtxFacts, SetupFacts
<1>2. c.frames \subseteq 0 .. c.count - 1 /\ (c.limit # None => c.count <= c.limit)
  BY DEF QueueOK
<1>3. S \subseteq 0 .. c.count - 1 /\ S # {} /\ c.count - 1 \in Nat
  BY <1>1, <1>2
<1>4. Max(S) \in S
  <2> HIDE DEF S
  <2> QED
    BY <1>3, MaxFacts
<1>5. LookaheadEnd(c) = Max(S)
  BY DEF LookaheadEnd
<1>6. LookaheadEnd(c) \in 0 .. c.count - 1
  BY <1>3, <1>4, <1>5
<1>7. ~(LookaheadEnd(c) < i + Distance + 1)
  BY <1>1, <1>2, <1>6 DEF NeedsMoreFrameQLookahead, NeedsMoreFrames, Distance, None
<1> QED
  BY <1>1, <1>6, <1>7

LEMMA AddsFacts ==
  ASSUME NEW c \in Contexts, DataOK(c), NEW e, NEW g, NEW k, NEW v, Adds(c, e, g, k, v)
  PROVE  /\ DOMAIN e.data = DOMAIN c.data \cup {c.nextOutput}
         /\ c.nextOutput \notin DOMAIN c.data
         /\ \A m \in DOMAIN c.data : m < c.nextOutput /\ e.data[m] = c.data[m]
         /\ e.data[c.nextOutput] = v
         /\ Live(e) = IF v = Placeholder THEN Live(c) ELSE Live(c) \cup {c.nextOutput}
         /\ Pending(e) = IF v = Placeholder THEN Pending(c) ELSE Pending(c) \cup {c.nextOutput}
         /\ DOMAIN e.gopOutput = DOMAIN c.gopOutput \cup {c.nextOutput}
         /\ DOMAIN e.gopInput = DOMAIN c.gopInput \cup {c.nextOutput}
         /\ e.gopOutput[c.nextOutput] = g /\ e.gopInput[c.nextOutput] = k
<1> DEFINE n == c.nextOutput
<1>1. /\ n \in Nat /\ DOMAIN c.data \subseteq 0 .. n - 1 /\ e \in Contexts
      /\ v \in FrameInvariants \cup {Placeholder} /\ c.output \in Nat /\ c.output <= n
  BY CtxFacts DEF DataOK, Adds
<1>2. e.data = Insert(c.data, n, v) /\ e.output = c.output
  BY DEF Adds
<1>3. /\ DOMAIN e.data = DOMAIN c.data \cup {n} /\ e.data[n] = v
      /\ \A m \in DOMAIN c.data : m # n => e.data[m] = c.data[m]
  BY <1>2 DEF Insert
<1>4. n \notin DOMAIN c.data /\ \A m \in DOMAIN c.data : m < n /\ e.data[m] = c.data[m]
  BY <1>1, <1>3
<1>5. \A m \in DOMAIN c.data : m \in Live(e) <=> m \in Live(c)
  BY <1>1, <1>3, <1>4, LiveFacts
<1>6. n \in Live(e) <=> v # Placeholder
  BY <1>1, <1>3, LiveFacts
<1>7. Live(e) \subseteq DOMAIN e.data /\ Live(c) \subseteq DOMAIN c.data
  BY DEF Live
<1>8. Live(e) = IF v = Placeholder THEN Live(c) ELSE Live(c) \cup {n}
  BY <1>3, <1>5, <1>6, <1>7
<1>9. Pending(e) = IF v = Placeholder THEN Pending(c) ELSE Pending(c) \cup {n}
  BY <1>1, <1>2, <1>8, LiveFacts
<1>10. /\ DOMAIN e.gopOutput = DOMAIN c.gopOutput \cup {n}
       /\ DOMAIN e.gopInput = DOMAIN c.gopInput \cup {n}
       /\ e.gopOutput[n] = g /\ e.gopInput[n] = k
  BY DEF Adds, Insert
<1> QED
  BY <1>3, <1>4, <1>8, <1>9, <1>10

\* What the next frame has to be like, with v in the group of g and k.
NewOK(c, g, k, v) ==
  LET n == c.nextOutput
  IN /\ v \in FrameInvariants
     /\ v.input \in c.frames /\ v.input < c.nextFrame
     /\ \/ n = g /\ v.input = k /\ v.show
        \/ /\ n > g /\ v.input = k + OrderHint(Depth, n - g)
           /\ v.show = EntryAt(Depth, n - g).shown
           /\ v.input < k + setup.maxKey
           /\ \A i \in c.keyframes : i > k => i > v.input
     /\ \A m \in Live(c) : c.data[m].show => c.data[m].input < v.input
     /\ v.type = "key" => v.refresh = RefSlots /\ ~v.sef /\ v.show
     /\ v.sef => v.show
     /\ \A i \in RefSlots :
          /\ RefOK(c, n, v.rec[i]) /\ v.rec[i].output < n
          /\ v.look[i].output = n \/ RefOK(c, n, v.look[i])
          /\ v.sef => v.look[i].output # n
          /\ ~v.sef => v.look[i].output # None
          /\ ~v.sef /\ v.type # "key" => v.rec[i].output # None

\* Then the context with it is in order, too.
LEMMA AddsOK ==
  ASSUME setup \in Setups, NEW c, CtxOK(c), NEW e, NEW g, NEW k, NEW v, Adds(c, e, g, k, v),
         v = Placeholder \/ NewOK(c, g, k, v),
         g <= c.nextOutput, \A m \in Live(c) : InGroup(c, m, g, k),
         ~c.end => Distance + 1 < c.count
  PROVE  CtxOK(e)
<1> DEFINE n == c.nextOutput
<1>1. /\ c \in Contexts /\ QueueOK(c) /\ DataOK(c) /\ OrderOK(c) /\ RefsOK(c)
      /\ ProcessedOK(c) /\ SourceThere(c)
  BY DEF CtxOK
<1>2. /\ e \in Contexts /\ g \in Nat /\ k \in Nat /\ v \in FrameInvariants \cup {Placeholder}
      /\ e.count = c.count /\ e.limit = c.limit /\ e.output = c.output
      /\ e.processed = c.processed /\ e.frames = c.frames /\ e.end = c.end
      /\ e.keyframes = c.keyframes /\ e.forced = c.forced /\ e.nextFrame = c.nextFrame
      /\ e.nextOutput = n + 1
  BY DEF Adds
<1>3. /\ DOMAIN e.data = DOMAIN c.data \cup {n} /\ n \notin DOMAIN c.data
      /\ \A m \in DOMAIN c.data : m < n /\ e.data[m] = c.data[m]
      /\ e.data[n] = v
      /\ Live(e) = IF v = Placeholder THEN Live(c) ELSE Live(c) \cup {n}
      /\ Pending(e) = IF v = Placeholder THEN Pending(c) ELSE Pending(c) \cup {n}
      /\ DOMAIN e.gopOutput = DOMAIN c.gopOutput \cup {n}
      /\ DOMAIN e.gopInput = DOMAIN c.gopInput \cup {n}
      /\ e.gopOutput[n] = g /\ e.gopInput[n] = k
  BY <1>1, AddsFacts
<1>4. /\ n \in Nat /\ c.output \in Nat /\ c.nextFrame \in Nat /\ c.count \in Nat
      /\ Live(c) \subseteq DOMAIN c.data /\ Pending(c) \subseteq Live(c)
      /\ DOMAIN c.data \subseteq Nat
  BY <1>1, CtxFacts, LiveFacts
<1>5. v # Placeholder => NewOK(c, g, k, v)
  OBVIOUS
<1>6. \A m \in Live(c) : m \in Live(e) /\ m < n /\ e.data[m] = c.data[m] /\ m \in DOMAIN c.data
  BY <1>3, <1>4
<1>7. \A m \in Live(e) : m \in Live(c) \/ (m = n /\ v # Placeholder)
  BY <1>3
<1>8. \A m \in DOMAIN c.data : IsCoded(e, m) <=> IsCoded(c, m)
  BY <1>3 DEF IsCoded, Skipped
<1> HIDE DEF n
<1>9. QueueOK(e)
  BY <1>1, <1>2 DEF QueueOK
<1>10. DataOK(e)
  <2>1. DOMAIN e.data \subseteq 0 .. e.nextOutput - 1
    BY <1>1, <1>2, <1>3, <1>4 DEF DataOK, n
  <2>2. DOMAIN e.gopInput = DOMAIN e.gopOutput /\ DOMAIN e.data \subseteq DOMAIN e.gopOutput
    BY <1>1, <1>3 DEF DataOK
  <2>3. DOMAIN e.gopOutput \subseteq 0 .. e.nextOutput
    BY <1>1, <1>2, <1>3, <1>4 DEF DataOK, n
  <2>4. e.output <= e.nextOutput
    BY <1>1, <1>2, <1>4 DEF DataOK, n
  <2>5. \A m \in 0 .. e.nextOutput - 1 : m + 1 >= e.output => m \in DOMAIN e.data
    <3> SUFFICES ASSUME NEW m \in 0 .. n, m + 1 >= c.output
                 PROVE  m \in DOMAIN e.data
      BY <1>2, <1>4
    <3>1. CASE m = n
      BY <1>3, <3>1
    <3>2. CASE m # n
      BY <1>1, <1>3, <1>4, <3>2 DEF DataOK, n
    <3> QED
      BY <3>1, <3>2
  <2>6. \A m \in Live(e) : e.data[m].input < e.nextFrame /\ e.data[m].input < e.count
    <3> SUFFICES ASSUME NEW m \in Live(e)
                 PROVE  e.data[m].input < c.nextFrame /\ e.data[m].input < c.count
      BY <1>2
    <3>1. CASE m \in Live(c)
      BY <1>1, <1>6, <3>1 DEF DataOK
    <3>2. CASE m = n /\ v # Placeholder
      <4>1. v.input \in c.frames /\ v.input < c.nextFrame
        BY <1>5, <3>2 DEF NewOK
      <4>2. v.input < c.count
        BY <1>1, <1>4, <4>1 DEF QueueOK
      <4> QED
        BY <1>3, <3>2, <4>1, <4>2
    <3> QED
      BY <1>7, <3>1, <3>2
  <2>7. e.nextOutput > 0 /\ ~e.end => Distance + 1 < e.count
    BY <1>2
  <2> QED
    BY <2>1, <2>2, <2>3, <2>4, <2>5, <2>6, <2>7 DEF DataOK
<1>11. GroupOK(e)
  <2>1. e.nextOutput - 1 = n /\ g < e.nextOutput
    BY <1>2, <1>4 DEF n
  <2>2. ASSUME NEW m \in Live(e)
        PROVE  InGroup(e, m, g, k)
    <3>1. CASE m \in Live(c)
      <4>1. InGroup(c, m, g, k) /\ e.data[m] = c.data[m] /\ e.keyframes = c.keyframes
        BY <1>2, <1>6, <3>1
      <4> QED
        BY <4>1 DEF InGroup
    <3>2. CASE m = n /\ v # Placeholder
      <4>1. NewOK(c, g, k, v) /\ e.data[n] = v /\ e.keyframes = c.keyframes
        BY <1>2, <1>3, <1>5, <3>2
      <4> QED
        BY <3>2, <4>1 DEF InGroup, NewOK, n
    <3> QED
      BY <1>7, <2>2, <3>1, <3>2
  <2> QED
    BY <1>3, <2>1, <2>2 DEF GroupOK
<1>12. OrderOK(e)
  <2> SUFFICES ASSUME NEW a \in Live(e), NEW b \in Live(e), a < b, e.data[a].show
               PROVE  e.data[a].input < e.data[b].input
    BY DEF OrderOK
  <2>1. CASE a \in Live(c) /\ b \in Live(c)
    BY <1>1, <1>6, <2>1 DEF OrderOK
  <2>2. CASE a \in Live(c) /\ b = n /\ v # Placeholder
    <3>1. c.data[a].show => c.data[a].input < v.input
      BY <1>5, <2>2 DEF NewOK
    <3> QED
      BY <1>3, <1>6, <2>2, <3>1
  <2>3. a = n => b \in Live(c) \/ b = n
    BY <1>7
  <2>4. a \in Nat /\ b \in Nat /\ (b \in Live(c) => b < n)
    BY <1>3, <1>4, <1>6, <1>7
  <2> QED
    BY <1>4, <1>7, <2>1, <2>2, <2>3, <2>4 DEF n
<1>13. RefsOK(e)
  <2> SUFFICES ASSUME NEW m \in Live(e)
               PROVE  LET fi == e.data[m]
                      IN /\ fi.type = "key" => fi.refresh = RefSlots /\ ~fi.sef /\ fi.show
                         /\ fi.sef => fi.show
                         /\ \A i \in RefSlots :
                              /\ RefOK(e, m, fi.rec[i]) /\ RefOK(e, m, fi.look[i])
                              /\ m >= e.output => fi.rec[i].output < m
                              /\ ~fi.sef => fi.look[i].output # None
                              /\ ~fi.sef /\ (fi.type # "key" \/ m < e.output)
                                   => fi.rec[i].output # None
    BY DEF RefsOK
  <2>1. CASE m \in Live(c)
    <3>1. e.data[m] = c.data[m] /\ m < n /\ m \in Nat
      BY <1>4, <1>6, <2>1
    <3>2. ASSUME NEW ref, RefOK(c, m, ref)
          PROVE  RefOK(e, m, ref)
      <4>1. ref.output \in DOMAIN e.data => ref.output \in DOMAIN c.data
        BY <1>3, <1>4, <3>1, <3>2 DEF RefOK, n, None
      <4> QED
        BY <1>8, <3>2, <4>1 DEF RefOK
    <3> QED
      BY <1>1, <1>2, <2>1, <3>1, <3>2 DEF RefsOK
  <2>2. CASE m = n /\ v # Placeholder
    <3>1. NewOK(c, g, k, v) /\ e.data[m] = v /\ c.output <= n
      BY <1>1, <1>3, <1>5, <2>2 DEF DataOK, n
    <3>2. IsCoded(e, n) <=> ~v.sef
      BY <1>3, <2>2, <3>1, FiFacts DEF IsCoded, Skipped, NewOK
    <3>3. ASSUME NEW ref, RefOK(c, n, ref), ref.output # n
          PROVE  RefOK(e, n, ref)
      <4>1. ref.output \in DOMAIN e.data => ref.output \in DOMAIN c.data
        BY <1>3, <3>3
      <4> QED
        BY <1>8, <3>3, <4>1 DEF RefOK
    <3>4. ASSUME NEW ref, ref.output = n, ~v.sef
          PROVE  RefOK(e, n, ref)
      BY <1>4, <3>2, <3>4 DEF RefOK, n
    <3>5. ASSUME NEW i \in RefSlots
          PROVE  /\ RefOK(e, n, v.rec[i]) /\ RefOK(e, n, v.look[i])
                 /\ v.rec[i].output < n
                 /\ ~v.sef => v.look[i].output # None
                 /\ ~v.sef /\ v.type # "key" => v.rec[i].output # None
      <4>1. /\ RefOK(c, n, v.rec[i]) /\ v.rec[i].output < n
            /\ v.look[i].output = n \/ RefOK(c, n, v.look[i])
            /\ v.sef => v.look[i].output # n
            /\ ~v.sef => v.look[i].output # None
            /\ ~v.sef /\ v.type # "key" => v.rec[i].output # None
        BY <3>1 DEF NewOK, n
      <4>2. v.rec[i].output # n
        BY <1>4, <4>1 DEF n
      <4> QED
        BY <3>3, <3>4, <4>1, <4>2
    <3>6. ~(n < e.output)
      BY <1>2, <1>4, <3>1 DEF n
    <3>7. /\ v.type = "key" => v.refresh = RefSlots /\ ~v.sef /\ v.show
          /\ v.sef => v.show
      BY <3>1 DEF NewOK
    <3> QED
      BY <2>2, <3>1, <3>5, <3>6, <3>7
  <2> QED
    BY <1>7, <2>1, <2>2
<1>14. ProcessedOK(e)
  BY <1>1, <1>2, <1>6 DEF ProcessedOK
<1>15. SourceThere(e)
  <2> SUFFICES ASSUME NEW m \in Pending(e), IsCoded(e, m)
               PROVE  e.data[m].input \in c.frames
    BY <1>2 DEF SourceThere
  <2>1. CASE m \in Pending(c)
    BY <1>1, <1>4, <1>6, <1>8, <2>1 DEF SourceThere
  <2>2. CASE m = n /\ v # Placeholder
    BY <1>3, <1>5, <2>2 DEF NewOK
  <2> QED
    BY <1>3, <2>1, <2>2
<1> QED
  BY <1>2, <1>9, <1>10, <1>11, <1>12, <1>13, <1>14, <1>15 DEF CtxOK

\* What the loop of compute_frame_invariants keeps.
LoopOK(c) == CtxOK(c) /\ CodedAhead(c) /\ (c.count > 0 \/ c.end)

LEMMA StartsOK ==
  ASSUME NEW c, CtxOK(c)
  PROVE  /\ Starts(c)
         /\ c.nextOutput > 0 => /\ LastOutput(c) < c.nextOutput
                                /\ \A m \in Live(c) : InGroup(c, m, LastOutput(c), LastInput(c))
<1>1. /\ c \in Contexts /\ c.nextOutput \in Nat /\ c.output \in Nat
      /\ QueueOK(c) /\ DataOK(c) /\ GroupOK(c)
  BY CtxFacts DEF CtxOK
<1>2. ASSUME c.nextOutput > 0
      PROVE  c.nextOutput - 1 \in DOMAIN c.gopOutput /\ c.nextOutput - 1 \in DOMAIN c.gopInput
  <2>1. c.nextOutput - 1 \in DOMAIN c.data
    BY <1>1, <1>2 DEF DataOK
  <2> QED
    BY <1>1, <2>1 DEF DataOK
<1>3. ASSUME c.nextOutput > 0
      PROVE  /\ LastOutput(c) < c.nextOutput
             /\ \A m \in Live(c) : InGroup(c, m, LastOutput(c), LastInput(c))
  <2>1. LastOutput(c) = c.gopOutput[c.nextOutput - 1] /\ LastInput(c) = c.gopInput[c.nextOutput - 1]
    BY <1>1, <1>3 DEF LastOutput, LastInput
  <2> QED
    BY <1>1, <1>3, <2>1 DEF GroupOK
<1> QED
  BY <1>1, <1>2, <1>3 DEF Starts, QueueOK

\* The frame coded before.
LEMMA PreviousFacts ==
  ASSUME NEW c, CtxOK(c), CodedAhead(c), c.nextOutput > 0
  PROVE  LET p == Max(PreviousCodedFi(c, c.nextOutput))
         IN /\ p \in Live(c) /\ p \in Nat /\ p < c.nextOutput /\ ~c.data[p].sef
            /\ c.output < c.nextOutput /\ c.data[p] \in FrameInvariants
            /\ c.count > 0
<1> DEFINE n == c.nextOutput
           S == PreviousCodedFi(c, n)
<1>1. c \in Contexts /\ n \in Nat /\ c.output \in Nat /\ DataOK(c) /\ c.count \in Nat
  BY CtxFacts DEF CtxOK
<1>2. /\ Live(c) \subseteq DOMAIN c.data /\ DOMAIN c.data \subseteq 0 .. n - 1
      /\ \A m \in Live(c) : c.data[m] \in FrameInvariants
      /\ Pending(c) = {m \in Live(c) : m >= c.output}
  BY <1>1, LiveFacts DEF DataOK
<1>3. S = {m \in Live(c) : m < n /\ ~c.data[m].sef}
  BY DEF PreviousCodedFi, PreviousFi, Live, IsCoded
<1>4. PICK q \in Pending(c) : IsCoded(c, q)
  BY DEF CodedAhead
<1>5. q \in Live(c) /\ q < n /\ ~c.data[q].sef /\ q >= c.output /\ q \in Nat
  BY <1>1, <1>2, <1>4 DEF IsCoded
<1>6. c.data[q].input < c.count /\ c.data[q].input \in Nat
  BY <1>1, <1>2, <1>5, FiFacts DEF DataOK
<1>7. S \subseteq 0 .. n - 1 /\ S # {} /\ n - 1 \in Nat
  BY <1>1, <1>2, <1>3, <1>5
<1>8. Max(S) \in S
  <2> HIDE DEF S, n
  <2> QED
    BY <1>7, MaxFacts
<1>9. /\ Max(S) \in Live(c) /\ Max(S) < n /\ ~c.data[Max(S)].sef
  BY <1>3, <1>8
<1>10. Max(S) \in Nat /\ c.data[Max(S)] \in FrameInvariants
  BY <1>2, <1>7, <1>8, <1>9
<1>11. c.output < n /\ c.count > 0
  BY <1>1, <1>5, <1>6
<1> QED
  BY <1>9, <1>10, <1>11

LEMMA KeyOK ==
  ASSUME setup \in Setups, NEW c, LoopOK(c), NEW k \in c.frames, NEW t35 \in Nat \cup {None},
         k <= Named(c), IF c.nextOutput = 0 THEN k = 0 ELSE k = NextKey(c),
         c.end \/ Named(c) + Distance + 1 < c.count
  PROVE  /\ NewOK(c, c.nextOutput, k, Looked(c, KeyFi(k, t35)))
         /\ \A m \in Live(c) : InGroup(c, m, c.nextOutput, k)
         /\ ~c.end => Distance + 1 < c.count
         /\ ~Looked(c, KeyFi(k, t35)).sef
<1> DEFINE n == c.nextOutput
           g == LastOutput(c)
           h == LastInput(c)
           w == Looked(c, KeyFi(k, t35))
<1>1. /\ c \in Contexts /\ CtxOK(c) /\ QueueOK(c) /\ DataOK(c) /\ Starts(c)
      /\ n \in Nat /\ c.nextFrame \in Nat /\ c.count \in Nat /\ c.limit \in Nat \cup {None}
      /\ k \in Nat /\ Distance \in Nat /\ setup.maxKey \in Nat \ {0} /\ c.keyframes \subseteq Nat
  BY CtxFacts, StartsOK, SetupFacts DEF LoopOK, CtxOK
<1>2. k < c.count /\ k \in 0 .. c.count - 1
  BY <1>1 DEF QueueOK
<1>3. h \in Nat /\ g \in Nat /\ Named(c) \in Nat
  BY <1>1, StartsFacts
<1>4. ~c.end => Distance + 1 < c.count /\ k + Distance + 1 < c.count
  BY <1>1, <1>3
<1>5. k < c.nextFrame
  BY <1>1, <1>2, <1>4 DEF QueueOK
<1>6. \A m \in Live(c) : c.data[m].input \in Nat /\ m < n
  BY <1>1, LiveFacts, FiFacts DEF DataOK
<1>7. ASSUME NEW m \in Live(c)
      PROVE  c.data[m].input < k
  <2> DEFINE x == c.data[m].input
  <2>1. n > 0 /\ k = NextKey(c)
    BY <1>1, <1>6, LiveFacts
  <2>2. InGroup(c, m, g, h)
    BY <1>1, <2>1, StartsOK
  <2>3. /\ k <= h + setup.maxKey
        /\ (c.limit # None => k <= c.limit)
        /\ \/ k > h /\ k \in c.keyframes
           \/ k = h + setup.maxKey
           \/ k = c.limit
    BY <1>1, <1>3, <2>1, NextKeyFacts DEF NextKey
  <2>4. k # c.limit
    BY <1>1, <1>2 DEF QueueOK, None
  <2>5. k > h
    BY <1>1, <1>3, <2>3, <2>4
  <2>6. \/ x < h
        \/ x = h
        \/ x < h + setup.maxKey /\ \A i \in c.keyframes : i > h => i > x
    BY <2>2 DEF InGroup
  <2>7. x \in Nat
    BY <1>6
  <2> HIDE DEF x, h
  <2>8. x < k
    BY <1>1, <1>3, <2>3, <2>4, <2>5, <2>6, <2>7
  <2> QED
    BY <2>8 DEF x
<1>8. /\ KeyFi(k, t35) \in FrameInvariants /\ w \in FrameInvariants
      /\ w.type = "key" /\ w.input = k /\ ~w.sef /\ w.show /\ w.refresh = RefSlots
      /\ w.rec = NoRefs /\ \A i \in RefSlots : w.look[i] = Ref(n, TRUE)
  <2> DEFINE v == KeyFi(k, t35)
  <2>1. /\ v \in FrameInvariants /\ v.type = "key" /\ v.input = k /\ ~v.sef /\ v.show
        /\ v.refresh = RefSlots /\ v.rec = NoRefs /\ v.look = NoRefs
    BY <1>1, KeyFiFacts
  <2> HIDE DEF v
  <2>2. /\ Looked(c, v) \in FrameInvariants
        /\ Looked(c, v).type = v.type /\ Looked(c, v).input = v.input
        /\ Looked(c, v).sef = v.sef /\ Looked(c, v).show = v.show
        /\ Looked(c, v).refresh = v.refresh
        /\ Looked(c, v).rec = NoRefs
        /\ \A i \in RefSlots : Looked(c, v).look[i] = Ref(n, TRUE)
    BY <1>1, <2>1, LookedFacts
  <2> QED
    BY <2>1, <2>2 DEF v
<1>9. \A m \in DOMAIN c.data : m # None
  BY <1>1, LiveFacts DEF None
<1>10. \A i \in RefSlots : /\ RefOK(c, n, w.rec[i]) /\ w.rec[i].output < n
                           /\ w.look[i].output = n /\ w.look[i].output # None
  BY <1>1, <1>8, <1>9 DEF RefOK, NoRefs, NoRef, Ref, None
<1>11. NewOK(c, n, k, w)
  <2> HIDE DEF w, n
  <2> QED
    BY <1>1, <1>5, <1>7, <1>8, <1>10 DEF NewOK, n
<1>12. \A m \in Live(c) : InGroup(c, m, n, k)
  BY <1>6, <1>7 DEF InGroup
<1> QED
  BY <1>4, <1>8, <1>11, <1>12

LEMMA InterOK ==
  ASSUME setup \in Setups, NEW c, LoopOK(c), NEW t35 \in Nat \cup {None},
         c.nextOutput > 0, Named(c) \in c.frames, Named(c) < NextKey(c),
         c.end \/ Named(c) + Distance + 1 < c.count
  PROVE  LET fi == EntryFi(c.data[Max(PreviousCodedFi(c, c.nextOutput))],
                           EntryAt(Depth, InLast(c)), OrderHint(Depth, InLast(c)),
                           InLast(c), Named(c), t35)
         IN fi \in FrameInvariants /\ NewOK(c, LastOutput(c), LastInput(c), Looked(c, fi))
<1> DEFINE n == c.nextOutput
           g == LastOutput(c)
           k == LastInput(c)
           a == InLast(c)
           i == Named(c)
           p == Max(PreviousCodedFi(c, n))
           prev == c.data[p]
           v == EntryFi(prev, EntryAt(Depth, a), OrderHint(Depth, a), a, i, t35)
           w == Looked(c, v)
<1>1. /\ c \in Contexts /\ CtxOK(c) /\ CodedAhead(c) /\ QueueOK(c) /\ DataOK(c) /\ Starts(c)
      /\ RefsOK(c)
      /\ n \in Nat /\ c.nextFrame \in Nat /\ c.count \in Nat /\ c.limit \in Nat \cup {None}
      /\ Distance \in Nat /\ setup.maxKey \in Nat \ {0} /\ c.keyframes \subseteq Nat
      /\ Depth \in Depths /\ c.output \in Nat
  BY CtxFacts, StartsOK, SetupFacts DEF LoopOK, CtxOK
<1>2. /\ g \in Nat /\ k \in Nat /\ i \in Nat /\ a \in Nat \ {0} /\ a = n - g /\ g < n
      /\ i = k + OrderHint(Depth, a) /\ i > k
  BY <1>1, StartsFacts, StartsOK DEF InLast
<1>3. i \in 0 .. c.count - 1
  BY <1>1 DEF QueueOK
<1>4. i < c.nextFrame
  BY <1>1, <1>2, <1>3 DEF QueueOK
<1>5. i < k + setup.maxKey /\ \A x \in c.keyframes : x > k => x > i
  <2>1. /\ NextKey(c) \in Nat /\ NextKey(c) <= k + setup.maxKey
        /\ \A x \in c.keyframes : x > k => NextKey(c) <= x
    BY <1>1, <1>2, NextKeyFacts DEF NextKey
  <2> QED
    BY <1>1, <1>2, <2>1
<1>6. /\ p \in Live(c) /\ p \in Nat /\ p < n /\ ~prev.sef /\ prev \in FrameInvariants
      /\ c.output < n
  BY <1>1, PreviousFacts
<1>7. /\ v \in FrameInvariants /\ v.type # "key" /\ v.input = i
      /\ v.sef = EntryAt(Depth, a).sef /\ v.show = EntryAt(Depth, a).shown
      /\ v.rec = prev.rec /\ (~v.sef => v.look = prev.look)
      /\ v.sef => v.look = NoRefs
  <2>1. v.sef => v.look = NoRefs
    BY DEF EntryFi, InterFi
  <2>2. /\ v \in FrameInvariants /\ v.type # "key" /\ v.input = i
        /\ v.sef = EntryAt(Depth, a).sef /\ v.show = EntryAt(Depth, a).shown
        /\ v.rec = prev.rec /\ (~v.sef => v.look = prev.look)
    <3> HIDE DEF prev, a, i
    <3>1. LET fi == EntryFi(prev, EntryAt(Depth, a), OrderHint(Depth, a), a, i, t35)
          IN /\ fi \in FrameInvariants /\ fi.type # "key" /\ fi.input = i
             /\ fi.sef = EntryAt(Depth, a).sef /\ fi.show = EntryAt(Depth, a).shown
             /\ fi.rec = prev.rec /\ (~fi.sef => fi.look = prev.look)
      <4>1. prev \in FrameInvariants /\ a \in Nat \ {0} /\ i \in Nat
        BY <1>2, <1>6
      <4> QED
        BY ONLY setup \in Setups, t35 \in Nat \cup {None}, <4>1, EntryFiFacts
    <3> QED
      BY <3>1
  <2> QED
    BY <2>1, <2>2
<1>8. EntryAt(Depth, a).sef => EntryAt(Depth, a).shown
  BY <1>1, <1>2, EntryFacts
<1> HIDE DEF v
<1>9. /\ w \in FrameInvariants
      /\ w.type = v.type /\ w.input = v.input /\ w.sef = v.sef /\ w.show = v.show
      /\ w.refresh = v.refresh
      /\ v.sef => w = v
      /\ ~v.sef => /\ w.rec = v.look
                   /\ \A x \in RefSlots : w.look[x] = IF x \in v.refresh
                          THEN Ref(n, TRUE) ELSE v.look[x]
  <2>1. c.output # n
    BY <1>1, <1>6
  <2> QED
    BY <1>1, <1>7, <2>1, LookedFacts
<1> HIDE DEF w
<1>10. ASSUME NEW m \in Live(c), c.data[m].show
       PROVE  c.data[m].input < i
  <2>1. InGroup(c, m, g, k) /\ m < n /\ m \in Nat /\ c.data[m].input \in Nat
    BY <1>1, StartsOK, LiveFacts, FiFacts DEF DataOK
  <2>2. CASE m < g /\ c.data[m].input < k
    BY <1>2, <2>1, <2>2
  <2>3. CASE m = g /\ c.data[m].input = k
    BY <1>2, <2>3
  <2>4. CASE /\ m > g /\ c.data[m].input = k + OrderHint(Depth, m - g)
             /\ c.data[m].show = EntryAt(Depth, m - g).shown
    <3>1. m - g \in Nat \ {0} /\ m - g < a
      <4>1. m > g
        BY <2>4
      <4> HIDE DEF n, g, k, i, a
      <4> QED
        BY <1>1, <1>2, <2>1, <4>1
    <3>2. OrderHint(Depth, m - g) < OrderHint(Depth, a)
      BY <1>1, <1>2, <1>10, <2>4, <3>1, HintMono
    <3>3. OrderHint(Depth, m - g) \in Nat /\ OrderHint(Depth, a) \in Nat
      BY <1>1, <1>2, <3>1, HintFacts
    <3> QED
      BY <1>2, <2>4, <3>2, <3>3
  <2> QED
    BY <2>1, <2>2, <2>3, <2>4 DEF InGroup
<1>11. \A x \in RefSlots :
          /\ RefOK(c, p, prev.rec[x]) /\ RefOK(c, p, prev.look[x])
          /\ prev.look[x].output # None
  BY <1>1, <1>6 DEF RefsOK
<1>12. \A ref : RefOK(c, p, ref) => RefOK(c, n, ref) /\ ref.output < n
  BY <1>1, <1>6 DEF RefOK, None
<1>13. RefOK(c, n, NoRef) /\ NoRef.output # n
  <2>1. None \notin DOMAIN c.data
    BY <1>1, LiveFacts DEF None
  <2> QED
    BY <1>1, <2>1 DEF RefOK, NoRef, Ref, None
<1>14. ASSUME NEW x \in RefSlots
       PROVE  /\ RefOK(c, n, w.rec[x]) /\ w.rec[x].output < n
              /\ w.look[x].output = n \/ RefOK(c, n, w.look[x])
              /\ w.sef => w.look[x].output # n
              /\ ~w.sef => w.look[x].output # None
              /\ ~w.sef /\ w.type # "key" => w.rec[x].output # None
  <2>1. CASE v.sef
    <3>1. w.rec[x] = prev.rec[x] /\ w.look[x] = NoRef /\ w.sef
      BY <1>7, <1>9, <2>1 DEF NoRefs
    <3> QED
      BY <1>11, <1>12, <1>13, <3>1
  <2>2. CASE ~v.sef
    <3>1. w.rec[x] = prev.look[x] /\ (w.look[x] = Ref(n, TRUE) \/ w.look[x] = prev.look[x]) /\ ~w.sef
      BY <1>7, <1>9, <2>2
    <3>2. Ref(n, TRUE).output = n /\ n # None
      BY <1>1 DEF Ref, None
    <3> QED
      BY <1>11, <1>12, <3>1, <3>2
  <2> QED
    BY <2>1, <2>2
<1>15. n > g /\ w.input = k + OrderHint(Depth, n - g) /\ w.show = EntryAt(Depth, n - g).shown
  BY <1>2, <1>7, <1>9
<1>16. w.input = i /\ w.type # "key" /\ (w.sef => w.show)
  BY <1>7, <1>8, <1>9
<1>17. NewOK(c, g, k, w)
  <2> HIDE DEF n, g, k, i, a
  <2> QED
    BY <1>4, <1>5, <1>9, <1>10, <1>14, <1>15, <1>16 DEF NewOK, n, i
<1> QED
  BY <1>7, <1>17 DEF w, v

\* A frame that is coded is ahead, and reference buffers are the decoder's.
LEMMA AddsAhead ==
  ASSUME NEW c, CtxOK(c), CodedAhead(c), NEW e, NEW g, NEW k, NEW v, Adds(c, e, g, k, v),
         NEW dec, SyncOK(c, dec),
         c.nextOutput > 0 \/ (v \in FrameInvariants /\ v.type = "key" /\ ~v.sef)
  PROVE  CodedAhead(e) /\ SyncOK(e, dec)
<1> DEFINE n == c.nextOutput
<1>1. c \in Contexts /\ DataOK(c) /\ n \in Nat /\ c.output \in Nat
  BY CtxFacts DEF CtxOK
<1>2. /\ \A m \in DOMAIN c.data : m < n /\ e.data[m] = c.data[m]
      /\ e.data[n] = v /\ n \notin DOMAIN c.data
      /\ Pending(e) = IF v = Placeholder THEN Pending(c) ELSE Pending(c) \cup {n}
  BY <1>1, AddsFacts
<1>3. Pending(c) \subseteq DOMAIN c.data /\ DOMAIN c.data \subseteq Nat
  BY <1>1, LiveFacts DEF Pending
<1>4. CASE n > 0
  <2>1. PICK q \in Pending(c) : IsCoded(c, q)
    BY <1>4 DEF CodedAhead
  <2>2. q \in Pending(e) /\ e.data[q] = c.data[q] /\ q < n /\ q \in DOMAIN c.data
    BY <1>2, <1>3, <2>1
  <2>3. IsCoded(e, q) /\ ~e.data[q].sef
    BY <2>1, <2>2 DEF IsCoded, Skipped
  <2>4. CodedAhead(e)
    BY <2>2, <2>3 DEF CodedAhead
  <2>5. ASSUME NEW m \in Pending(e), e.data[m].type # "key",
               \A x \in Pending(e) : x < m => e.data[x].sef,
               NEW i \in RefSlots
        PROVE  e.data[m].rec[i] = Ref(dec[i].output, FALSE)
    <3>1. m # n
      BY <2>2, <2>3, <2>5
    <3>2. m \in Pending(c) /\ e.data[m] = c.data[m]
      BY <1>2, <1>3, <2>5, <3>1
    <3>3. \A x \in Pending(c) : x < m => c.data[x].sef
      <4> SUFFICES ASSUME NEW x \in Pending(c), x < m
                   PROVE  c.data[x].sef
        OBVIOUS
      <4>1. x \in Pending(e) /\ e.data[x] = c.data[x]
        BY <1>2, <1>3
      <4> QED
        BY <2>5, <4>1
    <3> QED
      BY <2>5, <3>2, <3>3 DEF SyncOK
  <2> HIDE DEF n
  <2> QED
    BY <2>4, <2>5 DEF SyncOK
<1>5. CASE ~(n > 0)
  <2>1. n = 0 /\ v \in FrameInvariants /\ v.type = "key" /\ ~v.sef /\ v # Placeholder
    BY <1>1, <1>5, FiFacts
  <2>2. Pending(c) = {}
    BY <1>1, <1>2, <1>3, <2>1
  <2>3. Pending(e) = {n}
    BY <1>2, <2>1, <2>2
  <2>4. IsCoded(e, n)
    BY <1>2, <2>1, FiFacts DEF IsCoded, Skipped
  <2>5. e.data[n].type = "key"
    BY <1>2, <2>1
  <2> HIDE DEF n
  <2> QED
    BY <2>3, <2>4, <2>5 DEF CodedAhead, SyncOK
<1> QED
  BY <1>4, <1>5

\* When there is nothing to add, the place of the next frame is in its group.
LEMMA GroupedOK ==
  ASSUME NEW c, CtxOK(c), c.nextOutput > 0 => CodedAhead(c), NEW g \in Nat, NEW k \in Nat,
         NEW t \in SUBSET Nat, NEW dec, SyncOK(c, dec)
  PROVE  LET e == Grouped(c, g, k, t)
         IN CtxOK(e) /\ (CodedAhead(c) => CodedAhead(e)) /\ SyncOK(e, dec)
<1> DEFINE e == Grouped(c, g, k, t)
           n == c.nextOutput
<1>1. /\ c \in Contexts /\ QueueOK(c) /\ DataOK(c) /\ GroupOK(c) /\ OrderOK(c) /\ RefsOK(c)
      /\ ProcessedOK(c) /\ SourceThere(c) /\ n \in Nat /\ c.output \in Nat
  BY CtxFacts DEF CtxOK
<1>2. /\ e \in Contexts /\ e.count = c.count /\ e.limit = c.limit /\ e.output = c.output
      /\ e.processed = c.processed /\ e.frames = c.frames /\ e.end = c.end
      /\ e.data = c.data /\ e.keyframes = c.keyframes /\ e.forced = c.forced
      /\ e.nextFrame = c.nextFrame /\ e.nextOutput = n
      /\ e.gopOutput = Insert(c.gopOutput, n, g)
      /\ e.gopInput = Insert(c.gopInput, n, k)
  BY <1>1, GroupedFacts
<1> HIDE DEF e
<1>3. /\ DOMAIN e.gopOutput = DOMAIN c.gopOutput \cup {n}
      /\ DOMAIN e.gopInput = DOMAIN c.gopInput \cup {n}
  BY <1>2 DEF Insert
<1>4. Live(e) = Live(c) /\ Pending(e) = Pending(c)
  BY <1>2 DEF Live, Pending, Skipped
<1>5. \A m : IsCoded(e, m) <=> IsCoded(c, m)
  BY <1>2 DEF IsCoded, Skipped
<1>6. QueueOK(e)
  BY <1>1, <1>2 DEF QueueOK
<1>7. DataOK(e)
  <2>1. DOMAIN e.gopOutput \subseteq 0 .. n /\ DOMAIN e.gopInput = DOMAIN e.gopOutput
        /\ DOMAIN e.data \subseteq DOMAIN e.gopOutput
    BY <1>1, <1>2, <1>3 DEF DataOK
  <2> HIDE DEF n
  <2> QED
    BY <1>1, <1>2, <1>4, <2>1 DEF DataOK, n
<1>8. GroupOK(e)
  <2> SUFFICES ASSUME n > 0
               PROVE  LET h == e.gopOutput[n - 1]
                          l == e.gopInput[n - 1]
                      IN h < n /\ \A m \in Live(e) : InGroup(e, m, h, l)
    BY <1>2 DEF GroupOK
  <2>1. n - 1 \in DOMAIN c.gopOutput /\ n - 1 \in DOMAIN c.gopInput /\ n - 1 # n
    <3>1. n - 1 \in DOMAIN c.data
      BY <1>1 DEF DataOK
    <3> QED
      BY <1>1, <3>1 DEF DataOK
  <2>2. e.gopOutput[n - 1] = c.gopOutput[n - 1] /\ e.gopInput[n - 1] = c.gopInput[n - 1]
    BY <1>2, <2>1 DEF Insert
  <2>3. \A m, h, l : InGroup(c, m, h, l) => InGroup(e, m, h, l)
    BY <1>2 DEF InGroup
  <2> QED
    BY <1>1, <1>4, <2>2, <2>3 DEF GroupOK
<1>9. OrderOK(e) /\ ProcessedOK(e)
  BY <1>1, <1>2, <1>4 DEF OrderOK, ProcessedOK
<1>10. RefsOK(e)
  <2>1. \A m, r : RefOK(c, m, r) => RefOK(e, m, r)
    BY <1>2, <1>5 DEF RefOK
  <2> QED
    BY <1>1, <1>2, <1>4, <2>1 DEF RefsOK
<1>11. SourceThere(e) /\ (CodedAhead(c) => CodedAhead(e)) /\ SyncOK(e, dec)
  BY <1>1, <1>2, <1>4, <1>5 DEF SourceThere, CodedAhead, SyncOK
<1>12. CtxOK(e)
  BY <1>2, <1>6, <1>7, <1>8, <1>9, <1>10, <1>11 DEF CtxOK
<1> QED
  BY <1>11, <1>12 DEF e

\* One round of the loop.
LEMMA RoundOK ==
  ASSUME setup \in Setups, NEW c, LoopOK(c), NEW dec, SyncOK(c, dec)
  PROVE  LET it == Schedule(SetFrameProperties(c, c.nextOutput), c.nextOutput)
         IN LoopOK(it.c) /\ SyncOK(it.c, dec) /\ it.c.end = c.end /\ it.c.limit = c.limit
<1> DEFINE n == c.nextOutput
           r == SetFrameProperties(c, n)
           it == Schedule(r, n)
           g == LastOutput(c)
           k == LastInput(c)
<1>1. /\ c \in Contexts /\ CtxOK(c) /\ CodedAhead(c) /\ QueueOK(c) /\ Starts(c) /\ n \in Nat
      /\ c.count > 0 \/ c.end
      /\ c.count \in Nat /\ Distance \in Nat
  BY CtxFacts, StartsOK, SetupFacts DEF LoopOK, CtxOK
<1>2. g \in Nat /\ k \in Nat /\ Named(c) \in Nat
  BY <1>1, StartsFacts
<1>3. \/ NothingNext(c, r)
      \/ /\ ~NeedsMoreFrameQLookahead(c, Named(c))
         /\ SkippedNext(c, r) \/ KeyNext(c, r) \/ InterNext(c, r)
  BY <1>1, BuildCases
<1>4. ASSUME ~NeedsMoreFrameQLookahead(c, Named(c))
      PROVE  c.end \/ Named(c) + Distance + 1 < c.count
  BY <1>1, <1>2, <1>4, LookaheadFacts
<1>5. ASSUME NEW h \in Nat, NEW l \in Nat, NEW t \in SUBSET Nat,
             NEW v \in FrameInvariants \cup {Placeholder},
             r.ok, r.c = WithData(c, h, l, t, v),
             Looked(c, v) = Placeholder \/ NewOK(c, h, l, Looked(c, v)),
             h <= n, \A m \in Live(c) : InGroup(c, m, h, l),
             ~c.end => Distance + 1 < c.count,
             n > 0 \/ (v.type = "key" /\ Looked(c, v).type = "key" /\ ~Looked(c, v).sef
                       /\ Looked(c, v) \in FrameInvariants)
      PROVE  LoopOK(it.c) /\ SyncOK(it.c, dec) /\ it.c.end = c.end /\ it.c.limit = c.limit
  <2> DEFINE e == [LookAhead(WithData(c, h, l, t, v), n) EXCEPT !.nextOutput = n + 1]
             w == Looked(c, v)
  <2>1. it.c = e
    BY <1>5 DEF Schedule
  <2>2. Adds(c, e, h, l, w)
    BY <1>1, <1>5, ScheduleFacts
  <2> HIDE DEF e, w, it, r
  <2>3. CtxOK(e)
    BY <1>1, <1>5, <2>2, AddsOK DEF w
  <2>4. CodedAhead(e) /\ SyncOK(e, dec)
    BY <1>1, <1>5, <2>2, AddsAhead DEF w
  <2>5. e.end = c.end /\ e.limit = c.limit /\ e.count = c.count
    BY <2>2 DEF Adds
  <2> QED
    BY <1>1, <2>1, <2>3, <2>4, <2>5 DEF LoopOK
<1>6. CASE NothingNext(c, r)
  <2>1. PICK t \in SUBSET Nat : r.c = Grouped(c, g, k, t)
    BY <1>6 DEF NothingNext
  <2>2. it.c = Grouped(c, g, k, t)
    BY <1>6, <2>1 DEF NothingNext, Schedule
  <2>3. CtxOK(it.c) /\ CodedAhead(it.c) /\ SyncOK(it.c, dec)
    <3> HIDE DEF it, g, k
    <3> QED
      BY <1>1, <1>2, <2>2, GroupedOK
  <2>4. it.c.end = c.end /\ it.c.limit = c.limit /\ it.c.count = c.count
    BY <1>1, <2>2 DEF Grouped, Contexts
  <2> QED
    BY <1>1, <2>3, <2>4 DEF LoopOK
<1>7. CASE ~NeedsMoreFrameQLookahead(c, Named(c)) /\ SkippedNext(c, r)
  <2>1. PICK t \in SUBSET Nat : r.c = WithData(c, g, k, t, Placeholder)
    BY <1>7 DEF SkippedNext
  <2>2. r.ok /\ n > 0
    BY <1>7 DEF SkippedNext
  <2>3. g <= n /\ \A m \in Live(c) : InGroup(c, m, g, k)
    BY <1>1, <1>2, <2>2, StartsOK
  <2>4. ~c.end => Distance + 1 < c.count
    BY <1>1, <2>2 DEF CtxOK, DataOK
  <2>5. Looked(c, Placeholder) = Placeholder
    BY DEF Looked
  <2>6. LoopOK(it.c) /\ SyncOK(it.c, dec) /\ it.c.end = c.end /\ it.c.limit = c.limit
    <3> HIDE DEF it, r, g, k, n
    <3> QED
      BY <1>2, <1>5, <2>1, <2>2, <2>3, <2>4, <2>5
  <2> QED
    BY <2>6
<1>8. CASE ~NeedsMoreFrameQLookahead(c, Named(c)) /\ KeyNext(c, r)
  <2>1. PICK t \in SUBSET Nat, l \in c.frames, t35 \in Nat \cup {None} :
             /\ r.c = WithData(c, n, l, t, KeyFi(l, t35))
             /\ l <= Named(c)
             /\ IF n = 0 THEN l = 0 ELSE l = NextKey(c)
    BY <1>8 DEF KeyNext
  <2> DEFINE v == KeyFi(l, t35)
  <2>2. r.ok /\ l \in Nat
    BY <1>1, <1>8, CtxFacts DEF KeyNext
  <2>3. c.end \/ Named(c) + Distance + 1 < c.count
    BY <1>4, <1>8
  <2>4. /\ NewOK(c, n, l, Looked(c, v)) /\ \A m \in Live(c) : InGroup(c, m, n, l)
        /\ ~c.end => Distance + 1 < c.count
        /\ ~Looked(c, v).sef
    BY <2>1, <2>3, KeyOK
  <2>5. v \in FrameInvariants /\ v.type = "key"
    BY <2>2, KeyFiFacts
  <2>6. Looked(c, v) \in FrameInvariants /\ Looked(c, v).type = "key"
    <3> HIDE DEF v
    <3> QED
      BY <1>1, <2>5, LookedFacts
  <2>7. r.c = WithData(c, n, l, t, v)
    BY <2>1
  <2>8. LoopOK(it.c) /\ SyncOK(it.c, dec) /\ it.c.end = c.end /\ it.c.limit = c.limit
    <3> HIDE DEF it, r, n, v
    <3> QED
      BY <1>1, <1>5, <2>2, <2>4, <2>5, <2>6, <2>7
  <2> QED
    BY <2>8
<1>9. CASE ~NeedsMoreFrameQLookahead(c, Named(c)) /\ InterNext(c, r)
  <2> DEFINE V(t35) == EntryFi(c.data[Max(PreviousCodedFi(c, n))],
                               EntryAt(Depth, InLast(c)), OrderHint(Depth, InLast(c)),
                               InLast(c), Named(c), t35)
  <2>1. PICK t \in SUBSET Nat, t35 \in Nat \cup {None} : r.c = WithData(c, g, k, t, V(t35))
    BY <1>9 DEF InterNext
  <2>2. r.ok /\ n > 0 /\ Named(c) \in c.frames /\ Named(c) < NextKey(c)
    BY <1>9 DEF InterNext
  <2>3. c.end \/ Named(c) + Distance + 1 < c.count
    BY <1>4, <1>9
  <2>4. V(t35) \in FrameInvariants /\ NewOK(c, g, k, Looked(c, V(t35)))
    BY <2>2, <2>3, InterOK
  <2>5. g <= n /\ \A m \in Live(c) : InGroup(c, m, g, k)
    BY <1>1, <1>2, <2>2, StartsOK
  <2>6. ~c.end => Distance + 1 < c.count
    BY <1>1, <2>2 DEF CtxOK, DataOK
  <2>7. LoopOK(it.c) /\ SyncOK(it.c, dec) /\ it.c.end = c.end /\ it.c.limit = c.limit
    <3> HIDE DEF it, r, n, g, k, V
    <3> QED
      BY <1>2, <1>5, <2>1, <2>2, <2>4, <2>5, <2>6
  <2> QED
    BY <2>7
<1> QED
  BY <1>3, <1>6, <1>7, <1>8, <1>9

----------------------------------------------------------------------------
(* The loop of compute_frame_invariants *)

\* f does the first n rounds from it.
Rounds(f, n, it) == f = [k \in 0 .. n |-> IF k = 0 THEN it ELSE ScheduleNext(f[k - 1])]

LEMMA RoundsFacts ==
  ASSUME NEW f, NEW n \in Nat, NEW it
  PROVE  Rounds(f, n, it) <=>
           /\ f = [k \in 0 .. n |-> f[k]]
           /\ f[0] = it
           /\ \A k \in 1 .. n : f[k] = ScheduleNext(f[k - 1])
<1>1. ASSUME Rounds(f, n, it)
      PROVE  /\ f = [k \in 0 .. n |-> f[k]]
             /\ f[0] = it
             /\ \A k \in 1 .. n : f[k] = ScheduleNext(f[k - 1])
  <2>1. DOMAIN f = 0 .. n /\ \A k \in 0 .. n : f[k] = IF k = 0 THEN it ELSE ScheduleNext(f[k - 1])
    BY <1>1 DEF Rounds
  <2>2. f = [k \in 0 .. n |-> f[k]]
    BY <1>1, <2>1 DEF Rounds
  <2>3. 0 \in 0 .. n /\ \A k \in 1 .. n : k \in 0 .. n /\ k # 0
    OBVIOUS
  <2>4. f[0] = it
    BY ONLY <2>1, <2>3
  <2>5. \A k \in 1 .. n : f[k] = ScheduleNext(f[k - 1])
    BY ONLY <2>1, <2>3
  <2> QED
    BY <2>2, <2>4, <2>5
<1>2. ASSUME f = [k \in 0 .. n |-> f[k]], f[0] = it,
             \A k \in 1 .. n : f[k] = ScheduleNext(f[k - 1])
      PROVE  Rounds(f, n, it)
  <2>1. \A k \in 0 .. n : f[k] = IF k = 0 THEN it ELSE ScheduleNext(f[k - 1])
    <3>1. \A k \in 0 .. n : k = 0 \/ k \in 1 .. n
      OBVIOUS
    <3> QED
      BY ONLY <1>2, <3>1
  <2>2. [k \in 0 .. n |-> f[k]] = [k \in 0 .. n |-> IF k = 0 THEN it ELSE ScheduleNext(f[k - 1])]
    BY <2>1
  <2> QED
    BY <1>2, <2>2 DEF Rounds
<1> QED
  BY <1>1, <1>2

\* There is one for every number of rounds, ...
LEMMA RoundsExist ==
  ASSUME NEW it
  PROVE  \A n \in Nat : \E f : Rounds(f, n, it)
<1> DEFINE S == {n \in Nat : ~\E f : Rounds(f, n, it)}
<1>1. SUFFICES ASSUME S # {}
               PROVE  FALSE
  OBVIOUS
<1> DEFINE m == Min(S)
<1>2. m \in S /\ \A x \in S : m <= x
  <2>1. S \subseteq Nat
    OBVIOUS
  <2> HIDE DEF S
  <2> QED
    BY <1>1, <2>1, MinFacts
<1> HIDE DEF m
<1>3. m # 0
  <2> DEFINE f == [k \in 0 .. 0 |-> it]
  <2>1. f = [k \in 0 .. 0 |-> f[k]] /\ f[0] = it
    OBVIOUS
  <2>2. Rounds(f, 0, it)
    <3>1. \A k \in 1 .. 0 : f[k] = ScheduleNext(f[k - 1])
      <4>1. 1 .. 0 = {}
        OBVIOUS
      <4> QED
        BY ONLY <4>1
    <3> HIDE DEF f
    <3> QED
      BY <2>1, <3>1, 0 \in Nat, RoundsFacts
  <2> QED
    BY <1>2, <2>2
<1>4. m \in Nat /\ m - 1 \in Nat /\ m - 1 \notin S
  BY <1>2, <1>3
<1>5. PICK f : Rounds(f, m - 1, it)
  BY <1>4
<1>6. /\ f[0] = it /\ \A k \in 1 .. m - 1 : f[k] = ScheduleNext(f[k - 1])
  BY <1>4, <1>5, RoundsFacts
<1> DEFINE h == [k \in 0 .. m |-> IF k = m THEN ScheduleNext(f[m - 1]) ELSE f[k]]
<1>7. h = [k \in 0 .. m |-> h[k]] /\ h[0] = it
  BY <1>3, <1>4, <1>6
<1>8. ASSUME NEW k \in 1 .. m
      PROVE  h[k] = ScheduleNext(h[k - 1])
  <2>1. k - 1 \in 0 .. m /\ k - 1 # m
    BY <1>4
  <2>2. h[k - 1] = f[k - 1]
    BY <2>1
  <2>3. CASE k = m
    BY <1>4, <2>2, <2>3
  <2>4. CASE k # m
    <3>1. k \in 1 .. m - 1 /\ k \in 0 .. m
      BY <1>4, <2>4
    <3>2. h[k] = f[k]
      BY <2>4, <3>1
    <3> QED
      BY <1>6, <2>2, <3>1, <3>2
  <2> QED
    BY <2>3, <2>4
<1>9. Rounds(h, m, it)
  <2> HIDE DEF h
  <2> QED
    BY <1>4, <1>7, <1>8, RoundsFacts
<1> QED
  BY <1>2, <1>9

\* ... they agree, ...
LEMMA RoundsAgree ==
  ASSUME NEW it, NEW n \in Nat, NEW m \in Nat, NEW f, NEW g,
         Rounds(f, n, it), Rounds(g, m, it)
  PROVE  \A k \in Nat : k <= n /\ k <= m => f[k] = g[k]
<1> DEFINE S == {k \in Nat : k <= n /\ k <= m /\ f[k] # g[k]}
<1>1. SUFFICES ASSUME S # {}
               PROVE  FALSE
  OBVIOUS
<1> DEFINE x == Min(S)
<1>2. x \in S /\ \A y \in S : x <= y
  <2>1. S \subseteq Nat
    OBVIOUS
  <2> HIDE DEF S
  <2> QED
    BY <1>1, <2>1, MinFacts
<1> HIDE DEF x
<1>3. /\ f[0] = it /\ \A k \in 1 .. n : f[k] = ScheduleNext(f[k - 1])
      /\ g[0] = it /\ \A k \in 1 .. m : g[k] = ScheduleNext(g[k - 1])
  BY RoundsFacts
<1>4. x # 0
  BY <1>2, <1>3
<1>5. x - 1 \in Nat /\ x - 1 \notin S /\ x \in 1 .. n /\ x \in 1 .. m /\ x - 1 <= n /\ x - 1 <= m
  BY <1>2, <1>4
<1>6. f[x - 1] = g[x - 1]
  BY <1>5
<1> QED
  BY <1>2, <1>3, <1>5, <1>6

\* ... and so there is one that does them all.
LEMMA LoopExists ==
  ASSUME NEW it
  PROVE  \E f : f = [k \in Nat |-> IF k = 0 THEN it ELSE ScheduleNext(f[k - 1])]
<1> DEFINE R(n) == CHOOSE f : Rounds(f, n, it)
           h == [k \in Nat |-> R(k)[k]]
<1>1. \A n \in Nat : Rounds(R(n), n, it)
  BY RoundsExist
<1> HIDE DEF R
<1>2. ASSUME NEW k \in Nat
      PROVE  h[k] = IF k = 0 THEN it ELSE ScheduleNext(h[k - 1])
  <2>1. h[k] = R(k)[k]
    OBVIOUS
  <2>2. CASE k = 0
    BY <1>1, <2>1, <2>2, RoundsFacts
  <2>3. CASE k # 0
    <3>1. k - 1 \in Nat /\ k \in 1 .. k /\ k - 1 <= k
      BY <2>3
    <3>2. R(k)[k] = ScheduleNext(R(k)[k - 1])
      BY <1>1, <3>1, RoundsFacts
    <3>3. R(k)[k - 1] = R(k - 1)[k - 1]
      BY <1>1, <3>1, RoundsAgree
    <3>4. h[k - 1] = R(k - 1)[k - 1]
      BY <3>1
    <3> QED
      BY <2>1, <2>3, <3>2, <3>3, <3>4
  <2> QED
    BY <2>2, <2>3
<1>3. h = [k \in Nat |-> IF k = 0 THEN it ELSE ScheduleNext(h[k - 1])]
  BY <1>2
<1> QED
  BY <1>3

\* What a round keeps, the loop keeps.
LEMMA LoopKeeps ==
  ASSUME setup \in Setups, NEW c, CtxOK(c), CodedAhead(c), c.count > 0 \/ c.end,
         NEW dec, SyncOK(c, dec)
  PROVE  LET e == ComputeFrameInvariants(c)
         IN CtxOK(e) /\ CodedAhead(e) /\ SyncOK(e, dec) /\ e.end = c.end /\ e.limit = c.limit
<1> DEFINE it0 == [ok |-> TRUE, c |-> c]
           After == CHOOSE f : f = [k \in Nat |-> IF k = 0 THEN it0 ELSE ScheduleNext(f[k - 1])]
           last == c.count * (GroupOutputLen(Depth) + 1) + 1
           Good(it) == LoopOK(it.c) /\ SyncOK(it.c, dec) /\ it.c.end = c.end /\ it.c.limit = c.limit
<1>1. After = [k \in Nat |-> IF k = 0 THEN it0 ELSE ScheduleNext(After[k - 1])]
  BY LoopExists
<1>2. ComputeFrameInvariants(c) = After[last].c
  BY DEF ComputeFrameInvariants
<1> HIDE DEF After
<1>3. After[0] = it0 /\ \A k \in Nat \ {0} : After[k] = ScheduleNext(After[k - 1])
  BY <1>1
<1>4. Good(it0)
  BY DEF LoopOK
<1>5. ASSUME NEW it, Good(it)
      PROVE  Good(ScheduleNext(it))
  <2>1. CASE it.ok
    <3>1. ScheduleNext(it) = Schedule(SetFrameProperties(it.c, it.c.nextOutput), it.c.nextOutput)
      BY <2>1 DEF ScheduleNext
    <3> DEFINE d == it.c
    <3>2. LoopOK(d) /\ SyncOK(d, dec) /\ d.end = c.end /\ d.limit = c.limit
      BY <1>5
    <3> HIDE DEF d
    <3>3. LET r == Schedule(SetFrameProperties(d, d.nextOutput), d.nextOutput)
          IN LoopOK(r.c) /\ SyncOK(r.c, dec) /\ r.c.end = d.end /\ r.c.limit = d.limit
      BY <3>2, RoundOK
    <3> QED
      BY <3>1, <3>2, <3>3 DEF d
  <2>2. CASE ~it.ok
    BY <1>5, <2>2 DEF ScheduleNext
  <2> QED
    BY <2>1, <2>2
<1> HIDE DEF Good, it0
<1>6. \A k \in Nat : Good(After[k])
  <2> DEFINE S == {k \in Nat : ~Good(After[k])}
  <2>1. SUFFICES ASSUME S # {}
                 PROVE  FALSE
    OBVIOUS
  <2> DEFINE x == Min(S)
  <2>2. x \in S /\ \A y \in S : x <= y
    <3>1. S \subseteq Nat
      OBVIOUS
    <3> HIDE DEF S
    <3> QED
      BY <2>1, <3>1, MinFacts
  <2> HIDE DEF x
  <2>3. x # 0
    BY <1>3, <1>4, <2>2
  <2>4. x - 1 \in Nat /\ x - 1 \notin S /\ x \in Nat \ {0}
    BY <2>2, <2>3
  <2>5. Good(After[x - 1])
    BY <2>4
  <2> QED
    BY <1>3, <1>5, <2>2, <2>4, <2>5
<1>7. last \in Nat
  <2>1. c.count \in Nat /\ GroupOutputLen(Depth) \in Nat
    BY CtxFacts, SetupFacts, GroupFacts DEF CtxOK
  <2> QED
    BY <2>1
<1>8. Good(After[last])
  BY <1>6, <1>7
<1> QED
  BY <1>2, <1>8 DEF Good, LoopOK

----------------------------------------------------------------------------
(* Sending *)

\* Context p has more input frames and more key frames decided than b.
Grown(b, p) ==
  /\ p \in Contexts
  /\ p.data = b.data /\ p.gopOutput = b.gopOutput /\ p.gopInput = b.gopInput
  /\ p.nextOutput = b.nextOutput /\ p.output = b.output /\ p.processed = b.processed
  /\ b.frames \subseteq p.frames /\ b.nextFrame <= p.nextFrame /\ b.count <= p.count
  /\ \A i \in p.keyframes : i \in b.keyframes \/ i >= b.nextFrame
  /\ b.keyframes \subseteq p.keyframes /\ b.opaque \subseteq p.opaque
  /\ b.limit # None => p.limit # None /\ p.limit <= b.limit
  /\ \A i \in b.count .. p.count - 1 : i \in p.frames /\ i \in p.opaque

LEMMA GrownOK ==
  ASSUME setup \in Setups, NEW b, CtxOK(b), NEW p, Grown(b, p), QueueOK(p),
         b.end => p.end, NEW dec
  PROVE  CtxOK(p) /\ (CodedAhead(b) => CodedAhead(p)) /\ (SyncOK(b, dec) => SyncOK(p, dec))
<1>1. /\ b \in Contexts /\ QueueOK(b) /\ DataOK(b) /\ GroupOK(b) /\ OrderOK(b) /\ RefsOK(b)
      /\ ProcessedOK(b) /\ SourceThere(b)
      /\ p \in Contexts /\ b.count \in Nat /\ p.count \in Nat /\ b.nextFrame \in Nat
      /\ p.nextFrame \in Nat /\ Distance \in Nat /\ b.keyframes \subseteq Nat
      /\ p.keyframes \subseteq Nat
  BY CtxFacts, SetupFacts DEF CtxOK, Grown
<1>2. /\ p.data = b.data /\ p.gopOutput = b.gopOutput /\ p.gopInput = b.gopInput
      /\ p.nextOutput = b.nextOutput /\ p.output = b.output /\ p.processed = b.processed
      /\ b.frames \subseteq p.frames /\ b.nextFrame <= p.nextFrame /\ b.count <= p.count
      /\ \A i \in p.keyframes : i \in b.keyframes \/ i >= b.nextFrame
  BY DEF Grown
<1>3. Live(p) = Live(b) /\ Pending(p) = Pending(b)
  BY <1>2 DEF Live, Pending, Skipped
<1>4. \A m : IsCoded(p, m) <=> IsCoded(b, m)
  BY <1>2 DEF IsCoded, Skipped
<1>5. \A m \in Live(b) : /\ b.data[m].input \in Nat
                         /\ b.data[m].input < b.nextFrame /\ b.data[m].input < b.count
  BY <1>1, LiveFacts, FiFacts DEF DataOK
<1>6. DataOK(p)
  <2>1. \A m \in Live(p) : p.data[m].input < p.nextFrame /\ p.data[m].input < p.count
    BY <1>1, <1>2, <1>3, <1>5
  <2>2. p.nextOutput > 0 /\ ~p.end => Distance + 1 < p.count
    BY <1>1, <1>2 DEF DataOK
  <2> QED
    BY <1>1, <1>2, <2>1, <2>2 DEF DataOK
<1>7. GroupOK(p)
  <2>1. ASSUME NEW m \in Live(b), NEW g, NEW k, InGroup(b, m, g, k)
        PROVE  InGroup(p, m, g, k)
    <3>1. \A i \in p.keyframes : i \in b.keyframes \/ i > b.data[m].input
      BY <1>1, <1>2, <1>5
    <3> QED
      BY <1>2, <2>1, <3>1 DEF InGroup
  <2> QED
    BY <1>1, <1>2, <1>3, <2>1 DEF GroupOK
<1>8. OrderOK(p) /\ ProcessedOK(p)
  BY <1>1, <1>2, <1>3 DEF OrderOK, ProcessedOK
<1>9. RefsOK(p)
  <2>1. \A m, r : RefOK(b, m, r) => RefOK(p, m, r)
    BY <1>2, <1>4 DEF RefOK
  <2> QED
    BY <1>1, <1>2, <1>3, <2>1 DEF RefsOK
<1>10. SourceThere(p) /\ (CodedAhead(b) => CodedAhead(p)) /\ (SyncOK(b, dec) => SyncOK(p, dec))
  BY <1>1, <1>2, <1>3, <1>4 DEF SourceThere, CodedAhead, SyncOK
<1>11. CtxOK(p)
  BY <1>1, <1>6, <1>7, <1>8, <1>9, <1>10 DEF CtxOK
<1> QED
  BY <1>10, <1>11

LEMMA PlaceFacts ==
  ASSUME NEW c \in Contexts, NEW decided \in SUBSET Nat, NEW cuts, Cardinality(decided) \in Nat
  PROVE  LET p == PlaceKeyframes(c, decided, cuts)
         IN /\ p \in Contexts /\ p.count = c.count /\ p.limit = c.limit /\ p.output = c.output
            /\ p.processed = c.processed /\ p.frames = c.frames /\ p.end = c.end
            /\ p.data = c.data /\ p.gopOutput = c.gopOutput /\ p.gopInput = c.gopInput
            /\ p.forced = c.forced /\ p.nextOutput = c.nextOutput /\ p.opaque = c.opaque
            /\ p.nextFrame = c.nextFrame + Cardinality(decided)
            /\ c.keyframes \subseteq p.keyframes
            /\ \A i \in p.keyframes : i \in c.keyframes \/ i \in decided
<1> DEFINE k == c.keyframes \cup (decided \cap (cuts \cup c.forced))
           f == c.nextFrame + Cardinality(decided)
<1>1. k \in SUBSET Nat /\ f \in Nat
  <2>1. c.keyframes \subseteq Nat /\ c.nextFrame \in Nat
    BY CtxFacts
  <2>2. k \subseteq Nat
    BY <2>1
  <2>3. f \in Nat
    BY <2>1
  <2> QED
    BY <2>2, <2>3
<1>2. PlaceKeyframes(c, decided, cuts) = [c EXCEPT !.keyframes = k, !.nextFrame = f]
  BY DEF PlaceKeyframes
<1>3. c.keyframes \subseteq k /\ \A i \in k : i \in c.keyframes \/ i \in decided
  OBVIOUS
<1> HIDE DEF k
<1> QED
  BY <1>1, <1>2, <1>3 DEF Contexts

\* send_frame: it decides on a frame when the frames after it are there.
LEMMA SendOK ==
  ASSUME setup \in Setups, NEW b, CtxOK(b), ~b.end, b.count < setup.frames,
         setup.limit # None => b.count < setup.limit, b.limit = setup.limit,
         NEW c \in Contexts, Grown(b, c),
         c.count = b.count + 1, c.frames = b.frames \cup {b.count}, c.limit = b.limit,
         c.end = b.end, c.keyframes = b.keyframes, c.nextFrame = b.nextFrame,
         c.forced = b.forced \/ c.forced = b.forced \cup {b.count},
         NEW cuts
  PROVE  LET p == PlaceKeyframes(c, Decidable(c, FALSE), cuts)
         IN Grown(b, p) /\ QueueOK(p) /\ p.end = FALSE /\ p.count > 0
<1> DEFINE decided == Decidable(c, FALSE)
           p == PlaceKeyframes(c, decided, cuts)
           n == b.count
           f == b.nextFrame
           S == {0} \cup c.frames \cup (IF c.end THEN {c.count} ELSE {})
<1>1. /\ b \in Contexts /\ QueueOK(b) /\ n \in Nat /\ f \in Nat /\ Distance \in Nat
      /\ b.limit \in Nat \cup {None} /\ b.frames \subseteq Nat /\ setup.frames \in Nat
      /\ b.end \in BOOLEAN
  BY CtxFacts, SetupFacts DEF CtxOK
<1>2. /\ b.frames \subseteq 0 .. n - 1 /\ \A i \in b.frames : i .. n - 1 \subseteq b.frames
      /\ b.forced \subseteq 0 .. n - 1
      /\ 0 \in b.keyframes /\ b.keyframes \subseteq 0 .. f - 1
      /\ f = 1 \/ f \in 1 .. n
      /\ n <= f + Distance + 1 /\ (f = 1 \/ f + Distance < n)
      /\ f - 1 \in b.frames \/ n = 0
  BY <1>1 DEF QueueOK
<1>3. LookaheadEnd(c) = n
  <2>1. S = {0} \cup b.frames \cup {n}
    BY <1>1
  <2>2. S \subseteq 0 .. n /\ S # {}
    BY <1>1, <1>2, <2>1
  <2>3. Max(S) \in S /\ \A x \in S : x <= Max(S)
    <3> HIDE DEF S
    <3> QED
      BY <1>1, <2>2, MaxFacts
  <2>4. Max(S) = n
    <3>1. n \in S
      BY <2>1
    <3>2. Max(S) \in 0 .. n /\ n <= Max(S)
      <4> HIDE DEF S
      <4> QED
        BY <2>2, <2>3, <3>1
    <3> HIDE DEF S
    <3> QED
      BY <1>1, <3>2
  <2> QED
    BY <2>4 DEF LookaheadEnd
<1>4. decided = IF n < f + Distance + 1 THEN {} ELSE {f}
  <2>1. NeedsMoreFrames(c, n)
    BY DEF NeedsMoreFrames
  <2>2. NeedsMoreFrameQLookahead(c, f) <=> n < f + Distance + 1
    BY <1>3, <2>1 DEF NeedsMoreFrameQLookahead, Distance
  <2> QED
    BY <2>2 DEF Decidable
<1>5. decided \in SUBSET Nat /\ Cardinality(decided) = IF n < f + Distance + 1 THEN 0 ELSE 1
  <2>1. CASE n < f + Distance + 1
    BY <1>4, <2>1, FS_EmptySet
  <2>2. CASE ~(n < f + Distance + 1)
    <3>1. decided = {f}
      BY <1>4, <2>2
    <3>2. Cardinality({f}) = 1
      BY FS_Singleton
    <3> QED
      BY <1>1, <2>2, <3>1, <3>2
  <2> QED
    BY <2>1, <2>2
<1> HIDE DEF decided
<1>6. /\ p \in Contexts /\ p.count = n + 1 /\ p.limit = b.limit /\ p.output = c.output
      /\ p.processed = c.processed /\ p.frames = b.frames \cup {n} /\ p.end = FALSE
      /\ p.data = c.data /\ p.gopOutput = c.gopOutput /\ p.gopInput = c.gopInput
      /\ p.forced = c.forced /\ p.nextOutput = c.nextOutput /\ p.opaque = c.opaque
      /\ p.nextFrame = f + Cardinality(decided)
      /\ b.keyframes \subseteq p.keyframes
      /\ \A i \in p.keyframes : i \in b.keyframes \/ i \in decided
  BY <1>1, <1>5, PlaceFacts
<1>7. /\ c.data = b.data /\ c.gopOutput = b.gopOutput /\ c.gopInput = b.gopInput
      /\ c.nextOutput = b.nextOutput /\ c.output = b.output /\ c.processed = b.processed
      /\ b.opaque \subseteq c.opaque
      /\ \A i \in b.count .. c.count - 1 : i \in c.frames /\ i \in c.opaque
  BY DEF Grown
<1> HIDE DEF p
<1>8. p.nextFrame = IF n < f + Distance + 1 THEN f ELSE f + 1
  BY <1>1, <1>5, <1>6
<1>9. \A i \in p.keyframes : i \in b.keyframes \/ (i = f /\ ~(n < f + Distance + 1))
  BY <1>4, <1>6
<1>10. Grown(b, p)
  <2>1. \A i \in b.count .. p.count - 1 : i \in p.frames /\ i \in p.opaque
    BY <1>6, <1>7
  <2>2. b.limit # None => p.limit # None /\ p.limit <= b.limit
    BY <1>1, <1>6
  <2> QED
    BY <1>1, <1>6, <1>7, <1>8, <1>9, <2>1, <2>2 DEF Grown
<1>11. p.keyframes \subseteq 0 .. p.nextFrame - 1 /\ 0 \in p.keyframes
  <2> HIDE DEF f, n
  <2> QED
    BY <1>1, <1>2, <1>6, <1>8, <1>9
<1>12. /\ p.frames \subseteq 0 .. n /\ n \in p.frames
       /\ \A i \in p.frames : i .. n \subseteq p.frames
  <2>1. \A i \in b.frames : \A j \in i .. n : j = n \/ j \in b.frames
    BY <1>1, <1>2
  <2>2. n .. n = {n}
    BY <1>1
  <2> HIDE DEF f, n
  <2> QED
    BY <1>1, <1>2, <1>6, <2>1, <2>2
<1>13. p.forced \subseteq 0 .. n
  <2>1. b.forced \subseteq 0 .. n /\ n \in 0 .. n
    BY <1>1, <1>2
  <2> QED
    BY <1>6, <2>1
<1>14. /\ n + 1 <= p.nextFrame + Distance + 1
       /\ p.nextFrame = 1 \/ p.nextFrame + Distance < n + 1
       /\ p.nextFrame = 1 \/ p.nextFrame \in 1 .. n + 1
  <2> HIDE DEF f, n
  <2> QED
    BY <1>1, <1>2, <1>8
<1>15. p.nextFrame - 1 \in p.frames
  <2>1. CASE n = 0
    <3>1. f = 1 /\ n < f + Distance + 1
      BY <1>1, <1>2, <2>1
    <3> QED
      BY <1>6, <1>8, <2>1, <3>1
  <2>2. CASE n # 0 /\ n < f + Distance + 1
    BY <1>2, <1>6, <1>8, <2>2
  <2>3. CASE n # 0 /\ ~(n < f + Distance + 1)
    <3>1. f - 1 \in p.frames /\ f \in f - 1 .. n
      BY <1>1, <1>2, <1>6, <2>3
    <3>2. p.nextFrame - 1 = f
      BY <1>1, <1>8, <2>3
    <3> QED
      BY <1>12, <3>1, <3>2
  <2> QED
    BY <2>1, <2>2, <2>3
<1>16. p.limit # None => n + 1 <= p.limit
  BY <1>1, <1>6
<1>17. QueueOK(p)
  <2>1. p.count = n + 1 /\ n + 1 - 1 = n /\ ~p.end /\ n + 1 <= setup.frames
    BY <1>1, <1>6
  <2> HIDE DEF f, n
  <2> QED
    BY <2>1, <1>11, <1>12, <1>13, <1>14, <1>15, <1>16 DEF QueueOK
<1>18. p.end = FALSE /\ p.count > 0
  BY <1>1, <1>6
<1> QED
  BY <1>10, <1>17, <1>18 DEF p, decided

\* flush: it decides on all that are left.
LEMMA FlushOK ==
  ASSUME setup \in Setups, NEW b, CtxOK(b), ~b.end,
         NEW c \in Contexts, Grown(b, c),
         c.count = b.count, c.frames = b.frames, c.limit = b.count,
         c.end = TRUE, c.keyframes = b.keyframes, c.nextFrame = b.nextFrame,
         c.forced = b.forced, NEW cuts
  PROVE  LET p == PlaceKeyframes(c, Decidable(c, TRUE), cuts)
         IN Grown(b, p) /\ QueueOK(p) /\ p.end = TRUE
<1> DEFINE decided == Decidable(c, TRUE)
           p == PlaceKeyframes(c, decided, cuts)
           n == b.count
           f == b.nextFrame
           S == {0} \cup c.frames \cup (IF c.end THEN {c.count} ELSE {})
           T == {i \in c.frames : i >= f - 1}
           left == Cardinality(T) - 1
<1>1. /\ b \in Contexts /\ QueueOK(b) /\ n \in Nat /\ f \in Nat /\ Distance \in Nat
      /\ b.frames \subseteq Nat /\ b.end \in BOOLEAN
  BY CtxFacts, SetupFacts DEF CtxOK
<1>2. /\ b.frames \subseteq 0 .. n - 1 /\ \A i \in b.frames : i .. n - 1 \subseteq b.frames
      /\ n > 0 => n - 1 \in b.frames
      /\ b.forced \subseteq 0 .. n - 1
      /\ 0 \in b.keyframes /\ b.keyframes \subseteq 0 .. f - 1
      /\ f = 1 \/ f \in 1 .. n
      /\ f - 1 \in b.frames \/ n = 0
      /\ n <= setup.frames
  BY <1>1 DEF QueueOK
<1>3. LookaheadEnd(c) = n
  <2>1. S = {0} \cup b.frames \cup {n}
    BY <1>1
  <2>2. S \subseteq 0 .. n /\ S # {}
    BY <1>1, <1>2, <2>1
  <2>3. Max(S) \in S /\ \A x \in S : x <= Max(S)
    <3> HIDE DEF S
    <3> QED
      BY <1>1, <2>2, MaxFacts
  <2>4. Max(S) = n
    <3>1. n \in S
      BY <2>1
    <3>2. Max(S) \in 0 .. n /\ n <= Max(S)
      <4> HIDE DEF S
      <4> QED
        BY <2>2, <2>3, <3>1
    <3> HIDE DEF S
    <3> QED
      BY <1>1, <3>2
  <2> QED
    BY <2>4 DEF LookaheadEnd
<1>4. decided = f .. f + left - 1
  <2>1. ~NeedsMoreFrames(c, n)
    BY <1>1 DEF NeedsMoreFrames, None
  <2>2. ~NeedsMoreFrameQLookahead(c, f)
    BY <1>3, <2>1 DEF NeedsMoreFrameQLookahead
  <2> QED
    BY <2>2 DEF Decidable
<1>5. IF n = 0 THEN left = -1 ELSE left = n - f /\ left \in Nat
  <2>1. CASE n = 0
    <3>1. T = {}
      BY <1>1, <1>2, <2>1
    <3> QED
      BY <2>1, <3>1, FS_EmptySet
  <2>2. CASE n # 0
    <3>1. T = f - 1 .. n - 1
      <4>1. f - 1 .. n - 1 \subseteq b.frames /\ f - 1 \in Nat
        BY <1>1, <1>2, <2>2
      <4> QED
        BY <1>1, <1>2, <4>1
    <3>2. f - 1 <= n - 1 /\ f - 1 \in Int /\ n - 1 \in Int
      BY <1>1, <1>2, <2>2
    <3>3. Cardinality(T) = (n - 1) - (f - 1) + 1
      <4> HIDE DEF T
      <4> QED
        BY <3>1, <3>2, FS_Interval
    <3> HIDE DEF T
    <3> QED
      BY <1>1, <2>2, <3>2, <3>3
  <2> QED
    BY <2>1, <2>2
<1> HIDE DEF left
<1>6. decided \in SUBSET Nat /\ Cardinality(decided) = IF n = 0 THEN 0 ELSE n - f
  <2>1. CASE n = 0
    <3>1. decided = {}
      <4>1. f + left - 1 < f
        BY <1>1, <1>5, <2>1
      <4>2. f .. f + left - 1 = {}
        BY <1>1, <1>5, <2>1, <4>1
      <4> QED
        BY <1>4, <4>2
    <3> QED
      BY <2>1, <3>1, FS_EmptySet
  <2>2. CASE n # 0
    <3>1. f + left - 1 = n - 1 /\ f \in Int /\ n - 1 \in Int /\ f <= n
      BY <1>1, <1>5, <2>2
    <3>2. decided = f .. n - 1
      BY <1>4, <3>1
    <3>3. Cardinality(f .. n - 1) = IF f > n - 1 THEN 0 ELSE (n - 1) - f + 1
      BY <3>1, FS_Interval
    <3>4. Cardinality(decided) = n - f
      <4> HIDE DEF decided
      <4> QED
        BY <1>1, <3>1, <3>2, <3>3
    <3>5. decided \subseteq Nat
      <4>1. f .. n - 1 \subseteq Nat
        BY <1>1
      <4> QED
        BY <3>2, <4>1
    <3> QED
      BY <2>2, <3>4, <3>5
  <2> QED
    BY <2>1, <2>2
<1>7. Cardinality(decided) \in Nat
  BY <1>1, <1>5, <1>6
<1> HIDE DEF decided
<1>8. /\ p \in Contexts /\ p.count = n /\ p.limit = n /\ p.output = c.output
      /\ p.processed = c.processed /\ p.frames = b.frames /\ p.end = TRUE
      /\ p.data = c.data /\ p.gopOutput = c.gopOutput /\ p.gopInput = c.gopInput
      /\ p.forced = b.forced /\ p.nextOutput = c.nextOutput /\ p.opaque = c.opaque
      /\ p.nextFrame = f + Cardinality(decided)
      /\ b.keyframes \subseteq p.keyframes
      /\ \A i \in p.keyframes : i \in b.keyframes \/ i \in decided
  <2>1. /\ p \in Contexts /\ p.count = c.count /\ p.limit = c.limit /\ p.output = c.output
        /\ p.processed = c.processed /\ p.frames = c.frames /\ p.end = c.end
        /\ p.data = c.data /\ p.gopOutput = c.gopOutput /\ p.gopInput = c.gopInput
        /\ p.forced = c.forced /\ p.nextOutput = c.nextOutput /\ p.opaque = c.opaque
        /\ p.nextFrame = c.nextFrame + Cardinality(decided)
        /\ c.keyframes \subseteq p.keyframes
        /\ \A i \in p.keyframes : i \in c.keyframes \/ i \in decided
    <3>1. decided \in SUBSET Nat
      BY <1>6
    <3> QED
      BY ONLY c \in Contexts, <3>1, <1>7, PlaceFacts
  <2> HIDE DEF p
  <2> QED
    BY <2>1
<1>9. /\ c.data = b.data /\ c.gopOutput = b.gopOutput /\ c.gopInput = b.gopInput
      /\ c.nextOutput = b.nextOutput /\ c.output = b.output /\ c.processed = b.processed
      /\ b.opaque \subseteq c.opaque
  BY DEF Grown
<1> HIDE DEF p
<1>10. p.nextFrame = (IF n = 0 THEN f ELSE n) /\ (n = 0 => f = 1) /\ (n # 0 => f \in 1 .. n)
  BY <1>1, <1>2, <1>5, <1>6, <1>8
<1>11. \A i \in decided : i \in f .. p.nextFrame - 1
  BY <1>1, <1>4, <1>5, <1>10
<1>12. Grown(b, p)
  <2>1. \A i \in p.keyframes : i \in b.keyframes \/ i >= f
    BY <1>8, <1>11
  <2>2. f <= p.nextFrame
    BY <1>1, <1>10
  <2>3. b.limit # None => p.limit # None /\ p.limit <= b.limit
    BY <1>1, <1>8 DEF QueueOK, None
  <2>4. b.count .. p.count - 1 = {}
    BY <1>1, <1>8
  <2> QED
    BY <1>1, <1>8, <1>9, <2>1, <2>2, <2>3, <2>4 DEF Grown
<1>13. p.keyframes \subseteq 0 .. p.nextFrame - 1 /\ 0 \in p.keyframes
  <2>1. 0 .. f - 1 \subseteq 0 .. p.nextFrame - 1 /\ f .. p.nextFrame - 1 \subseteq 0 .. p.nextFrame - 1
    BY <1>1, <1>10
  <2> QED
    BY <1>2, <1>8, <1>11, <2>1
<1>14. QueueOK(p)
  <2>1. p.nextFrame = 1 \/ p.nextFrame \in 1 .. n
    BY <1>1, <1>10
  <2>2. n > 0 => p.nextFrame = n
    BY <1>1, <1>10
  <2>3. n <= n
    BY <1>1
  <2> HIDE DEF f, n
  <2> QED
    BY <1>1, <1>2, <1>8, <1>13, <2>1, <2>2, <2>3 DEF QueueOK, n
<1> QED
  BY <1>8, <1>12, <1>14 DEF p, decided

----------------------------------------------------------------------------
(* The actions *)

\* The configuration stays.
LEMMA PrimedOK ==
  ASSUME setup' = setup, CtxOK(ctx')
  PROVE  CtxOK(ctx)'
<1>1. /\ ctx' \in Contexts /\ QueueOK(ctx') /\ DataOK(ctx') /\ GroupOK(ctx') /\ OrderOK(ctx')
      /\ RefsOK(ctx') /\ ProcessedOK(ctx') /\ SourceThere(ctx')
  BY DEF CtxOK
<1>2. Depth' = Depth /\ Distance' = Distance
  BY DEF Depth, Distance
<1>3. QueueOK(ctx)'
  BY <1>1, <1>2 DEF QueueOK
<1>4. DataOK(ctx)'
  BY <1>1, <1>2 DEF DataOK
<1>5. GroupOK(ctx)'
  BY <1>1, <1>2 DEF GroupOK, InGroup
<1>6. OrderOK(ctx)' /\ RefsOK(ctx)' /\ ProcessedOK(ctx)' /\ SourceThere(ctx)'
  BY <1>1 DEF OrderOK, RefsOK, RefOK, ProcessedOK, SourceThere
<1>7. (ctx \in Contexts)'
  BY <1>1 DEF Contexts
<1> QED
  BY <1>3, <1>4, <1>5, <1>6, <1>7 DEF CtxOK

LEMMA PrimedAhead ==
  /\ CodedAhead(ctx') => CodedAhead(ctx)'
  /\ SyncOK(ctx', decoder') => SyncOK(ctx, decoder)'
  BY DEF CodedAhead, SyncOK

LEMMA InitOK == Init => IInv
<1> SUFFICES ASSUME Init
             PROVE  IInv
  OBVIOUS
<1>1. /\ setup \in Setups
      /\ ctx = [count |-> 0, limit |-> setup.limit, output |-> 0, processed |-> 0,
                frames |-> {}, end |-> FALSE, data |-> [n \in {} |-> Placeholder],
                gopOutput |-> [n \in {} |-> 0], gopInput |-> [n \in {} |-> 0],
                keyframes |-> {0}, forced |-> {}, nextFrame |-> 1, nextOutput |-> 0,
                opaque |-> {}, t35 |-> {}]
      /\ flushing = FALSE /\ ret = "none" /\ ended = FALSE
      /\ decoder = [i \in RefSlots |-> [output |-> None, input |-> None]]
  BY DEF Init, InitCtx
<1>2. setup.limit \in Nat \cup {None} /\ setup.frames \in Nat /\ Distance \in Nat
  BY <1>1, SetupFacts
<1>3. /\ [n \in {} |-> 0] \in Maps(Nat)
      /\ [n \in {} |-> Placeholder] \in Maps(FrameInvariants \cup {Placeholder})
  BY MapFacts
<1>4. ctx \in Contexts
  <2>1. {} \in SUBSET Nat /\ {0} \in SUBSET Nat /\ 0 \in Nat /\ 1 \in Nat /\ FALSE \in BOOLEAN
    OBVIOUS
  <2> QED
    BY <1>1, <1>2, <1>3, <2>1 DEF Contexts
<1>5. /\ ctx.count = 0 /\ ctx.limit = setup.limit /\ ctx.output = 0 /\ ctx.processed = 0
      /\ ctx.frames = {} /\ ctx.end = FALSE /\ DOMAIN ctx.data = {}
      /\ DOMAIN ctx.gopOutput = {} /\ DOMAIN ctx.gopInput = {}
      /\ ctx.keyframes = {0} /\ ctx.forced = {} /\ ctx.nextFrame = 1 /\ ctx.nextOutput = 0
  BY <1>1
<1>6. Live(ctx) = {} /\ Pending(ctx) = {}
  BY <1>5 DEF Live, Pending
<1>7. QueueOK(ctx)
  <2>1. 0 <= setup.frames /\ (setup.limit # None => 0 <= setup.limit)
    BY <1>2
  <2>2. {0} \subseteq 0 .. 1 - 1 /\ 0 <= 1 + Distance + 1
    BY <1>2
  <2> QED
    BY <1>5, <2>1, <2>2 DEF QueueOK
<1>8. DataOK(ctx) /\ GroupOK(ctx)
  BY <1>5, <1>6 DEF DataOK, GroupOK
<1>9. OrderOK(ctx) /\ RefsOK(ctx) /\ ProcessedOK(ctx) /\ SourceThere(ctx)
  BY <1>5, <1>6 DEF OrderOK, RefsOK, ProcessedOK, SourceThere
<1>10. CodedAhead(ctx) /\ SyncOK(ctx, decoder)
  BY <1>5, <1>6 DEF CodedAhead, SyncOK
<1>11. decoder \in [RefSlots -> [output : Nat \cup {None}, input : Nat \cup {None}]]
  BY <1>1
<1> QED
  BY <1>1, <1>4, <1>5, <1>7, <1>8, <1>9, <1>10, <1>11 DEF IInv, CtxOK

\* A frame sent: the loop goes on with it and the key frames that it decides on.
LEMMA SendMade ==
  ASSUME IInv, NEW forced \in BOOLEAN, Send(forced)
  PROVE  \E p : /\ Grown(ctx, p) /\ QueueOK(p) /\ p.end = FALSE /\ p.count > 0
               /\ p.limit = ctx.limit /\ p.count = ctx.count + 1
               /\ ctx' = ComputeFrameInvariants(p)
<1> DEFINE i == ctx.count
           c == [ctx EXCEPT !.count = @ + 1, !.frames = @ \cup {i},
                            !.forced = IF forced THEN @ \cup {i} ELSE @,
                            !.opaque = @ \cup {i}, !.t35 = @ \cup {i}]
<1>1. /\ setup \in Setups /\ CtxOK(ctx) /\ ctx \in Contexts /\ SyncOK(ctx, decoder)
      /\ decoder \in [RefSlots -> [output : Nat \cup {None}, input : Nat \cup {None}]]
      /\ ctx.end = flushing /\ ended \in BOOLEAN /\ flushing \in BOOLEAN
      /\ ~flushing => CodedAhead(ctx) /\ ctx.limit = setup.limit
  BY DEF IInv, CtxOK
<1>2. /\ ~flushing /\ i < setup.frames /\ (setup.limit # None => i < setup.limit)
      /\ ret' = "Ok"
      /\ setup' = setup /\ flushing' = flushing /\ ended' = ended /\ decoder' = decoder
  BY DEF Send
<1>3. PICK cuts : ctx' = Sent(c, FALSE, cuts)
  BY DEF Send
<1>4. /\ i \in Nat /\ ctx.frames \in SUBSET Nat /\ ctx.forced \in SUBSET Nat
      /\ ctx.opaque \in SUBSET Nat /\ ctx.t35 \in SUBSET Nat /\ ctx.nextFrame \in Nat
  BY <1>1, CtxFacts
<1>5. /\ c \in Contexts /\ c.count = i + 1 /\ c.frames = ctx.frames \cup {i}
      /\ c.limit = ctx.limit /\ c.end = ctx.end /\ c.keyframes = ctx.keyframes
      /\ c.nextFrame = ctx.nextFrame
      /\ c.forced = ctx.forced \/ c.forced = ctx.forced \cup {i}
      /\ c.data = ctx.data /\ c.gopOutput = ctx.gopOutput /\ c.gopInput = ctx.gopInput
      /\ c.nextOutput = ctx.nextOutput /\ c.output = ctx.output /\ c.processed = ctx.processed
      /\ c.opaque = ctx.opaque \cup {i}
  <2>1. /\ i + 1 \in Nat /\ ctx.frames \cup {i} \in SUBSET Nat /\ ctx.forced \cup {i} \in SUBSET Nat
        /\ ctx.opaque \cup {i} \in SUBSET Nat /\ ctx.t35 \cup {i} \in SUBSET Nat
    BY <1>4
  <2> QED
    BY <1>1, <1>4, <2>1 DEF Contexts
<1> HIDE DEF c
<1>6. Grown(ctx, c)
  <2>1. i <= i + 1 /\ ctx.nextFrame <= ctx.nextFrame /\ i .. i + 1 - 1 = {i}
        /\ (ctx.limit # None => ctx.limit <= ctx.limit)
    BY <1>1, <1>4, CtxFacts
  <2> QED
    BY <1>5, <2>1 DEF Grown
<1> DEFINE p == PlaceKeyframes(c, Decidable(c, FALSE), cuts)
<1>7. Grown(ctx, p) /\ QueueOK(p) /\ p.end = FALSE /\ p.count > 0 /\ p.limit = ctx.limit
      /\ p.count = ctx.count + 1
  <2>1. Grown(ctx, p) /\ QueueOK(p) /\ p.end = FALSE /\ p.count > 0
    BY <1>1, <1>2, <1>5, <1>6, SendOK
  <2>2. p.limit = c.limit /\ p.count = c.count
    BY <1>5 DEF PlaceKeyframes, Contexts
  <2> QED
    BY <1>5, <2>1, <2>2
<1>8. ctx' = ComputeFrameInvariants(p)
  BY <1>3 DEF Sent
<1> HIDE DEF p
<1> QED
  BY <1>7, <1>8

LEMMA SendKeeps ==
  ASSUME IInv, NEW forced \in BOOLEAN, Send(forced)
  PROVE  IInv'
<1>1. /\ setup \in Setups /\ CtxOK(ctx) /\ SyncOK(ctx, decoder)
      /\ decoder \in [RefSlots -> [output : Nat \cup {None}, input : Nat \cup {None}]]
      /\ ctx.end = flushing /\ ended \in BOOLEAN /\ flushing \in BOOLEAN
      /\ ~flushing => CodedAhead(ctx) /\ ctx.limit = setup.limit
  BY DEF IInv
<1>2. /\ ~flushing /\ ret' = "Ok"
      /\ setup' = setup /\ flushing' = flushing /\ ended' = ended /\ decoder' = decoder
  BY DEF Send
<1>7. PICK p : /\ Grown(ctx, p) /\ QueueOK(p) /\ p.end = FALSE /\ p.count > 0
               /\ p.limit = ctx.limit /\ ctx' = ComputeFrameInvariants(p)
  BY SendMade
<1>8. ctx' = ComputeFrameInvariants(p)
  BY <1>7
<1>9. CtxOK(p) /\ CodedAhead(p) /\ SyncOK(p, decoder)
  BY <1>1, <1>2, <1>7, GrownOK
<1>10. /\ CtxOK(ctx') /\ CodedAhead(ctx') /\ SyncOK(ctx', decoder') /\ ctx'.end = FALSE
       /\ ctx'.limit = setup.limit
  <2> DEFINE e == ComputeFrameInvariants(p)
  <2>1. CtxOK(e) /\ CodedAhead(e) /\ SyncOK(e, decoder) /\ e.end = p.end /\ e.limit = p.limit
    BY <1>1, <1>7, <1>9, LoopKeeps
  <2> HIDE DEF e
  <2>2. ctx' = e
    BY <1>8 DEF e
  <2> QED
    BY <1>1, <1>2, <1>7, <2>1, <2>2
<1>11. CtxOK(ctx)' /\ CodedAhead(ctx)' /\ SyncOK(ctx, decoder)'
  BY <1>2, <1>10, PrimedOK, PrimedAhead
<1> QED
  BY <1>1, <1>2, <1>10, <1>11 DEF IInv

\* A flush: the loop goes on with all key frames decided.
LEMMA FlushMade ==
  ASSUME IInv, Flush
  PROVE  \E p : /\ Grown(ctx, p) /\ QueueOK(p) /\ p.end = TRUE /\ p.count = ctx.count
               /\ ctx' = ComputeFrameInvariants(p)
<1> DEFINE c == [ctx EXCEPT !.limit = ctx.count, !.end = TRUE]
<1>1. /\ setup \in Setups /\ CtxOK(ctx) /\ ctx \in Contexts /\ SyncOK(ctx, decoder)
      /\ decoder \in [RefSlots -> [output : Nat \cup {None}, input : Nat \cup {None}]]
      /\ ctx.end = flushing /\ ended \in BOOLEAN /\ flushing \in BOOLEAN
      /\ ~flushing => CodedAhead(ctx)
  BY DEF IInv, CtxOK
<1>2. /\ ~flushing /\ flushing' = TRUE /\ ret' = "Ok"
      /\ setup' = setup /\ ended' = ended /\ decoder' = decoder
  BY DEF Flush
<1>3. PICK cuts : ctx' = Sent(c, TRUE, cuts)
  BY DEF Flush
<1>4. /\ ctx.count \in Nat /\ ctx.nextFrame \in Nat
  BY <1>1, CtxFacts
<1>5. /\ c \in Contexts /\ c.count = ctx.count /\ c.frames = ctx.frames
      /\ c.limit = ctx.count /\ c.end = TRUE /\ c.keyframes = ctx.keyframes
      /\ c.nextFrame = ctx.nextFrame /\ c.forced = ctx.forced
      /\ c.data = ctx.data /\ c.gopOutput = ctx.gopOutput /\ c.gopInput = ctx.gopInput
      /\ c.nextOutput = ctx.nextOutput /\ c.output = ctx.output /\ c.processed = ctx.processed
      /\ c.opaque = ctx.opaque
  BY <1>1, <1>4 DEF Contexts
<1> HIDE DEF c
<1>6. Grown(ctx, c)
  <2>1. ctx.count .. ctx.count - 1 = {}
    BY <1>4
  <2>2. ctx.limit # None => ctx.count # None /\ ctx.count <= ctx.limit
    BY <1>1, <1>4 DEF CtxOK, QueueOK, None
  <2> QED
    BY <1>4, <1>5, <2>1, <2>2 DEF Grown
<1> DEFINE p == PlaceKeyframes(c, Decidable(c, TRUE), cuts)
<1>7. Grown(ctx, p) /\ QueueOK(p) /\ p.end = TRUE /\ p.count = ctx.count
  <2>1. Grown(ctx, p) /\ QueueOK(p) /\ p.end = TRUE
    BY <1>1, <1>2, <1>5, <1>6, FlushOK
  <2>2. p.count = c.count
    BY <1>5 DEF PlaceKeyframes, Contexts
  <2> QED
    BY <1>5, <2>1, <2>2
<1>8. ctx' = ComputeFrameInvariants(p)
  BY <1>3 DEF Sent
<1> HIDE DEF p
<1> QED
  BY <1>7, <1>8

LEMMA FlushKeeps ==
  ASSUME IInv, Flush
  PROVE  IInv'
<1>1. /\ setup \in Setups /\ CtxOK(ctx) /\ SyncOK(ctx, decoder)
      /\ decoder \in [RefSlots -> [output : Nat \cup {None}, input : Nat \cup {None}]]
      /\ ctx.end = flushing /\ ended \in BOOLEAN /\ flushing \in BOOLEAN
      /\ ~flushing => CodedAhead(ctx)
  BY DEF IInv
<1>2. /\ ~flushing /\ flushing' = TRUE /\ ret' = "Ok"
      /\ setup' = setup /\ ended' = ended /\ decoder' = decoder
  BY DEF Flush
<1>7. PICK p : /\ Grown(ctx, p) /\ QueueOK(p) /\ p.end = TRUE /\ ctx' = ComputeFrameInvariants(p)
  BY FlushMade
<1>8. ctx' = ComputeFrameInvariants(p)
  BY <1>7
<1>9. CtxOK(p) /\ CodedAhead(p) /\ SyncOK(p, decoder)
  BY <1>1, <1>2, <1>7, GrownOK
<1>10. CtxOK(ctx') /\ CodedAhead(ctx') /\ SyncOK(ctx', decoder') /\ ctx'.end = TRUE
  <2> DEFINE e == ComputeFrameInvariants(p)
  <2>1. CtxOK(e) /\ CodedAhead(e) /\ SyncOK(e, decoder) /\ e.end = p.end
    BY <1>1, <1>7, <1>9, LoopKeeps
  <2> HIDE DEF e
  <2>2. ctx' = e
    BY <1>8 DEF e
  <2> QED
    BY <1>1, <1>2, <1>7, <2>1, <2>2
<1>11. CtxOK(ctx)' /\ SyncOK(ctx, decoder)'
  BY <1>2, <1>10, PrimedOK, PrimedAhead
<1> QED
  BY <1>1, <1>2, <1>10, <1>11 DEF IInv

\* A call that leaves the encoder as it is.
LEMMA SameKeeps ==
  ASSUME IInv, UNCHANGED <<setup, ctx, flushing, decoder>>, ended' \in BOOLEAN,
         ret' \in {"none", "Ok", "EnoughData", "NeedMoreData", "LimitReached", "Encoded"}
  PROVE  IInv'
<1>1. /\ setup \in Setups /\ CtxOK(ctx) /\ SyncOK(ctx, decoder)
      /\ decoder \in [RefSlots -> [output : Nat \cup {None}, input : Nat \cup {None}]]
      /\ ctx.end = flushing /\ ended \in BOOLEAN /\ flushing \in BOOLEAN
      /\ ~flushing => CodedAhead(ctx) /\ ctx.limit = setup.limit
  BY DEF IInv
<1>2. setup' = setup /\ ctx' = ctx /\ decoder' = decoder /\ flushing' = flushing
  OBVIOUS
<1>3. CtxOK(ctx') /\ SyncOK(ctx', decoder') /\ (CodedAhead(ctx) => CodedAhead(ctx'))
  BY <1>1, <1>2
<1>4. CtxOK(ctx)' /\ SyncOK(ctx, decoder)' /\ (CodedAhead(ctx) => CodedAhead(ctx)')
  BY <1>2, <1>3, PrimedOK, PrimedAhead
<1> QED
  BY <1>1, <1>2, <1>4 DEF IInv

----------------------------------------------------------------------------
(* Receiving *)

\* Context d is c behind output frame n, or before it: reference buffers may
\* have changed.
Passed(c, d, n) ==
  /\ d \in Contexts
  /\ d.count = c.count /\ d.limit = c.limit /\ d.processed = c.processed
  /\ d.frames = c.frames /\ d.end = c.end /\ d.keyframes = c.keyframes
  /\ d.forced = c.forced /\ d.nextFrame = c.nextFrame /\ d.nextOutput = c.nextOutput
  /\ d.gopOutput = c.gopOutput /\ d.gopInput = c.gopInput
  /\ d.output \in {n, n + 1}
  /\ DOMAIN d.data = DOMAIN c.data /\ Live(d) = Live(c)
  /\ \A m \in Live(c) :
       /\ d.data[m].type = c.data[m].type /\ d.data[m].input = c.data[m].input
       /\ d.data[m].sef = c.data[m].sef /\ d.data[m].show = c.data[m].show
       /\ d.data[m].refresh = c.data[m].refresh /\ d.data[m].look = c.data[m].look

\* The frame to be encoded next.
LEMMA NextFacts ==
  ASSUME NEW c, CtxOK(c), Pending(c) # {}
  PROVE  /\ Next0(c) \in Pending(c) /\ Next0(c) \in Live(c) /\ Next0(c) \in Nat
         /\ c.output <= Next0(c) /\ Next0(c) < c.nextOutput
         /\ c.data[Next0(c)] \in FrameInvariants
         /\ \A m \in Live(c) : m >= c.output => m >= Next0(c)
         /\ \A m \in Pending(c) : m >= Next0(c)
<1>1. c \in Contexts /\ DataOK(c) /\ c.output \in Nat /\ c.nextOutput \in Nat
  BY CtxFacts DEF CtxOK
<1>2. /\ Pending(c) = {m \in Live(c) : m >= c.output} /\ Live(c) \subseteq DOMAIN c.data
      /\ DOMAIN c.data \subseteq Nat /\ \A m \in Live(c) : c.data[m] \in FrameInvariants
      /\ DOMAIN c.data \subseteq 0 .. c.nextOutput - 1
  BY <1>1, LiveFacts DEF DataOK
<1>3. Pending(c) \subseteq Nat
  BY <1>2
<1>4. Next0(c) \in Pending(c) /\ \A m \in Pending(c) : Next0(c) <= m
  BY <1>3, MinFacts DEF Next0
<1>5. Next0(c) \in Live(c) /\ Next0(c) \in Nat /\ Next0(c) >= c.output /\ Next0(c) \in 0 .. c.nextOutput - 1
  BY <1>2, <1>4
<1> HIDE DEF Next0
<1>6. \A m \in Pending(c) : m >= Next0(c)
  BY <1>3, <1>4, <1>5
<1> QED
  BY <1>1, <1>2, <1>4, <1>5, <1>6

LEMMA PassedOK ==
  ASSUME NEW c, CtxOK(c), Pending(c) # {}, NEW d, Passed(c, d, Next0(c)), RefsOK(d)
  PROVE  /\ CtxOK(d)
         /\ Pending(d) = {m \in Pending(c) : m >= d.output}
         /\ \A m \in Live(c) : IsCoded(d, m) <=> IsCoded(c, m)
<1> DEFINE n == Next0(c)
<1>1. /\ c \in Contexts /\ QueueOK(c) /\ DataOK(c) /\ GroupOK(c) /\ OrderOK(c)
      /\ ProcessedOK(c) /\ SourceThere(c) /\ c.output \in Nat /\ c.nextOutput \in Nat
  BY CtxFacts DEF CtxOK
<1>2. /\ n \in Live(c) /\ n \in Nat /\ c.output <= n /\ n < c.nextOutput
      /\ \A m \in Live(c) : m >= c.output => m >= n
  BY NextFacts
<1> HIDE DEF n
<1>3. /\ d \in Contexts
      /\ d.count = c.count /\ d.limit = c.limit /\ d.processed = c.processed
      /\ d.frames = c.frames /\ d.end = c.end /\ d.keyframes = c.keyframes
      /\ d.forced = c.forced /\ d.nextFrame = c.nextFrame /\ d.nextOutput = c.nextOutput
      /\ d.gopOutput = c.gopOutput /\ d.gopInput = c.gopInput
      /\ d.output \in {n, n + 1}
      /\ DOMAIN d.data = DOMAIN c.data /\ Live(d) = Live(c)
      /\ \A m \in Live(c) :
           /\ d.data[m].input = c.data[m].input
           /\ d.data[m].sef = c.data[m].sef /\ d.data[m].show = c.data[m].show
  BY DEF Passed, n
<1>4. d.output \in Nat /\ c.output <= d.output /\ d.output <= d.nextOutput
  BY <1>1, <1>2, <1>3
<1>5. /\ Pending(c) = {m \in Live(c) : m >= c.output} /\ Pending(d) = {m \in Live(d) : m >= d.output}
      /\ Live(c) \subseteq DOMAIN c.data /\ DOMAIN c.data \subseteq Nat
  BY <1>1, <1>3, LiveFacts
<1>6. Pending(d) = {m \in Pending(c) : m >= d.output}
  BY <1>1, <1>3, <1>4, <1>5
<1>7. \A m \in Live(c) : IsCoded(d, m) <=> IsCoded(c, m)
  <2>1. \A m \in Live(c) : ~Skipped(c, m) /\ ~Skipped(d, m)
    BY <1>3 DEF Live
  <2> QED
    BY <1>3, <2>1 DEF IsCoded
<1>8. QueueOK(d)
  BY <1>1, <1>3 DEF QueueOK
<1>9. DataOK(d)
  <2>1. \A m \in 0 .. c.nextOutput - 1 : m + 1 >= d.output => m + 1 >= c.output
    BY <1>1, <1>4
  <2> QED
    BY <1>1, <1>3, <1>4, <2>1 DEF DataOK
<1>10. GroupOK(d)
  <2>1. ASSUME NEW m \in Live(c), NEW g, NEW k, InGroup(c, m, g, k)
        PROVE  InGroup(d, m, g, k)
    BY <1>3, <2>1 DEF InGroup
  <2> QED
    BY <1>1, <1>3, <2>1 DEF GroupOK
<1>11. OrderOK(d)
  BY <1>1, <1>3 DEF OrderOK
<1>12. ProcessedOK(d)
  <2> SUFFICES ASSUME d.processed > 0
               PROVE  \E m \in Live(d) : m < d.output /\ d.data[m].show
                                         /\ d.processed <= d.data[m].input + 1
    BY DEF ProcessedOK
  <2>1. PICK m \in Live(c) : m < c.output /\ c.data[m].show /\ c.processed <= c.data[m].input + 1
    BY <1>1, <1>3 DEF ProcessedOK
  <2>2. m < d.output
    BY <1>1, <1>4, <1>5, <2>1
  <2> QED
    BY <1>3, <2>1, <2>2
<1>13. SourceThere(d)
  BY <1>1, <1>3, <1>5, <1>6, <1>7 DEF SourceThere
<1> QED
  BY <1>3, <1>6, <1>7, <1>8, <1>9, <1>10, <1>11, <1>12, <1>13 DEF CtxOK

\* What is processed is before the next frame.
LEMMA ProcessedBefore ==
  ASSUME NEW c, CtxOK(c), Pending(c) # {}
  PROVE  c.processed <= c.data[Next0(c)].input
<1>1. /\ c \in Contexts /\ OrderOK(c) /\ ProcessedOK(c) /\ c.output \in Nat /\ c.processed \in Nat
  BY CtxFacts DEF CtxOK
<1>2. /\ Next0(c) \in Live(c) /\ Next0(c) \in Nat /\ c.output <= Next0(c)
      /\ c.data[Next0(c)].input \in Nat
  BY NextFacts, FiFacts
<1>3. CASE c.processed = 0
  BY <1>2, <1>3
<1>4. CASE c.processed # 0
  <2>1. PICK m \in Live(c) : m < c.output /\ c.data[m].show /\ c.processed <= c.data[m].input + 1
    BY <1>1, <1>4 DEF ProcessedOK
  <2>2. m \in Nat /\ c.data[m].input \in Nat
    BY <1>1, LiveFacts, FiFacts
  <2>3. m < Next0(c)
    BY <1>1, <1>2, <2>1, <2>2
  <2>4. c.data[m].input < c.data[Next0(c)].input
    BY <1>1, <1>2, <2>1, <2>3 DEF OrderOK
  <2> QED
    BY <1>1, <1>2, <2>1, <2>2, <2>4
<1> QED
  BY <1>3, <1>4

\* The context after a packet.
Collected(d, input) ==
  [GarbageCollect([d EXCEPT !.processed = @ + 1], input) EXCEPT !.opaque = @ \ {input}]

\* What is collected: output frames other than those of K, and input frames.
LEMMA CollectFacts ==
  ASSUME NEW d \in Contexts, NEW input \in Nat
  PROVE  \E K \in SUBSET Nat :
           LET f == Collected(d, input)
           IN /\ \A m \in Nat : m + 1 >= d.output => m \in K
              /\ f \in Contexts
              /\ f.count = d.count /\ f.limit = d.limit /\ f.output = d.output
              /\ f.processed = d.processed + 1 /\ f.end = d.end /\ f.keyframes = d.keyframes
              /\ f.forced = d.forced /\ f.nextFrame = d.nextFrame /\ f.nextOutput = d.nextOutput
              /\ f.frames = {i \in d.frames : i >= input} /\ f.opaque = d.opaque \ {input}
              /\ f.data = [n \in DOMAIN d.data \cap K |-> d.data[n]]
              /\ f.gopOutput = [n \in DOMAIN d.gopOutput \cap K |-> d.gopOutput[n]]
              /\ f.gopInput = [n \in DOMAIN d.gopInput \cap K |-> d.gopInput[n]]
<1> DEFINE f == Collected(d, input)
           e == [d EXCEPT !.processed = @ + 1]
           left == {i \in d.frames : i >= input}
           Some(g, K) == [n \in DOMAIN g \cap K |-> g[n]]
           Is(K) == [d EXCEPT !.processed = d.processed + 1, !.opaque = d.opaque \ {input},
                              !.frames = left,
                              !.data = Some(d.data, K), !.gopOutput = Some(d.gopOutput, K),
                              !.gopInput = Some(d.gopInput, K)]
<1>1. /\ d.output \in Nat /\ d.processed \in Nat /\ d.frames \subseteq Nat
      /\ d.data \in Maps(FrameInvariants \cup {Placeholder})
      /\ d.gopOutput \in Maps(Nat) /\ d.gopInput \in Maps(Nat)
      /\ d.opaque \subseteq Nat
  BY CtxFacts
<1>2. ASSUME NEW T, NEW g \in Maps(T), NEW K \in SUBSET Nat
      PROVE  /\ Some(g, K) \in Maps(T)
             /\ DOMAIN g \subseteq K => Some(g, K) = g
  <2>1. DOMAIN g \subseteq Nat /\ g = [m \in DOMAIN g |-> g[m]] /\ \A m \in DOMAIN g : g[m] \in T
    BY MapFacts
  <2> DEFINE h == Some(g, K)
  <2>2. DOMAIN h \subseteq Nat /\ h = [m \in DOMAIN h |-> h[m]] /\ \A m \in DOMAIN h : h[m] \in T
    BY <2>1
  <2>3. h \in Maps(T)
    <3> HIDE DEF h
    <3> QED
      BY <2>2, MapFacts
  <2>4. ASSUME DOMAIN g \subseteq K
        PROVE  h = g
    <3>1. DOMAIN g \cap K = DOMAIN g
      BY <2>4
    <3>2. h = [m \in DOMAIN g |-> g[m]]
      BY <3>1
    <3> QED
      BY <2>1, <3>2
  <2> QED
    BY <2>3, <2>4
<1>3. ASSUME NEW K \in SUBSET Nat
      PROVE  /\ Is(K) \in Contexts
             /\ Is(K).count = d.count /\ Is(K).limit = d.limit /\ Is(K).output = d.output
             /\ Is(K).processed = d.processed + 1 /\ Is(K).end = d.end
             /\ Is(K).keyframes = d.keyframes /\ Is(K).forced = d.forced
             /\ Is(K).nextFrame = d.nextFrame /\ Is(K).nextOutput = d.nextOutput
             /\ Is(K).frames = left /\ Is(K).opaque = d.opaque \ {input}
             /\ Is(K).data = Some(d.data, K) /\ Is(K).gopOutput = Some(d.gopOutput, K)
             /\ Is(K).gopInput = Some(d.gopInput, K)
  <2>1. /\ Some(d.data, K) \in Maps(FrameInvariants \cup {Placeholder})
        /\ Some(d.gopOutput, K) \in Maps(Nat) /\ Some(d.gopInput, K) \in Maps(Nat)
    <3> HIDE DEF Some
    <3> QED
      BY <1>1, <1>2
  <2>2. left \in SUBSET Nat /\ d.opaque \ {input} \in SUBSET Nat /\ d.processed + 1 \in Nat
    BY <1>1
  <2> HIDE DEF Some, left
  <2> QED
    BY <2>1, <2>2 DEF Contexts
<1>4. ASSUME NEW K \in SUBSET Nat, \A m \in Nat : m + 1 >= d.output => m \in K, f = Is(K)
      PROVE  \E L \in SUBSET Nat :
               /\ \A m \in Nat : m + 1 >= d.output => m \in L
               /\ f \in Contexts
               /\ f.count = d.count /\ f.limit = d.limit /\ f.output = d.output
               /\ f.processed = d.processed + 1 /\ f.end = d.end /\ f.keyframes = d.keyframes
               /\ f.forced = d.forced /\ f.nextFrame = d.nextFrame /\ f.nextOutput = d.nextOutput
               /\ f.frames = {i \in d.frames : i >= input} /\ f.opaque = d.opaque \ {input}
               /\ f.data = [n \in DOMAIN d.data \cap L |-> d.data[n]]
               /\ f.gopOutput = [n \in DOMAIN d.gopOutput \cap L |-> d.gopOutput[n]]
               /\ f.gopInput = [n \in DOMAIN d.gopInput \cap L |-> d.gopInput[n]]
  <2> HIDE DEF Is, f
  <2> QED
    BY <1>3, <1>4
<1>5. /\ Some(d.data, Nat) = d.data /\ Some(d.gopOutput, Nat) = d.gopOutput
      /\ Some(d.gopInput, Nat) = d.gopInput
  BY <1>1, <1>2, MapFacts
<1>6. CASE input = 0 \/ d.output < 2
  <2>1. input = 0 => left = d.frames
    BY <1>1
  <2>2. f = Is(Nat)
    <3>1. CASE input = 0
      <4>1. f = [e EXCEPT !.opaque = @ \ {input}]
        BY <3>1 DEF Collected, GarbageCollect
      <4> HIDE DEF f, left, Some
      <4> QED
        BY <1>5, <2>1, <3>1, <4>1 DEF Contexts
    <3>2. CASE input # 0
      <4>1. e.output = d.output
        BY DEF Contexts
      <4>2. f = [[e EXCEPT !.frames = {i \in @ : i >= input}] EXCEPT !.opaque = @ \ {input}]
        BY <1>6, <3>2, <4>1 DEF Collected, GarbageCollect
      <4>3. e.frames = d.frames /\ e.opaque = d.opaque
        BY DEF Contexts
      <4>4. [e EXCEPT !.frames = {i \in @ : i >= input}] = [e EXCEPT !.frames = left]
        BY <4>3
      <4> HIDE DEF f, left, Some
      <4> QED
        BY <1>5, <4>2, <4>4 DEF Contexts
    <3> QED
      BY <3>1, <3>2
  <2> HIDE DEF f, Is
  <2> QED
    BY <1>4, <2>2 DEF f
<1>7. CASE ~(input = 0 \/ d.output < 2)
  <2> DEFINE K == {m \in Nat : m >= d.output - 1}
             Keep(g) == [n \in {m \in DOMAIN g : m >= d.output - 1} |-> g[n]]
  <2>1. e.output = d.output /\ e.frames = d.frames /\ e.opaque = d.opaque
        /\ e.data = d.data /\ e.gopOutput = d.gopOutput /\ e.gopInput = d.gopInput
    BY DEF Contexts
  <2>2. \A T : \A g \in Maps(T) : {m \in DOMAIN g : m >= d.output - 1} = DOMAIN g \cap K
    BY MapFacts
  <2>3. \A T : \A g \in Maps(T) : Keep(g) = Some(g, K)
    BY <2>2
  <2>4. f = [[[e EXCEPT !.frames = {i \in @ : i >= input}]
                EXCEPT !.data = Keep(@), !.gopOutput = Keep(@), !.gopInput = Keep(@)]
               EXCEPT !.opaque = @ \ {input}]
    BY <1>7, <2>1 DEF Collected, GarbageCollect
  <2>5. [e EXCEPT !.frames = {i \in @ : i >= input}] = [e EXCEPT !.frames = left]
    BY <2>1
  <2>6. /\ Keep(d.data) = Some(d.data, K) /\ Keep(d.gopOutput) = Some(d.gopOutput, K)
        /\ Keep(d.gopInput) = Some(d.gopInput, K)
    BY <1>1, <2>3
  <2>7. f = Is(K)
    <3> HIDE DEF f, left, Some, Keep, K
    <3> QED
      BY <2>4, <2>5, <2>6 DEF Contexts
  <2>8. K \in SUBSET Nat /\ \A m \in Nat : m + 1 >= d.output => m \in K
    BY <1>1
  <2> HIDE DEF f, Is, K
  <2> QED
    BY <1>4, <2>7, <2>8 DEF f
<1> QED
  BY <1>6, <1>7

\* A packet that shows frame n.
LEMMA CollectedOK ==
  ASSUME setup \in Setups, NEW d, CtxOK(d), NEW n \in Live(d), d.output = n + 1,
         d.data[n].show, d.processed <= d.data[n].input, NEW dec
  PROVE  LET f == Collected(d, d.data[n].input)
         IN /\ CtxOK(f) /\ (CodedAhead(d) => CodedAhead(f)) /\ (SyncOK(d, dec) => SyncOK(f, dec))
            /\ f.end = d.end /\ f.limit = d.limit
<1> DEFINE input == d.data[n].input
           f == Collected(d, input)
<1>1. /\ d \in Contexts /\ QueueOK(d) /\ DataOK(d) /\ GroupOK(d) /\ OrderOK(d) /\ RefsOK(d)
      /\ SourceThere(d) /\ d.output \in Nat /\ d.nextOutput \in Nat /\ d.count \in Nat
      /\ d.nextFrame \in Nat /\ d.processed \in Nat /\ d.frames \subseteq Nat
  BY CtxFacts DEF CtxOK
<1>2. /\ Live(d) \subseteq DOMAIN d.data /\ DOMAIN d.data \subseteq Nat
      /\ \A m \in Live(d) : d.data[m] \in FrameInvariants
      /\ Pending(d) = {m \in Live(d) : m >= d.output}
  BY <1>1, LiveFacts
<1>3. input \in Nat /\ n \in Nat /\ input < d.count /\ input < d.nextFrame
  BY <1>1, <1>2, FiFacts DEF DataOK
<1> HIDE DEF input, f
<1>4. PICK K \in SUBSET Nat :
        /\ \A m \in Nat : m + 1 >= d.output => m \in K
        /\ f \in Contexts
        /\ f.count = d.count /\ f.limit = d.limit /\ f.output = d.output
        /\ f.processed = d.processed + 1 /\ f.end = d.end /\ f.keyframes = d.keyframes
        /\ f.forced = d.forced /\ f.nextFrame = d.nextFrame /\ f.nextOutput = d.nextOutput
        /\ f.frames = {i \in d.frames : i >= input} /\ f.opaque = d.opaque \ {input}
        /\ f.data = [m \in DOMAIN d.data \cap K |-> d.data[m]]
        /\ f.gopOutput = [m \in DOMAIN d.gopOutput \cap K |-> d.gopOutput[m]]
        /\ f.gopInput = [m \in DOMAIN d.gopInput \cap K |-> d.gopInput[m]]
  BY <1>1, <1>3, CollectFacts DEF f
<1>5. /\ DOMAIN f.data = DOMAIN d.data \cap K
      /\ \A m \in DOMAIN f.data : f.data[m] = d.data[m]
      /\ DOMAIN f.gopOutput = DOMAIN d.gopOutput \cap K
      /\ DOMAIN f.gopInput = DOMAIN d.gopInput \cap K
      /\ \A m \in DOMAIN f.gopOutput : f.gopOutput[m] = d.gopOutput[m]
      /\ \A m \in DOMAIN f.gopInput : f.gopInput[m] = d.gopInput[m]
  BY <1>4
<1>6. /\ Live(f) = Live(d) \cap K /\ \A m \in Live(f) : f.data[m] = d.data[m] /\ m \in Live(d)
  BY <1>5 DEF Live, Skipped
<1>7. \A m \in DOMAIN f.data : IsCoded(f, m) <=> IsCoded(d, m)
  BY <1>5 DEF IsCoded, Skipped
<1>8. Pending(d) \subseteq Live(f)
  <2>1. \A m \in Pending(d) : m \in Nat /\ m + 1 >= d.output /\ m \in Live(d)
    BY <1>1, <1>2
  <2> QED
    BY <1>4, <1>6, <2>1
<1>9. Pending(f) = Pending(d)
  <2>1. Pending(f) = {m \in Live(f) : m >= d.output}
    BY <1>4, LiveFacts
  <2> QED
    BY <1>2, <1>6, <1>8, <2>1
<1>10. QueueOK(f)
  <2>1. f.frames \subseteq 0 .. d.count - 1 /\ (d.count > 0 => d.count - 1 \in f.frames)
    <3>1. d.count > 0 => d.count - 1 >= input
      BY <1>1, <1>3
    <3> QED
      BY <1>1, <1>4, <3>1 DEF QueueOK
  <2>2. ASSUME NEW i \in f.frames
        PROVE  i .. d.count - 1 \subseteq f.frames
    <3>1. i \in d.frames /\ i >= input /\ i \in Nat
      BY <1>1, <1>4
    <3>2. i .. d.count - 1 \subseteq d.frames
      BY <1>1, <3>1 DEF QueueOK
    <3>3. \A j \in i .. d.count - 1 : j >= input
      BY <1>1, <1>3, <3>1
    <3> QED
      BY <1>4, <3>2, <3>3
  <2>3. ~d.end => d.nextFrame - 1 \in f.frames \/ d.count = 0
    <3>1. d.nextFrame - 1 >= input
      BY <1>1, <1>3
    <3> QED
      BY <1>1, <1>4, <3>1 DEF QueueOK
  <2> QED
    BY <1>1, <1>4, <2>1, <2>2, <2>3 DEF QueueOK
<1>11. DataOK(f)
  <2>1. \A m \in 0 .. d.nextOutput - 1 : m + 1 >= d.output => m \in DOMAIN f.data
    <3> SUFFICES ASSUME NEW m \in 0 .. d.nextOutput - 1, m + 1 >= d.output
                 PROVE  m \in DOMAIN f.data
      OBVIOUS
    <3>1. m \in DOMAIN d.data /\ m \in Nat
      BY <1>1 DEF DataOK
    <3> QED
      BY <1>4, <1>5, <3>1
  <2>2. /\ DOMAIN f.data \subseteq 0 .. d.nextOutput - 1
        /\ DOMAIN f.gopInput = DOMAIN f.gopOutput
        /\ DOMAIN f.data \subseteq DOMAIN f.gopOutput
        /\ DOMAIN f.gopOutput \subseteq 0 .. d.nextOutput
    BY <1>1, <1>5 DEF DataOK
  <2> QED
    BY <1>1, <1>4, <1>6, <2>1, <2>2 DEF DataOK
<1>12. GroupOK(f)
  <2> SUFFICES ASSUME d.nextOutput > 0
               PROVE  LET g == f.gopOutput[d.nextOutput - 1]
                          k == f.gopInput[d.nextOutput - 1]
                      IN g < d.nextOutput /\ \A m \in Live(f) : InGroup(f, m, g, k)
    BY <1>4 DEF GroupOK
  <2>1. d.nextOutput - 1 \in DOMAIN f.gopOutput /\ d.nextOutput - 1 \in DOMAIN f.gopInput
    <3>1. d.nextOutput - 1 \in 0 .. d.nextOutput - 1 /\ d.nextOutput - 1 + 1 >= d.output
      BY <1>1 DEF DataOK
    <3>2. d.nextOutput - 1 \in DOMAIN d.data /\ d.nextOutput - 1 \in K
      BY <1>1, <1>4, <3>1 DEF DataOK
    <3> QED
      BY <1>1, <1>5, <3>2 DEF DataOK
  <2>2. /\ f.gopOutput[d.nextOutput - 1] = d.gopOutput[d.nextOutput - 1]
        /\ f.gopInput[d.nextOutput - 1] = d.gopInput[d.nextOutput - 1]
    BY <1>5, <2>1
  <2>3. ASSUME NEW m \in Live(f), NEW g, NEW k, InGroup(d, m, g, k)
        PROVE  InGroup(f, m, g, k)
    BY <1>4, <1>6, <2>3 DEF InGroup
  <2> QED
    BY <1>1, <1>6, <2>2, <2>3 DEF GroupOK
<1>13. OrderOK(f)
  BY <1>1, <1>6 DEF OrderOK
<1>14. RefsOK(f)
  <2>1. ASSUME NEW m, NEW r, RefOK(d, m, r)
        PROVE  RefOK(f, m, r)
    BY <1>5, <1>7, <2>1 DEF RefOK
  <2> SUFFICES ASSUME NEW m \in Live(f)
               PROVE  LET fi == f.data[m]
                      IN /\ fi.type = "key" => fi.refresh = RefSlots /\ ~fi.sef /\ fi.show
                         /\ fi.sef => fi.show
                         /\ \A i \in RefSlots :
                              /\ RefOK(f, m, fi.rec[i]) /\ RefOK(f, m, fi.look[i])
                              /\ m >= f.output => fi.rec[i].output < m
                              /\ ~fi.sef => fi.look[i].output # None
                              /\ ~fi.sef /\ (fi.type # "key" \/ m < f.output)
                                   => fi.rec[i].output # None
    BY DEF RefsOK
  <2>2. m \in Live(d) /\ f.data[m] = d.data[m] /\ f.output = d.output
    BY <1>4, <1>6
  <2>3. \A i \in RefSlots : /\ RefOK(d, m, d.data[m].rec[i]) /\ RefOK(d, m, d.data[m].look[i])
    BY <1>1, <2>2 DEF RefsOK
  <2>4. \A i \in RefSlots : /\ RefOK(f, m, d.data[m].rec[i]) /\ RefOK(f, m, d.data[m].look[i])
    BY <2>1, <2>3
  <2> QED
    BY <1>1, <2>2, <2>4 DEF RefsOK
<1>15. ProcessedOK(f)
  <2>1. n \in Live(f) /\ f.data[n] = d.data[n]
    <3>1. n + 1 >= d.output
      BY <1>3
    <3>2. n \in K
      BY <1>3, <1>4, <3>1
    <3> QED
      BY <1>6, <3>2
  <2>2. n < f.output /\ f.data[n].show
    BY <1>3, <1>4, <2>1
  <2>3. f.processed <= f.data[n].input + 1
    BY <1>1, <1>3, <1>4, <2>1 DEF input
  <2> QED
    BY <2>1, <2>2, <2>3 DEF ProcessedOK
<1>16. SourceThere(f)
  <2> SUFFICES ASSUME NEW m \in Pending(f), IsCoded(f, m)
               PROVE  f.data[m].input \in f.frames
    BY DEF SourceThere
  <2>1. m \in Live(f) /\ m \in Pending(d) /\ m \in DOMAIN f.data /\ m \in Live(d)
    BY <1>6, <1>8, <1>9 DEF Live
  <2>2. IsCoded(d, m) /\ d.data[m].input \in d.frames
    BY <1>1, <1>7, <2>1 DEF SourceThere
  <2>3. n < m
    BY <1>2, <1>3, <2>1
  <2>4. input < d.data[m].input
    BY <1>1, <2>1, <2>3 DEF OrderOK, input
  <2>5. d.data[m].input \in Nat
    BY <1>2, <2>1, FiFacts
  <2> QED
    BY <1>3, <1>4, <1>6, <2>1, <2>2, <2>4, <2>5
<1>17. CtxOK(f)
  BY <1>4, <1>10, <1>11, <1>12, <1>13, <1>14, <1>15, <1>16 DEF CtxOK
<1>18. \A m \in Pending(d) : f.data[m] = d.data[m] /\ (IsCoded(f, m) <=> IsCoded(d, m))
  BY <1>6, <1>7, <1>8 DEF Live
<1>19. CodedAhead(d) => CodedAhead(f)
  BY <1>4, <1>9, <1>18 DEF CodedAhead
<1>20. SyncOK(d, dec) => SyncOK(f, dec)
  BY <1>9, <1>18 DEF SyncOK
<1> QED
  BY <1>4, <1>17, <1>19, <1>20 DEF f, input

\* Before a flush a frame is encoded when another is ahead.
LEMMA AnotherFacts ==
  ASSUME setup \in Setups, NEW c, CtxOK(c), ~c.end, Pending(c) # {},
         ~NeedsMoreFiLookahead(c), NEW n \in Nat
  PROVE  \E m \in Pending(c) : IsCoded(c, m) /\ m # n
<1> DEFINE S == {m \in Pending(c) : IsCoded(c, m)}
<1>1. /\ c \in Contexts /\ QueueOK(c) /\ DataOK(c) /\ c.count \in Nat /\ c.nextFrame \in Nat
      /\ c.limit \in Nat \cup {None} /\ Distance \in Nat /\ setup.rdo \in Nat \ {0}
      /\ c.nextOutput \in Nat
  BY CtxFacts, SetupFacts DEF CtxOK
<1>2. c.nextOutput > 0
  BY <1>1, NextFacts
<1>3. NeedsMoreFrames(c, c.nextFrame)
  <2>1. Distance + 1 < c.count /\ (c.nextFrame = 1 \/ c.nextFrame + Distance < c.count)
    BY <1>1, <1>2 DEF DataOK, QueueOK
  <2>2. c.nextFrame < c.count
    BY <1>1, <2>1
  <2> QED
    BY <1>1, <2>2 DEF NeedsMoreFrames, QueueOK, None
<1>4. ~(Cardinality(S) < setup.rdo + 1)
  BY <1>3 DEF NeedsMoreFiLookahead
<1>5. SUFFICES ASSUME S \subseteq {n}
               PROVE  FALSE
  OBVIOUS
<1>6. IsFiniteSet({n}) /\ Cardinality({n}) = 1
  BY FS_Singleton
<1>7. IsFiniteSet(S) /\ Cardinality(S) <= 1
  <2> HIDE DEF S
  <2> QED
    BY <1>5, <1>6, FS_Subset
<1>8. Cardinality(S) \in Nat
  <2> HIDE DEF S
  <2> QED
    BY <1>7, FS_CardinalityType
<1> HIDE DEF S
<1> QED
  BY <1>1, <1>4, <1>7, <1>8

\* What receive_packet has found out when it goes on to encode.
LEMMA FoundFacts ==
  ASSUME NEW n \in Found
  PROVE  /\ n = Next0(ctx) /\ Pending(ctx) # {} /\ ~NeedsMoreFiLookahead(ctx)
<1>1. Status(ctx) = "encodes" /\ n = Next0(ctx)
  BY DEF Found
<1>2. ~NothingReady(ctx)
  BY <1>1 DEF Status
<1> QED
  BY <1>1, <1>2 DEF NothingReady

LEMMA ReceiveNothingKeeps ==
  ASSUME IInv, ReceiveNothing
  PROVE  IInv'
<1>1. /\ setup \in Setups /\ CtxOK(ctx) /\ ctx \in Contexts /\ SyncOK(ctx, decoder)
      /\ decoder \in [RefSlots -> [output : Nat \cup {None}, input : Nat \cup {None}]]
      /\ ctx.end = flushing /\ ended \in BOOLEAN /\ flushing \in BOOLEAN
      /\ ~flushing => CodedAhead(ctx) /\ ctx.limit = setup.limit
  BY DEF IInv, CtxOK
<1>2. /\ setup' = setup /\ flushing' = flushing /\ decoder' = decoder /\ ended' \in BOOLEAN
      /\ ret' = Status(ctx)
      /\ ctx' = [ctx EXCEPT !.output = IF NothingReady(ctx) THEN @ ELSE Next0(ctx)]
  BY <1>1 DEF ReceiveNothing, Returns, NothingCoded
<1>3. ret' \in {"none", "Ok", "EnoughData", "NeedMoreData", "LimitReached", "Encoded"}
  <2>1. Status(ctx) # "encodes"
    BY DEF ReceiveNothing
  <2> QED
    BY <1>2, <2>1 DEF Status
<1>4. CASE NothingReady(ctx)
  <2>1. ctx' = ctx
    BY <1>1, <1>2, <1>4 DEF Contexts
  <2> QED
    BY <1>2, <1>3, <2>1, SameKeeps
<1>5. CASE ~NothingReady(ctx)
  <2> DEFINE n == Next0(ctx)
             d == [ctx EXCEPT !.output = n]
  <2>1. Pending(ctx) # {}
    BY <1>5 DEF NothingReady
  <2>2. /\ n \in Live(ctx) /\ n \in Nat /\ ctx.output <= n
        /\ \A m \in Live(ctx) : m >= ctx.output => m >= n
        /\ \A m \in Pending(ctx) : m >= n
    BY <1>1, <2>1, NextFacts
  <2> HIDE DEF n
  <2>3. /\ d \in Contexts /\ d.output = n
        /\ d.count = ctx.count /\ d.limit = ctx.limit /\ d.processed = ctx.processed
        /\ d.frames = ctx.frames /\ d.end = ctx.end /\ d.keyframes = ctx.keyframes
        /\ d.forced = ctx.forced /\ d.nextFrame = ctx.nextFrame /\ d.nextOutput = ctx.nextOutput
        /\ d.gopOutput = ctx.gopOutput /\ d.gopInput = ctx.gopInput /\ d.data = ctx.data
    BY <1>1, <2>2 DEF Contexts
  <2> HIDE DEF d
  <2>4. Live(d) = Live(ctx)
    BY <2>3 DEF Live, Skipped
  <2>5. Passed(ctx, d, n)
    BY <2>3, <2>4 DEF Passed
  <2>6. RefsOK(d)
    <3>1. ASSUME NEW m, NEW r, RefOK(ctx, m, r)
          PROVE  RefOK(d, m, r)
      BY <2>3, <3>1 DEF RefOK, IsCoded, Skipped
    <3>2. \A m \in Live(ctx) : (m < n => m < ctx.output) /\ (m >= n => m >= ctx.output)
      BY <1>1, <2>2, CtxFacts, LiveFacts
    <3> QED
      BY <1>1, <2>3, <2>4, <3>1, <3>2 DEF RefsOK, CtxOK
  <2>7. /\ CtxOK(d) /\ Pending(d) = {m \in Pending(ctx) : m >= d.output}
        /\ \A m \in Live(ctx) : IsCoded(d, m) <=> IsCoded(ctx, m)
    BY <1>1, <2>1, <2>5, <2>6, PassedOK DEF n
  <2>8. Pending(d) = Pending(ctx) /\ Pending(ctx) \subseteq Live(ctx)
    BY <1>1, <2>2, <2>3, <2>7, LiveFacts
  <2>9. CodedAhead(ctx) => CodedAhead(d)
    BY <2>3, <2>7, <2>8 DEF CodedAhead
  <2>10. SyncOK(d, decoder)
    BY <1>1, <2>3, <2>8 DEF SyncOK
  <2>11. ctx' = d
    BY <1>2, <1>5 DEF d, n
  <2>12. CtxOK(ctx') /\ SyncOK(ctx', decoder') /\ (CodedAhead(ctx) => CodedAhead(ctx'))
    BY <1>2, <2>7, <2>9, <2>10, <2>11
  <2>13. CtxOK(ctx)' /\ SyncOK(ctx, decoder)' /\ (CodedAhead(ctx) => CodedAhead(ctx)')
    BY <1>2, <2>12, PrimedOK, PrimedAhead
  <2>14. ctx'.end = ctx.end /\ ctx'.limit = ctx.limit
    BY <2>3, <2>11
  <2> QED
    BY <1>1, <1>2, <1>3, <2>13, <2>14 DEF IInv
<1> QED
  BY <1>4, <1>5

\* encode_show_existing_packet: the next frame is shown from the decoder's buffer.
LEMMA ReceiveExistingKeeps ==
  ASSUME IInv, ReceiveExisting
  PROVE  IInv'
<1>1. /\ setup \in Setups /\ CtxOK(ctx) /\ ctx \in Contexts /\ SyncOK(ctx, decoder)
      /\ decoder \in [RefSlots -> [output : Nat \cup {None}, input : Nat \cup {None}]]
      /\ ctx.end = flushing /\ ended \in BOOLEAN /\ flushing \in BOOLEAN
      /\ ~flushing => CodedAhead(ctx) /\ ctx.limit = setup.limit
  BY DEF IInv, CtxOK
<1>2. PICK n \in Found :
        /\ IsSef(ctx, n)
        /\ Finalize([ctx EXCEPT !.output = n + 1], ctx.data[n], decoder[ctx.data[n].slot].input)
        /\ decoder' = decoder
  BY DEF ReceiveExisting
<1>3. n = Next0(ctx) /\ Pending(ctx) # {} /\ ~NeedsMoreFiLookahead(ctx)
  BY FoundFacts
<1>4. /\ n \in Live(ctx) /\ n \in Nat /\ ctx.output <= n /\ n \in Pending(ctx)
      /\ \A m \in Live(ctx) : m >= ctx.output => m >= n
      /\ \A m \in Pending(ctx) : m >= n
  BY <1>1, <1>3, NextFacts
<1> DEFINE d == [ctx EXCEPT !.output = n + 1]
           f == Collected(d, ctx.data[n].input)
<1>5. ctx' = f /\ ret' = "Ok" /\ ended' \in BOOLEAN /\ setup' = setup /\ flushing' = flushing
  BY <1>1, <1>2 DEF Finalize, Returns, Collected
<1>6. /\ d \in Contexts /\ d.output = n + 1
      /\ d.count = ctx.count /\ d.limit = ctx.limit /\ d.processed = ctx.processed
      /\ d.frames = ctx.frames /\ d.end = ctx.end /\ d.keyframes = ctx.keyframes
      /\ d.forced = ctx.forced /\ d.nextFrame = ctx.nextFrame /\ d.nextOutput = ctx.nextOutput
      /\ d.gopOutput = ctx.gopOutput /\ d.gopInput = ctx.gopInput /\ d.data = ctx.data
  BY <1>1, <1>4 DEF Contexts
<1> HIDE DEF d
<1>7. Live(d) = Live(ctx)
  BY <1>6 DEF Live, Skipped
<1>8. Passed(ctx, d, n)
  BY <1>6, <1>7 DEF Passed
<1>9. ctx.data[n].sef /\ ctx.data[n].show
  BY <1>1, <1>2, <1>4 DEF IsSef, CtxOK, RefsOK
<1>10. RefsOK(d)
  <2>1. ASSUME NEW m, NEW r, RefOK(ctx, m, r)
        PROVE  RefOK(d, m, r)
    BY <1>6, <2>1 DEF RefOK, IsCoded, Skipped
  <2>2. \A m \in Live(ctx) : /\ m < n + 1 => m < ctx.output \/ m = n
                             /\ m >= n + 1 => m >= ctx.output
    BY <1>1, <1>4, CtxFacts, LiveFacts
  <2> SUFFICES ASSUME NEW m \in Live(d)
               PROVE  LET fi == d.data[m]
                      IN /\ fi.type = "key" => fi.refresh = RefSlots /\ ~fi.sef /\ fi.show
                         /\ fi.sef => fi.show
                         /\ \A i \in RefSlots :
                              /\ RefOK(d, m, fi.rec[i]) /\ RefOK(d, m, fi.look[i])
                              /\ m >= d.output => fi.rec[i].output < m
                              /\ ~fi.sef => fi.look[i].output # None
                              /\ ~fi.sef /\ (fi.type # "key" \/ m < d.output)
                                   => fi.rec[i].output # None
    BY DEF RefsOK
  <2>3. m \in Live(ctx) /\ d.data[m] = ctx.data[m]
    BY <1>6, <1>7
  <2>4. RefsOK(ctx)
    BY <1>1 DEF CtxOK
  <2>5. \A i \in RefSlots : RefOK(d, m, ctx.data[m].rec[i]) /\ RefOK(d, m, ctx.data[m].look[i])
    BY <2>1, <2>3, <2>4 DEF RefsOK
  <2> QED
    BY <1>6, <1>9, <2>2, <2>3, <2>4, <2>5 DEF RefsOK
<1>11. /\ CtxOK(d) /\ Pending(d) = {m \in Pending(ctx) : m >= n + 1}
       /\ \A m \in Live(ctx) : IsCoded(d, m) <=> IsCoded(ctx, m)
  BY <1>1, <1>3, <1>6, <1>8, <1>10, PassedOK
<1>12. Pending(ctx) \subseteq Live(ctx) /\ DOMAIN ctx.data \subseteq Nat /\ Live(ctx) \subseteq Nat
  BY <1>1, LiveFacts
<1>13. ~flushing => CodedAhead(d)
  <2> SUFFICES ASSUME ~flushing
               PROVE  CodedAhead(d)
    OBVIOUS
  <2>1. PICK m \in Pending(ctx) : IsCoded(ctx, m) /\ m # n
    BY <1>1, <1>3, <1>4, AnotherFacts
  <2>2. m \in Pending(d) /\ IsCoded(d, m)
    BY <1>4, <1>11, <1>12, <2>1
  <2> QED
    BY <2>2 DEF CodedAhead
<1>14. SyncOK(d, decoder)
  <2> SUFFICES ASSUME NEW m \in Pending(d), d.data[m].type # "key",
                      \A x \in Pending(d) : x < m => d.data[x].sef,
                      NEW i \in RefSlots
               PROVE  d.data[m].rec[i] = Ref(decoder[i].output, FALSE)
    BY DEF SyncOK
  <2>1. m \in Pending(ctx)
    BY <1>11
  <2>2. \A x \in Pending(ctx) : x < m => ctx.data[x].sef
    <3> SUFFICES ASSUME NEW x \in Pending(ctx), x < m
                 PROVE  ctx.data[x].sef
      OBVIOUS
    <3>1. CASE x = n
      BY <1>9, <3>1
    <3>2. CASE x # n
      <4>1. x \in Pending(d)
        BY <1>4, <1>11, <1>12, <3>2
      <4> QED
        BY <1>6, <4>1
    <3> QED
      BY <3>1, <3>2
  <2> QED
    BY <1>1, <1>6, <2>1, <2>2 DEF SyncOK
<1>15. d.processed <= d.data[n].input /\ d.data[n].input = ctx.data[n].input /\ d.data[n].show
  BY <1>1, <1>3, <1>6, <1>9, ProcessedBefore
<1>16. /\ CtxOK(f) /\ (CodedAhead(d) => CodedAhead(f)) /\ SyncOK(f, decoder)
       /\ f.end = d.end /\ f.limit = d.limit
  <2>1. f = Collected(d, d.data[n].input) /\ n \in Live(d)
    BY <1>4, <1>7, <1>15
  <2> HIDE DEF f
  <2> QED
    BY <1>1, <1>6, <1>11, <1>14, <1>15, <2>1, CollectedOK
<1> HIDE DEF f
<1>17. /\ CtxOK(ctx') /\ SyncOK(ctx', decoder') /\ (CodedAhead(d) => CodedAhead(ctx'))
       /\ ctx'.end = ctx.end /\ ctx'.limit = ctx.limit
  BY <1>2, <1>5, <1>6, <1>16
<1>18. CtxOK(ctx)' /\ SyncOK(ctx, decoder)' /\ (CodedAhead(d) => CodedAhead(ctx)')
  BY <1>5, <1>17, PrimedOK, PrimedAhead
<1> QED
  BY <1>1, <1>2, <1>5, <1>13, <1>17, <1>18 DEF IInv

\* encode_normal_packet leaves the frames in order, and those that come before
\* the next that is coded with the references of the decoder.
LEMMA EncodedOK ==
  ASSUME setup \in Setups, NEW c, CtxOK(c), Pending(c) # {}, NEW n, n = Next0(c),
         IsCoded(c, n), NEW dec, SyncOK(c, dec), NEW new,
         \A i \in RefSlots : new[i].output = IF i \in c.data[n].refresh THEN n ELSE dec[i].output
  PROVE  LET d == Encoded(c, n)
         IN /\ CtxOK(d) /\ SyncOK(d, new) /\ d.output = n + 1 /\ n \in Live(d)
            /\ Pending(d) = {m \in Pending(c) : m >= n + 1}
            /\ \A m \in Live(c) : IsCoded(d, m) <=> IsCoded(c, m)
            /\ d.end = c.end /\ d.limit = c.limit /\ d.processed = c.processed
            /\ d.data[n].show = c.data[n].show /\ d.data[n].input = c.data[n].input
            /\ Passed(c, d, n) /\ d.opaque = c.opaque
            /\ \A m \in Live(c) : d.data[m].slot = c.data[m].slot
<1> DEFINE fi == c.data[n]
           rec == [i \in RefSlots |-> IF i \in fi.refresh THEN Ref(n, FALSE) ELSE fi.rec[i]]
           W == Subsequent(c, n) \cup {n}
           data == [m \in DOMAIN c.data |-> IF m \in W THEN [c.data[m] EXCEPT !.rec = rec]
                                            ELSE c.data[m]]
           d == Encoded(c, n)
<1>1. /\ c \in Contexts /\ RefsOK(c) /\ c.output \in Nat
      /\ c.data \in Maps(FrameInvariants \cup {Placeholder})
  BY CtxFacts DEF CtxOK
<1>2. /\ Pending(c) = {m \in Live(c) : m >= c.output} /\ Live(c) \subseteq DOMAIN c.data
      /\ DOMAIN c.data \subseteq Nat /\ \A m \in Live(c) : c.data[m] \in FrameInvariants
      /\ \A m \in DOMAIN c.data : m \in Live(c) <=> c.data[m] # Placeholder
      /\ \A m \in DOMAIN c.data : c.data[m] \in FrameInvariants \cup {Placeholder}
  BY <1>1, LiveFacts, MapFacts
<1>3. /\ n \in Live(c) /\ n \in Nat /\ c.output <= n /\ n \in Pending(c)
      /\ \A m \in Live(c) : m >= c.output => m >= n
      /\ \A m \in Pending(c) : m >= n /\ m \in Nat
      /\ fi \in FrameInvariants /\ ~fi.sef
  BY <1>2, NextFacts DEF IsCoded
<1>4. /\ fi.rec \in Slots /\ fi.refresh \subseteq RefSlots
  BY <1>3, FiFacts
<1>5. rec \in Slots
  BY <1>3, <1>4 DEF Slots, RefType, Ref
<1>6. \A i \in RefSlots : rec[i] = IF i \in fi.refresh THEN Ref(n, FALSE) ELSE fi.rec[i]
  OBVIOUS
<1>7. W \subseteq Live(c) /\ \A m \in W : m >= n
  <2>1. Subsequent(c, n) \subseteq {m \in Pending(c) : m > n}
    BY DEF Subsequent
  <2> QED
    BY <1>2, <1>3, <2>1
<1> HIDE DEF fi, rec, W
<1> DEFINE With(v) == [v EXCEPT !.rec = rec]
<1>8. /\ DOMAIN data = DOMAIN c.data
      /\ \A m \in DOMAIN c.data : data[m] = IF m \in W THEN With(c.data[m]) ELSE c.data[m]
  OBVIOUS
<1>9. \A v \in FrameInvariants :
        /\ With(v) \in FrameInvariants /\ With(v).rec = rec /\ With(v).type = v.type
        /\ With(v).input = v.input /\ With(v).sef = v.sef /\ With(v).show = v.show
        /\ With(v).refresh = v.refresh /\ With(v).look = v.look /\ With(v).slot = v.slot
  BY <1>5 DEF FrameInvariants
<1> HIDE DEF With
<1>10. data \in Maps(FrameInvariants \cup {Placeholder})
  <2>1. data = [m \in DOMAIN data |-> data[m]]
    OBVIOUS
  <2> HIDE DEF data
  <2>2. \A m \in DOMAIN data : data[m] \in FrameInvariants \cup {Placeholder}
    BY <1>2, <1>7, <1>8, <1>9
  <2> QED
    BY <1>2, <1>8, <2>1, <2>2, MapFacts
<1>11. d = [c EXCEPT !.data = data, !.output = n + 1]
  BY <1>1 DEF Encoded, fi, rec, W
<1> HIDE DEF data, d
<1>12. /\ d \in Contexts /\ d.output = n + 1 /\ d.data = data
       /\ d.count = c.count /\ d.limit = c.limit /\ d.processed = c.processed
       /\ d.frames = c.frames /\ d.end = c.end /\ d.keyframes = c.keyframes
       /\ d.forced = c.forced /\ d.nextFrame = c.nextFrame /\ d.nextOutput = c.nextOutput
       /\ d.gopOutput = c.gopOutput /\ d.gopInput = c.gopInput /\ d.opaque = c.opaque
  <2>1. n + 1 \in Nat
    BY <1>3
  <2> QED
    BY <1>1, <1>10, <1>11, <2>1 DEF Contexts
<1>13. \A m \in Live(c) :
         /\ d.data[m].type = c.data[m].type /\ d.data[m].input = c.data[m].input
         /\ d.data[m].sef = c.data[m].sef /\ d.data[m].show = c.data[m].show
         /\ d.data[m].refresh = c.data[m].refresh /\ d.data[m].look = c.data[m].look
         /\ d.data[m].slot = c.data[m].slot
         /\ d.data[m].rec = IF m \in W THEN rec ELSE c.data[m].rec
         /\ d.data[m] \in FrameInvariants
  BY <1>2, <1>8, <1>9, <1>12
<1>14. Live(d) = Live(c)
  <2>1. /\ Live(d) \subseteq DOMAIN d.data /\ DOMAIN d.data = DOMAIN c.data
        /\ \A m \in DOMAIN d.data : m \in Live(d) <=> d.data[m] # Placeholder
    BY <1>8, <1>12, LiveFacts
  <2>2. \A m \in DOMAIN c.data : m \notin Live(c) => d.data[m] = Placeholder
    BY <1>2, <1>7, <1>8, <1>12
  <2>3. \A m \in Live(c) : d.data[m] # Placeholder
    BY <1>13, FiFacts
  <2> QED
    BY <1>2, <2>1, <2>2, <2>3
<1>15. Passed(c, d, n)
  BY <1>8, <1>12, <1>13, <1>14 DEF Passed
<1>16. \A m \in DOMAIN c.data : IsCoded(c, m) => IsCoded(d, m)
  <2> SUFFICES ASSUME NEW m \in DOMAIN c.data, IsCoded(c, m)
               PROVE  IsCoded(d, m)
    OBVIOUS
  <2>1. m \in Live(c) /\ ~c.data[m].sef
    BY DEF IsCoded, Live
  <2>2. m \in Live(d) /\ ~d.data[m].sef
    BY <1>13, <1>14, <2>1
  <2> QED
    BY <2>2 DEF IsCoded, Live
<1>17. ASSUME NEW m, NEW r, RefOK(c, m, r)
       PROVE  RefOK(d, m, r)
  BY <1>8, <1>12, <1>16, <1>17 DEF RefOK
<1>18. ASSUME NEW i \in RefSlots
       PROVE  rec[i].output \in 0 .. n /\ RefOK(d, n, rec[i])
  <2>1. CASE i \in fi.refresh
    <3>1. rec[i].output = n
      BY <1>6, <2>1 DEF Ref
    <3>2. IsCoded(d, n)
      BY <1>2, <1>3, <1>16
    <3> QED
      BY <1>3, <3>1, <3>2 DEF RefOK
  <2>2. CASE i \notin fi.refresh
    <3>1. fi.type # "key"
      BY <1>1, <1>3, <2>2 DEF RefsOK, fi
    <3>2. rec[i] = fi.rec[i] /\ fi.rec[i].output # None /\ RefOK(c, n, fi.rec[i])
      BY <1>1, <1>3, <1>6, <2>2, <3>1 DEF RefsOK, fi
    <3> QED
      BY <1>17, <3>2 DEF RefOK
  <2> QED
    BY <2>1, <2>2
<1>19. RefsOK(d)
  <2> SUFFICES ASSUME NEW m \in Live(d)
               PROVE  LET v == d.data[m]
                      IN /\ v.type = "key" => v.refresh = RefSlots /\ ~v.sef /\ v.show
                         /\ v.sef => v.show
                         /\ \A i \in RefSlots :
                              /\ RefOK(d, m, v.rec[i]) /\ RefOK(d, m, v.look[i])
                              /\ m >= d.output => v.rec[i].output < m
                              /\ ~v.sef => v.look[i].output # None
                              /\ ~v.sef /\ (v.type # "key" \/ m < d.output)
                                   => v.rec[i].output # None
    BY DEF RefsOK
  <2>1. m \in Live(c) /\ m \in Nat
    BY <1>2, <1>14
  <2>2. /\ c.data[m].type = "key" => /\ c.data[m].refresh = RefSlots /\ ~c.data[m].sef
                                     /\ c.data[m].show
        /\ c.data[m].sef => c.data[m].show
        /\ \A i \in RefSlots :
              /\ RefOK(c, m, c.data[m].rec[i]) /\ RefOK(c, m, c.data[m].look[i])
              /\ m >= c.output => c.data[m].rec[i].output < m
              /\ ~c.data[m].sef => c.data[m].look[i].output # None
              /\ ~c.data[m].sef /\ (c.data[m].type # "key" \/ m < c.output)
                   => c.data[m].rec[i].output # None
    BY <1>1, <2>1 DEF RefsOK
  <2>3. \A i \in RefSlots : RefOK(d, m, c.data[m].rec[i]) /\ RefOK(d, m, c.data[m].look[i])
    BY <1>17, <2>2
  <2>4. /\ m >= n + 1 => m >= c.output
        /\ m < n + 1 => m < c.output \/ m = n
    BY <1>1, <1>3, <2>1
  <2>5. CASE m \in W
    <3>1. m >= n
      BY <1>7, <2>5
    <3>2. \A i \in RefSlots : /\ RefOK(d, m, rec[i]) /\ rec[i].output # None
                              /\ m >= n + 1 => rec[i].output < m
      <4> SUFFICES ASSUME NEW i \in RefSlots
                   PROVE  /\ RefOK(d, m, rec[i]) /\ rec[i].output # None
                          /\ m >= n + 1 => rec[i].output < m
        OBVIOUS
      <4>1. rec[i].output \in 0 .. n /\ RefOK(d, n, rec[i])
        BY <1>18
      <4>2. rec[i].output \in 0 .. m
        BY <1>3, <2>1, <3>1, <4>1
      <4>3. rec[i].output # None /\ (m >= n + 1 => rec[i].output < m)
        BY <1>3, <2>1, <4>1 DEF None
      <4> QED
        BY <4>1, <4>2, <4>3 DEF RefOK
    <3> QED
      BY <1>12, <1>13, <2>1, <2>2, <2>3, <2>5, <3>2
  <2>6. CASE m \notin W
    <3>1. m # n
      BY <2>6 DEF W
    <3> QED
      BY <1>12, <1>13, <2>1, <2>2, <2>3, <2>4, <2>6, <3>1
  <2> QED
    BY <2>5, <2>6
<1>20. /\ CtxOK(d) /\ Pending(d) = {m \in Pending(c) : m >= d.output}
       /\ \A m \in Live(c) : IsCoded(d, m) <=> IsCoded(c, m)
  BY <1>15, <1>19, PassedOK
<1>21. SyncOK(d, new)
  <2> SUFFICES ASSUME NEW m \in Pending(d), d.data[m].type # "key",
                      \A x \in Pending(d) : x < m => d.data[x].sef,
                      NEW i \in RefSlots
               PROVE  d.data[m].rec[i] = Ref(new[i].output, FALSE)
    BY DEF SyncOK
  <2>1. m \in Pending(c) /\ m > n /\ m \in Live(c) /\ Pending(c) \subseteq Live(c)
    BY <1>2, <1>3, <1>12, <1>20
  <2>2. m \in Subsequent(c, n)
    <3>1. ASSUME NEW x \in Pending(c), x > n, x < m
          PROVE  c.data[x].sef
      <4>1. x \in Pending(d)
        BY <1>3, <1>12, <1>20, <3>1
      <4> QED
        BY <1>13, <2>1, <3>1, <4>1
    <3>2. c.data[m].type # "key"
      BY <1>13, <2>1
    <3> QED
      BY <2>1, <3>1, <3>2 DEF Subsequent
  <2>3. d.data[m].rec = rec
    BY <1>13, <2>1, <2>2 DEF W
  <2>4. CASE i \in fi.refresh
    BY <1>6, <2>3, <2>4 DEF fi
  <2>5. CASE i \notin fi.refresh
    <3>1. fi.type # "key"
      BY <1>1, <1>3, <2>5 DEF RefsOK, fi
    <3>2. \A x \in Pending(c) : ~(x < n)
      BY <1>3
    <3>3. fi.rec[i] = Ref(dec[i].output, FALSE)
      BY <1>3, <3>1, <3>2 DEF SyncOK, fi
    <3> QED
      BY <1>6, <2>3, <2>5, <3>3 DEF fi
  <2> QED
    BY <2>4, <2>5
<1> QED
  BY <1>3, <1>12, <1>13, <1>14, <1>15, <1>20, <1>21 DEF d

LEMMA ReceiveCodedKeeps ==
  ASSUME IInv, ReceiveCoded
  PROVE  IInv'
<1>1. /\ setup \in Setups /\ CtxOK(ctx) /\ ctx \in Contexts /\ SyncOK(ctx, decoder)
      /\ decoder \in [RefSlots -> [output : Nat \cup {None}, input : Nat \cup {None}]]
      /\ ctx.end = flushing /\ ended \in BOOLEAN /\ flushing \in BOOLEAN
      /\ ~flushing => CodedAhead(ctx) /\ ctx.limit = setup.limit
  BY DEF IInv, CtxOK
<1> DEFINE D(n) == [i \in RefSlots |-> IF i \in ctx.data[n].refresh
                                      THEN [output |-> n, input |-> ctx.data[n].input]
                                      ELSE decoder[i]]
<1>2. PICK n \in Found :
        LET fi == ctx.data[n]
        IN /\ IsCoded(ctx, n)
           /\ decoder' = D(n)
           /\ IF fi.show THEN Finalize(Encoded(ctx, n), fi, fi.input)
              ELSE ctx' = Encoded(ctx, n) /\ Returns("Encoded") /\ NoPacket
  BY DEF ReceiveCoded
<1>3. n = Next0(ctx) /\ Pending(ctx) # {} /\ ~NeedsMoreFiLookahead(ctx)
  BY FoundFacts
<1>4. /\ n \in Live(ctx) /\ n \in Nat /\ ctx.output <= n /\ n \in Pending(ctx)
      /\ \A m \in Pending(ctx) : m >= n
      /\ ctx.data[n] \in FrameInvariants
  BY <1>1, <1>3, NextFacts
<1> DEFINE d == Encoded(ctx, n)
           new == D(n)
           f == Collected(d, ctx.data[n].input)
<1>5. \A i \in RefSlots : new[i].output = IF i \in ctx.data[n].refresh THEN n ELSE decoder[i].output
  OBVIOUS
<1>6. new \in [RefSlots -> [output : Nat \cup {None}, input : Nat \cup {None}]]
  <2>1. ctx.data[n].input \in Nat
    BY <1>4, FiFacts
  <2> QED
    BY <1>1, <1>4, <2>1
<1>7. /\ IsCoded(ctx, n) /\ decoder' = new
      /\ IF ctx.data[n].show THEN ctx' = f /\ Returns("Ok") ELSE ctx' = d /\ Returns("Encoded")
  BY <1>2 DEF Finalize, Collected
<1> HIDE DEF new, D
<1>8. /\ CtxOK(d) /\ SyncOK(d, new) /\ d.output = n + 1 /\ n \in Live(d)
      /\ Pending(d) = {m \in Pending(ctx) : m >= n + 1}
      /\ \A m \in Live(ctx) : IsCoded(d, m) <=> IsCoded(ctx, m)
      /\ d.end = ctx.end /\ d.limit = ctx.limit /\ d.processed = ctx.processed
      /\ d.data[n].show = ctx.data[n].show /\ d.data[n].input = ctx.data[n].input
  <2>1. /\ setup \in Setups /\ CtxOK(ctx) /\ Pending(ctx) # {} /\ n = Next0(ctx)
        /\ IsCoded(ctx, n) /\ SyncOK(ctx, decoder)
    BY <1>1, <1>3, <1>7
  <2> QED
    BY ONLY <1>5, <2>1, EncodedOK DEF d
<1> HIDE DEF d
<1>9. ~flushing => CodedAhead(d)
  <2> SUFFICES ASSUME ~flushing
               PROVE  CodedAhead(d)
    OBVIOUS
  <2>1. PICK m \in Pending(ctx) : IsCoded(ctx, m) /\ m # n
    BY <1>1, <1>3, <1>4, AnotherFacts
  <2>2. Pending(ctx) \subseteq Live(ctx) /\ Live(ctx) \subseteq Nat
    BY <1>1, LiveFacts
  <2>3. m \in Pending(d) /\ IsCoded(d, m)
    BY <1>4, <1>8, <2>1, <2>2
  <2> QED
    BY <2>3 DEF CodedAhead
<1>10. ctx.data[n].show => /\ CtxOK(f) /\ (CodedAhead(d) => CodedAhead(f)) /\ SyncOK(f, new)
                           /\ f.end = d.end /\ f.limit = d.limit
  <2> SUFFICES ASSUME ctx.data[n].show
               PROVE  /\ CtxOK(f) /\ (CodedAhead(d) => CodedAhead(f)) /\ SyncOK(f, new)
                      /\ f.end = d.end /\ f.limit = d.limit
    OBVIOUS
  <2>1. d.processed <= d.data[n].input /\ d.data[n].show
    BY <1>1, <1>3, <1>8, ProcessedBefore
  <2>2. f = Collected(d, d.data[n].input)
    BY <1>8
  <2> HIDE DEF f
  <2> QED
    BY <1>1, <1>8, <2>1, <2>2, CollectedOK
<1> HIDE DEF f
<1>11. /\ CtxOK(ctx') /\ SyncOK(ctx', decoder') /\ (CodedAhead(d) => CodedAhead(ctx'))
       /\ ctx'.end = ctx.end /\ ctx'.limit = ctx.limit
  BY <1>7, <1>8, <1>10
<1>12. /\ setup' = setup /\ flushing' = flushing /\ ended' \in BOOLEAN /\ ret' \in {"Ok", "Encoded"}
  BY <1>1, <1>7 DEF Returns
<1>13. CtxOK(ctx)' /\ SyncOK(ctx, decoder)' /\ (CodedAhead(d) => CodedAhead(ctx)')
  BY <1>11, <1>12, PrimedOK, PrimedAhead
<1>14. (decoder \in [RefSlots -> [output : Nat \cup {None}, input : Nat \cup {None}]])'
  BY <1>6, <1>7
<1> QED
  BY <1>1, <1>9, <1>11, <1>12, <1>13, <1>14 DEF IInv

LEMMA NextKeeps == IInv /\ [Next]_vars => IInv'
<1> SUFFICES ASSUME IInv, [Next]_vars
             PROVE  IInv'
  OBVIOUS
<1>1. ASSUME NEW forced \in BOOLEAN, Send(forced)
      PROVE  IInv'
  BY <1>1, SendKeeps
<1>2. CASE SendRefused
  BY <1>2, SameKeeps DEF SendRefused, IInv
<1>3. CASE Flush
  BY <1>3, FlushKeeps
<1>4. CASE ReceiveNothing
  BY <1>4, ReceiveNothingKeeps
<1>5. CASE ReceiveExisting
  BY <1>5, ReceiveExistingKeeps
<1>6. CASE ReceiveCoded
  BY <1>6, ReceiveCodedKeeps
<1>7. CASE UNCHANGED vars
  <2>1. UNCHANGED <<setup, ctx, flushing, decoder, ended, ret>>
    BY <1>7 DEF vars, client
  <2> QED
    BY <2>1, SameKeeps DEF IInv
<1> QED
  BY <1>1, <1>2, <1>3, <1>4, <1>5, <1>6, <1>7 DEF Next, Receive

----------------------------------------------------------------------------
(* Theorems *)

\* The encoder keeps to the inductive invariant: the queue of input frames and
\* key frames, the frames that are scheduled, their references and those of
\* the decoder fit together (ContextInner, api/internal.rs).
THEOREM Invariance == Spec => []IInv
<1>1. Init => IInv
  BY InitOK
<1>2. IInv /\ [Next]_vars => IInv'
  BY NextKeeps
<1> QED
  BY <1>1, <1>2, PTL DEF Spec

LEMMA TypeImplied == IInv => TypeOK
<1> SUFFICES ASSUME IInv
             PROVE  TypeOK
  OBVIOUS
<1> USE DEF Frames
<1>1. /\ setup \in Setups /\ CtxOK(ctx) /\ ctx \in Contexts /\ QueueOK(ctx) /\ DataOK(ctx)
      /\ ProcessedOK(ctx)
      /\ flushing \in BOOLEAN /\ ended \in BOOLEAN
      /\ ret \in {"none", "Ok", "EnoughData", "NeedMoreData", "LimitReached", "Encoded"}
  BY DEF IInv, CtxOK
<1>2. /\ ctx.count \in Nat /\ ctx.limit \in Nat \cup {None} /\ ctx.output \in Nat
      /\ ctx.processed \in Nat /\ ctx.nextFrame \in Nat /\ ctx.nextOutput \in Nat
      /\ setup.frames \in Nat
  BY <1>1, CtxFacts, SetupFacts
<1>3. ctx.count \in Frames
  BY <1>1, <1>2 DEF QueueOK
<1>4. /\ Live(ctx) \subseteq DOMAIN ctx.data
      /\ \A m \in Live(ctx) : ctx.data[m] \in FrameInvariants
      /\ \A m \in Live(ctx) : ctx.data[m].input \in Nat /\ ctx.data[m].input < ctx.count
  BY <1>1, LiveFacts, FiFacts DEF DataOK
<1>5. ctx.processed \in Frames
  <2>1. CASE ctx.processed = 0
    BY <1>2, <2>1
  <2>2. CASE ctx.processed > 0
    <3>1. PICK m \in Live(ctx) : ctx.processed <= ctx.data[m].input + 1
      BY <1>1, <2>2 DEF ProcessedOK
    <3> QED
      BY <1>2, <1>3, <1>4, <3>1
  <2> QED
    BY <1>2, <2>1, <2>2
<1>6. ctx.nextFrame \in 1 .. Max({1, ctx.count})
  <2> DEFINE S == {1, ctx.count}
             b == ctx.count + 1
  <2>1. S \subseteq 0 .. b /\ S # {} /\ b \in Nat
    BY <1>2
  <2>2. Max(S) \in S /\ \A x \in S : x <= Max(S)
    <3> HIDE DEF S, b
    <3> QED
      BY <2>1, MaxFacts
  <2>3. Max(S) \in Nat /\ 1 <= Max(S) /\ ctx.count <= Max(S)
    BY <1>2, <2>2
  <2>4. ctx.nextFrame = 1 \/ ctx.nextFrame \in 1 .. ctx.count
    BY <1>1 DEF QueueOK
  <2> HIDE DEF S
  <2>5. ctx.nextFrame \in 1 .. Max(S)
    BY <1>2, <2>3, <2>4
  <2> QED
    BY <2>5 DEF S
<1>7. \A n \in DOMAIN ctx.data : ~Skipped(ctx, n) =>
        /\ ctx.data[n].input \in Frames
        /\ ctx.data[n].rec \in [RefSlots -> RefType]
        /\ ctx.data[n].look \in [RefSlots -> RefType]
  <2> SUFFICES ASSUME NEW n \in Live(ctx)
               PROVE  /\ ctx.data[n].input \in Frames
                      /\ ctx.data[n].rec \in [RefSlots -> RefType]
                      /\ ctx.data[n].look \in [RefSlots -> RefType]
    BY DEF Live
  <2>1. ctx.data[n].input \in Frames
    BY <1>2, <1>3, <1>4
  <2>2. ctx.data[n].rec \in Slots /\ ctx.data[n].look \in Slots
    BY <1>4, FiFacts
  <2> QED
    BY <2>1, <2>2 DEF Slots
<1> QED
  BY <1>1, <1>2, <1>3, <1>5, <1>6, <1>7 DEF TypeOK, QueueOK, DataOK

LEMMA SyncImplied == IInv => InSync
<1> SUFFICES ASSUME IInv, Pending(ctx) # {}, ctx.data[Next0(ctx)].type # "key",
                    NEW i \in RefSlots
             PROVE  ctx.data[Next0(ctx)].rec[i] = Ref(decoder[i].output, FALSE)
  BY DEF InSync
<1>1. CtxOK(ctx) /\ SyncOK(ctx, decoder)
  BY DEF IInv
<1> DEFINE n == Next0(ctx)
<1>2. n \in Pending(ctx) /\ n \in Nat /\ \A m \in Pending(ctx) : m >= n /\ m \in Nat
  BY <1>1, NextFacts, LiveFacts DEF CtxOK
<1>3. \A k \in Pending(ctx) : ~(k < n)
  BY <1>2
<1> HIDE DEF n
<1>4. ctx.data[n].type # "key"
  BY DEF n
<1>5. ctx.data[n].rec[i] = Ref(decoder[i].output, FALSE)
  BY <1>1, <1>2, <1>3, <1>4 DEF SyncOK
<1> QED
  BY <1>5 DEF n

LEMMA LookbackImplied == IInv => LookbackThere
<1> SUFFICES ASSUME IInv
             PROVE  LookbackThere
  OBVIOUS
<1>1. /\ setup \in Setups /\ CtxOK(ctx) /\ ctx \in Contexts /\ QueueOK(ctx) /\ DataOK(ctx)
      /\ RefsOK(ctx) /\ SourceThere(ctx) /\ ctx.end = flushing
      /\ ~flushing => CodedAhead(ctx)
  BY DEF IInv, CtxOK
<1>2. /\ ctx.output \in Nat /\ ctx.nextOutput \in Nat /\ ctx.count \in Nat /\ Distance \in Nat
      /\ Pending(ctx) = {m \in Live(ctx) : m >= ctx.output}
      /\ \A m \in Live(ctx) : ctx.data[m] \in FrameInvariants
  BY <1>1, CtxFacts, SetupFacts, LiveFacts
<1>3. ASSUME ~flushing, ctx.nextOutput > 0
      PROVE  /\ ctx.nextOutput - 1 \in DOMAIN ctx.gopInput
             /\ PreviousCodedFi(ctx, ctx.nextOutput) # {}
             /\ ctx.nextFrame - 1 \in ctx.frames
  <2>1. ctx.nextOutput - 1 \in DOMAIN ctx.data
    BY <1>1, <1>2, <1>3 DEF DataOK
  <2>2. ctx.nextOutput - 1 \in DOMAIN ctx.gopInput
    BY <1>1, <2>1 DEF DataOK
  <2>3. PICK m \in Pending(ctx) : IsCoded(ctx, m)
    BY <1>1, <1>3 DEF CodedAhead
  <2>4. m \in DOMAIN ctx.data /\ ~Skipped(ctx, m) /\ m < ctx.nextOutput
    BY <1>1, <1>2, <2>3 DEF Pending, DataOK
  <2>5. m \in PreviousCodedFi(ctx, ctx.nextOutput)
    BY <2>3, <2>4 DEF PreviousCodedFi, PreviousFi
  <2>6. ctx.count # 0
    BY <1>1, <1>2, <1>3 DEF DataOK
  <2>7. ctx.nextFrame - 1 \in ctx.frames
    BY <1>1, <1>3, <2>6 DEF QueueOK
  <2> QED
    BY <2>2, <2>5, <2>7
<1>4. ASSUME NEW n \in Pending(ctx), IsCoded(ctx, n)
      PROVE  ctx.data[n].input \in ctx.frames
  BY <1>1, <1>4 DEF SourceThere
<1>5. ASSUME NEW n \in Pending(ctx), IsCoded(ctx, n), ctx.data[n].type # "key",
             NEW i \in ToSet(ctx.data[n].refs)
      PROVE  LET ref == ctx.data[n].rec[i].output
             IN ref # None /\ ref # n /\ (ref \in DOMAIN ctx.data => IsCoded(ctx, ref))
  <2>1. ctx.data[n].refs \in Seq(RefSlots) /\ n \in Live(ctx) /\ n >= ctx.output
        /\ ~ctx.data[n].sef /\ n \in Nat
    BY <1>1, <1>2, <1>5, FiFacts, LiveFacts DEF IsCoded
  <2>2. i \in RefSlots
    BY <2>1 DEF ToSet
  <2>3. /\ RefOK(ctx, n, ctx.data[n].rec[i]) /\ ctx.data[n].rec[i].output < n
        /\ ctx.data[n].rec[i].output # None
    BY <1>1, <1>5, <2>1, <2>2 DEF RefsOK
  <2> QED
    BY <2>1, <2>3 DEF RefOK
<1> QED
  BY <1>3, <1>4, <1>5 DEF LookbackThere

\* The counters, queues and maps of the encoder stay within what was sent
\* (ContextInner, api/internal.rs), for any number of frames.
THEOREM TypeCorrect == Spec => []TypeOK
  BY Invariance, TypeImplied, PTL

\* The frame that is encoded next is predicted from what a decoder has
\* (encode_normal_packet, compute_lookahead_motion_vectors), for any pyramid,
\* look-ahead, key frames and order of the calls.
THEOREM EncoderInSync == Spec => []InSync
  BY Invariance, SyncImplied, PTL

\* garbage_collect leaves what the scheduling and the look-ahead of later calls
\* look back at.
THEOREM LookbackKept == Spec => []LookbackThere
  BY Invariance, LookbackImplied, PTL
=============================================================================
