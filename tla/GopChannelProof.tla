-------------------------- MODULE GopChannelProof --------------------------
(***************************************************************************)
(* Proofs about GopChannel, for any number of workers, threads and frames: *)
(* its inductive invariant, that GOPs start where the detector said, and   *)
(* that the pipeline implements the queue of DisplayOrder.                 *)
(***************************************************************************)
EXTENDS GopChannel, SequenceTheorems, FiniteSetTheorems, TLAPS

USE SlotsAssumption, LengthsAssumption DEF SlotsAssumption, LengthsAssumption

-----------------------------------------------------------------------------
(* Intervals of frames *)

\* An interval is a sequence of its length.
LEMMA IntervalIs ==
  ASSUME NEW a \in Nat, NEW b \in Nat, a <= b
  PROVE  /\ Interval(a, b) \in Seq(Nat) /\ Len(Interval(a, b)) = b - a
         /\ DOMAIN Interval(a, b) = 1 .. b - a
         /\ \A n \in 1 .. b - a : Interval(a, b)[n] = a + n - 1
<1>1. Interval(a, b) \in [1 .. b - a -> Nat]
  BY DEF Interval
<1>2. Interval(a, b) \in Seq(Nat)
  BY <1>1, SeqDef
<1> QED BY <1>1, <1>2, LenProperties DEF Interval

\* ... of frames, when it ends where they do.
LEMMA IntervalFrames ==
  ASSUME NEW a \in Nat, NEW b \in Nat, a <= b, b <= MaxFrames
  PROVE  Interval(a, b) \in Seq(Frames)
<1>1. Interval(a, b) \in [1 .. b - a -> Frames]
  BY DEF Interval, Frames
<1> QED BY <1>1, SeqDef

\* Two intervals, one behind the other.
LEMMA IntervalConcat ==
  ASSUME NEW a \in Nat, NEW b \in Nat, NEW c \in Nat, a <= b, b <= c
  PROVE  Interval(a, b) \o Interval(b, c) = Interval(a, c)
<1> DEFINE s == Interval(a, b) t == Interval(b, c) u == Interval(a, c)
<1>1. s \in Seq(Nat) /\ Len(s) = b - a
  BY IntervalIs
<1>2. t \in Seq(Nat) /\ Len(t) = c - b
  BY IntervalIs
<1>0. u \in Seq(Nat) /\ Len(u) = c - a
  <2>1. a <= c
    OBVIOUS
  <2> QED BY <2>1, IntervalIs
<1>3. s \o t \in Seq(Nat) /\ Len(s \o t) = Len(u)
  BY <1>0, <1>1, <1>2, ConcatProperties
<1>4. ASSUME NEW i \in 1 .. Len(s \o t) PROVE (s \o t)[i] = u[i]
  <2>1. (s \o t)[i] = IF i <= Len(s) THEN s[i] ELSE t[i - Len(s)]
    BY <1>1, <1>2, <1>3, ConcatProperties
  <2>2. i \in 1 .. c - a /\ u[i] = a + i - 1
    BY <1>0, <1>3 DEF Interval
  <2>3. CASE i <= b - a
    BY <2>1, <2>2, <2>3, <1>1 DEF Interval
  <2>4. CASE ~(i <= b - a)
    <3>1. i - (b - a) \in 1 .. c - b
      BY <2>2, <2>4
    <3>2. t[i - (b - a)] = b + (i - (b - a)) - 1
      BY <3>1 DEF Interval
    <3>3. b + (i - (b - a)) - 1 = a + i - 1
      BY <2>2
    <3> QED BY <2>1, <2>2, <2>4, <3>2, <3>3, <1>1
  <2> QED BY <2>3, <2>4
<1> QED BY <1>0, <1>1, <1>2, <1>3, <1>4, SeqEqual

\* One frame more.
LEMMA IntervalAppend ==
  ASSUME NEW b \in Nat
  PROVE  Append(Interval(0, b), b) = Interval(0, b + 1)
<1> DEFINE s == Interval(0, b) u == Interval(0, b + 1)
<1>1. s \in Seq(Nat) /\ Len(s) = b /\ u \in Seq(Nat) /\ Len(u) = b + 1
  BY IntervalIs
<1>2. Append(s, b) \in Seq(Nat) /\ Len(Append(s, b)) = b + 1
  BY <1>1, AppendProperties
<1>3. ASSUME NEW i \in 1 .. Len(Append(s, b)) PROVE Append(s, b)[i] = u[i]
  <2>1. i <= b => Append(s, b)[i] = s[i]
    BY <1>1, <1>2, AppendProperties
  <2>2. Append(s, b)[b + 1] = b
    BY <1>1, AppendProperties
  <2> QED BY <2>1, <2>2, <1>1, <1>2 DEF Interval
<1> QED BY <1>1, <1>2, <1>3, SeqEqual

-----------------------------------------------------------------------------
(* Sub-GOPs one behind the other *)

\* A sub-GOP of the frames from a to b: sc are the scenes, st the frames at
\* which the next GOP may start.
Piece(p, a, b, sc, st) ==
  /\ a < b
  /\ p.frames = Interval(a, b)
  /\ \A f \in sc : ~(a < f /\ f < b)
  /\ IF p.endGop THEN b \in st ELSE b \notin sc

\* Sub-GOPs from a to b: o says where each starts.
Chain(ps, a, b, sc, st) ==
  \E o \in [1 .. Len(ps) + 1 -> 0 .. b] :
    /\ o[1] = a /\ o[Len(ps) + 1] = b
    /\ \A i \in 1 .. Len(ps) : Piece(ps[i], o[i], o[i + 1], sc, st)

\* No sub-GOP lies between a frame and itself, and only there.
LEMMA ChainEmpty ==
  ASSUME NEW a \in Nat, NEW b \in Nat, NEW sc, NEW st
  PROVE  Chain(<<>>, a, b, sc, st) <=> a = b
<1>1. Chain(<<>>, a, b, sc, st) => a = b
  BY DEF Chain
<1>2. ASSUME a = b PROVE Chain(<<>>, a, b, sc, st)
  <2> DEFINE o == [i \in 1 .. 1 |-> a]
  <2>1. o \in [1 .. Len(<<>>) + 1 -> 0 .. b] /\ o[1] = a /\ o[Len(<<>>) + 1] = b
    BY <1>2, EmptySeq
  <2>2. \A i \in 1 .. Len(<<>>) : Piece(<<>>[i], o[i], o[i + 1], sc, st)
    BY EmptySeq
  <2> HIDE DEF o
  <2> QED BY <2>1, <2>2 DEF Chain
<1> QED BY <1>1, <1>2

\* The first of them, and the rest.
LEMMA ChainTail ==
  ASSUME NEW ps \in Seq(SubGops), ps # <<>>, NEW a \in Nat, NEW b \in Nat, NEW sc, NEW st,
         Chain(ps, a, b, sc, st)
  PROVE  \E m \in a + 1 .. b : Piece(Head(ps), a, m, sc, st) /\ Chain(Tail(ps), m, b, sc, st)
<1>1. PICK o \in [1 .. Len(ps) + 1 -> 0 .. b] :
         /\ o[1] = a /\ o[Len(ps) + 1] = b
         /\ \A i \in 1 .. Len(ps) : Piece(ps[i], o[i], o[i + 1], sc, st)
  BY DEF Chain
<1>2. Len(ps) \in Nat \ {0} /\ Tail(ps) \in Seq(SubGops) /\ Len(Tail(ps)) = Len(ps) - 1
  BY EmptySeq, HeadTailProperties
<1>3. Head(ps) = ps[1] /\ \A i \in 1 .. Len(Tail(ps)) : Tail(ps)[i] = ps[i + 1]
  BY HeadTailProperties
<1>4. Piece(Head(ps), a, o[2], sc, st) /\ o[2] \in 0 .. b
  BY <1>1, <1>2, <1>3
<1>5. a < o[2]
  BY <1>4 DEF Piece
<1>6. Chain(Tail(ps), o[2], b, sc, st)
  <2> DEFINE q == [i \in 1 .. Len(Tail(ps)) + 1 |-> o[i + 1]]
  <2>1. q \in [1 .. Len(Tail(ps)) + 1 -> 0 .. b] /\ q[1] = o[2] /\ q[Len(Tail(ps)) + 1] = b
    BY <1>1, <1>2
  <2>2. ASSUME NEW i \in 1 .. Len(Tail(ps)) PROVE Piece(Tail(ps)[i], q[i], q[i + 1], sc, st)
    <3>1. i + 1 \in 1 .. Len(ps) /\ i + 1 \in 1 .. Len(Tail(ps)) + 1 /\ i \in 1 .. Len(Tail(ps)) + 1
      BY <1>2
    <3>2. q[i] = o[i + 1] /\ q[i + 1] = o[i + 1 + 1] /\ Tail(ps)[i] = ps[i + 1]
      BY <3>1, <1>3
    <3> QED BY <3>1, <3>2, <1>1
  <2> QED BY <2>1, <2>2 DEF Chain
<1> QED BY <1>4, <1>5, <1>6

\* One more at the end.
LEMMA ChainAppend ==
  ASSUME NEW ps \in Seq(SubGops), NEW p \in SubGops, NEW a \in Nat, NEW b \in Nat, NEW c \in Nat,
         NEW sc, NEW st, Chain(ps, a, b, sc, st), Piece(p, b, c, sc, st)
  PROVE  Chain(Append(ps, p), a, c, sc, st)
<1>1. PICK o \in [1 .. Len(ps) + 1 -> 0 .. b] :
         /\ o[1] = a /\ o[Len(ps) + 1] = b
         /\ \A i \in 1 .. Len(ps) : Piece(ps[i], o[i], o[i + 1], sc, st)
  BY DEF Chain
<1>2. Len(ps) \in Nat /\ Len(Append(ps, p)) = Len(ps) + 1
  BY LenProperties, AppendProperties
<1>3. /\ \A i \in 1 .. Len(ps) : Append(ps, p)[i] = ps[i]
      /\ Append(ps, p)[Len(ps) + 1] = p
  BY AppendProperties
<1>4. b < c
  BY DEF Piece
<1> DEFINE n == Len(ps)
           q == [i \in 1 .. n + 2 |-> IF i = n + 2 THEN c ELSE o[i]]
<1>5. q \in [1 .. Len(Append(ps, p)) + 1 -> 0 .. c] /\ q[1] = a /\ q[Len(Append(ps, p)) + 1] = c
  BY <1>1, <1>2, <1>4
<1>6. ASSUME NEW i \in 1 .. Len(Append(ps, p)) PROVE Piece(Append(ps, p)[i], q[i], q[i + 1], sc, st)
  <2>1. CASE i = n + 1
    <3>1. q[i] = b /\ q[i + 1] = c /\ Append(ps, p)[i] = p
      BY <2>1, <1>1, <1>2, <1>3
    <3> QED BY <3>1
  <2>2. CASE i # n + 1
    <3>1. i \in 1 .. n
      BY <2>2, <1>2
    <3>2. q[i] = o[i] /\ q[i + 1] = o[i + 1] /\ Append(ps, p)[i] = ps[i]
      BY <3>1, <1>2, <1>3
    <3> QED BY <3>1, <3>2, <1>1
  <2> QED BY <2>1, <2>2
<1> QED BY <1>5, <1>6 DEF Chain

\* New scenes behind them, and new frames to start at, change nothing.
LEMMA ChainMono ==
  ASSUME NEW ps \in Seq(SubGops), NEW a \in Nat, NEW b \in Nat, NEW sc, NEW st, NEW sc2, NEW st2,
         Chain(ps, a, b, sc, st), st \subseteq st2, sc2 \subseteq Int, \A f \in sc2 : f \in sc \/ f > b
  PROVE  Chain(ps, a, b, sc2, st2)
<1>1. PICK o \in [1 .. Len(ps) + 1 -> 0 .. b] :
         /\ o[1] = a /\ o[Len(ps) + 1] = b
         /\ \A i \in 1 .. Len(ps) : Piece(ps[i], o[i], o[i + 1], sc, st)
  BY DEF Chain
<1>2. Len(ps) \in Nat
  BY LenProperties
<1>3. ASSUME NEW i \in 1 .. Len(ps) PROVE Piece(ps[i], o[i], o[i + 1], sc2, st2)
  <2>1. o[i] \in 0 .. b /\ o[i + 1] \in 0 .. b
    BY <1>2
  <2>2. Piece(ps[i], o[i], o[i + 1], sc, st)
    BY <1>1
  <2>3. \A f \in sc2 : ~(o[i] < f /\ f < o[i + 1])
    BY <2>1, <2>2 DEF Piece
  <2>4. IF ps[i].endGop THEN o[i + 1] \in st2 ELSE o[i + 1] \notin sc2
    BY <2>1, <2>2 DEF Piece
  <2> QED BY <2>2, <2>3, <2>4 DEF Piece
<1> QED BY <1>1, <1>3 DEF Chain

-----------------------------------------------------------------------------
(* The inductive invariant *)

\* Where a GOP may start: at a new scene, or behind all frames.
Starts == scenes \cup (IF closed /\ taken = sent THEN {taken} ELSE {})

\* The splitter: what it has cut off is what the detector has seen.
SplitInv ==
  /\ \/ processed = cut + scanned
     \/ closed /\ taken = sent /\ cut = taken
  /\ scenes \subseteq 1 .. cut
  /\ \/ closed /\ taken = sent
     \/ scanned = 0
     \/ taken >= cut + Pyramid + 1 + scanned

\* The jobs end in this order; each has then done its part.
EndInv ==
  /\ Splitter \in ended => closed /\ taken = sent /\ cut = taken /\ held = <<>>
  /\ Dispatcher \in ended => Splitter \in ended /\ subgops = <<>>
  /\ Dispatcher \notin ended /\ gops # <<>> => gops[Len(gops)].open
  /\ ~needs => gops # <<>>

\* The reassembler is at one GOP, is through with those before, and knows of
\* some behind; it is told of the rest in order.
ReadInv ==
  /\ \A g \in DOMAIN gops :
       /\ g < last => gops[g].done /\ gops[g].read = Len(gops[g].frames)
       /\ g > last => gops[g].read = 0
       /\ gops[g].done => ~gops[g].open /\ gops[g].subs = <<>> /\ gops[g].made = Len(gops[g].frames)
  /\ last + Len(announced) <= Len(gops) + 1
  /\ pending = last .. Len(gops) - Len(announced)
  /\ \A i \in DOMAIN announced : announced[i] = Len(gops) - Len(announced) + i

\* A worker is free, or told of a GOP, or codes one.
WorkerInv ==
  /\ \A i, j \in DOMAIN idle : idle[i] = idle[j] => i = j
  /\ \A i \in DOMAIN idle : workload[idle[i]] = <<>> /\ work[idle[i]] = 0
  /\ \A w \in Workers : Len(workload[w]) <= 1 /\ (work[w] # 0 => workload[w] = <<>>)

\* The GOP g has the frames from s[g] to s[g + 1]: some are with the worker and
\* some on their way to it.
GopInv(s, g) ==
  /\ s[g] + Len(gops[g].frames) <= s[g + 1]
  /\ gops[g].frames = Interval(s[g], s[g] + Len(gops[g].frames))
  /\ Chain(gops[g].subs, s[g] + Len(gops[g].frames), s[g + 1], scenes, Starts)
  /\ \A f \in scenes : ~(s[g] < f /\ f < s[g + 1])
  /\ g > 1 /\ s[g] < s[g + 1] => s[g] \in scenes

\* Where the GOP that is dispatched, the last of n, ends so far.
EdgeInv(s, n) ==
  IF needs THEN n > 0 => s[n + 1] \in Starts
  ELSE /\ s[n] < s[n + 1] => s[n + 1] \notin scenes
       /\ n > 1 /\ s[n] = s[n + 1] => s[n] \in Starts

\* What came out: the GOPs before last, and what is read of that one.
OutInv(s) ==
  /\ Len(out) = s[last] + (IF last \in DOMAIN gops THEN gops[last].read ELSE 0)
  /\ out = Interval(0, Len(out))

\* s says where each GOP starts.
Bounds(s) ==
  /\ s[1] = 0
  /\ \A g \in 1 .. Len(gops) : GopInv(s, g)
  /\ Chain(subgops \o held, s[Len(gops) + 1], cut, scenes, Starts)
  /\ EdgeInv(s, Len(gops))
  /\ OutInv(s)

PipeInv == \E s \in [1 .. Len(gops) + 1 -> 0 .. cut] : Bounds(s)

IInv == TypeOK /\ SplitInv /\ EndInv /\ ReadInv /\ WorkerInv /\ PipeInv

-----------------------------------------------------------------------------
(* Type correctness, in parts *)

InputType ==
  /\ sent \in 0 .. MaxFrames /\ closed \in BOOLEAN
  /\ taken \in 0 .. sent /\ sent <= taken + InputLen /\ cut \in 0 .. taken
  /\ scanned \in 0 .. Pyramid + 1 /\ processed \in 0 .. taken
  /\ held \in Seq(SubGops) /\ Len(held) <= 1 /\ scenes \subseteq Frames

ChannelType ==
  /\ subgops \in Seq(SubGops) /\ Len(subgops) <= SubGopsLen
  /\ needs \in BOOLEAN /\ idle \in Seq(Workers) /\ Len(idle) <= Slots

GopsType ==
  /\ gops \in Seq(Gops)
  /\ \A g \in DOMAIN gops : gops[g].made \in gops[g].read .. Len(gops[g].frames)
  /\ announced \in Seq(DOMAIN gops)
  /\ workload \in [Workers -> Seq({0} \cup DOMAIN gops)]
  /\ work \in [Workers -> {0} \cup DOMAIN gops]
  /\ pending \subseteq DOMAIN gops /\ last \in 1 .. Len(gops) + 1 /\ out \in Seq(Frames)

JobType == threads \in Pools /\ started \in 0 .. Slots + 3 /\ ended \subseteq 0 .. started - 1

\* The parts make the whole.
LEMMA TypeParts == TypeOK <=> InputType /\ ChannelType /\ GopsType /\ JobType
BY DEF TypeOK, InputType, ChannelType, GopsType, JobType

\* What the splitter cuts off is a sub-GOP, and all that it cut is taken.
LEMMA CutOffIs ==
  ASSUME IInv, NEW n \in Nat \ {0}, cut + n <= MaxFrames, NEW end \in BOOLEAN, NEW rest,
         CutOff(n, end, rest)
  PROVE  /\ cut' = cut + n /\ scanned' = rest
         /\ held' = <<[frames |-> Interval(cut, cut + n), endGop |-> end]>>
         /\ held' \in Seq(SubGops) /\ Len(held') = 1
<1>1. cut \in Nat
  BY DEF IInv, TypeOK
<1>2. Interval(cut, cut + n) \in Seq(Frames)
  BY <1>1, IntervalFrames
<1>3. [frames |-> Interval(cut, cut + n), endGop |-> end] \in SubGops
  BY <1>2 DEF SubGops
<1> QED BY <1>3 DEF CutOff

\* The detector looks at a frame that the splitter has taken.
LEMMA SplitIs ==
  ASSUME IInv, held = <<>>, NEW newGop \in BOOLEAN, Split(newGop),
         taken' \in taken .. sent, cut + Distance <= taken',
         (taken < taken' /\ ~(closed /\ taken = sent)) \/ taken - cut > Distance
  PROVE  /\ processed = cut + scanned /\ processed' = processed + 1 /\ processed' < taken'
         /\ scenes' = IF newGop THEN scenes \cup {processed'} ELSE scenes
         /\ \/ \E end \in BOOLEAN :
                 /\ CutOff(scanned + 1, end, 0) /\ cut' = processed' /\ scanned' = 0
                 /\ held' = <<[frames |-> Interval(cut, cut'), endGop |-> end]>>
                 /\ held' \in Seq(SubGops) /\ Len(held') = 1
                 /\ end = newGop
            \/ ~newGop /\ scanned <= Pyramid /\ scanned' = scanned + 1 /\ held' = held /\ cut' = cut
<1> USE DEF IInv
<1>1. /\ cut \in Nat /\ taken \in Nat /\ sent \in Nat /\ sent <= MaxFrames /\ taken <= sent /\ cut <= taken
      /\ scanned \in 0 .. Pyramid + 1 /\ processed \in Nat
  BY DEF TypeOK
<1>2. processed = cut + scanned
  BY <1>1 DEF SplitInv, Distance
<1>3. processed' = processed + 1 /\ scenes' = IF newGop THEN scenes \cup {processed'} ELSE scenes
  BY DEF Split
<1>4. processed' < taken'
  <2>1. CASE taken - cut > Distance
    BY <2>1, <1>1, <1>2, <1>3 DEF Distance
  <2>2. CASE taken < taken' /\ ~(closed /\ taken = sent)
    <3>1. scanned = 0 \/ taken >= cut + Pyramid + 1 + scanned
      BY <2>2 DEF SplitInv
    <3>2. processed' = cut + scanned + 1
      BY <1>1, <1>2, <1>3
    <3>3. CASE scanned = 0
      <4>1. taken' \in Nat /\ Distance = Pyramid + 2
        BY <1>1 DEF Distance
      <4>2. processed' = cut + 1
        BY <3>2, <3>3, <1>1
      <4> QED BY <4>1, <4>2, <1>1
    <3>4. CASE taken >= cut + Pyramid + 1 + scanned
      BY <3>2, <3>4, <2>2, <1>1
    <3> QED BY <3>1, <3>3, <3>4
  <2> QED BY <2>1, <2>2
<1>5. CASE scanned > Pyramid
  <2>1. CutOff(scanned + 1, newGop, 0)
    BY <1>1, <1>5 DEF Split
  <2>2. cut' = cut + (scanned + 1) /\ scanned' = 0
    BY <2>1 DEF CutOff
  <2>3. /\ held' = <<[frames |-> Interval(cut, cut'), endGop |-> newGop]>>
        /\ held' \in Seq(SubGops) /\ Len(held') = 1
    BY <2>1, <2>2, <1>1, <1>2, <1>3, <1>4, CutOffIs
  <2> QED BY <2>1, <2>2, <2>3, <1>1, <1>2, <1>3, <1>4
<1>6. CASE scanned <= Pyramid /\ newGop
  <2>0. CutOff(scanned + 1, TRUE, 0)
    <3>1. ~(scanned > Pyramid)
      BY <1>1, <1>6
    <3> QED BY <3>1, <1>6 DEF Split
  <2>1. CutOff(scanned + 1, newGop, 0)
    BY <2>0, <1>6
  <2>2. cut' = cut + (scanned + 1) /\ scanned' = 0
    BY <2>1 DEF CutOff
  <2>3. /\ held' = <<[frames |-> Interval(cut, cut'), endGop |-> newGop]>>
        /\ held' \in Seq(SubGops) /\ Len(held') = 1
    BY <2>1, <2>2, <1>1, <1>2, <1>3, <1>4, CutOffIs
  <2> QED BY <2>1, <2>2, <2>3, <1>1, <1>2, <1>3, <1>4
<1>7. CASE scanned <= Pyramid /\ ~newGop
  BY <1>1, <1>2, <1>3, <1>4, <1>7 DEF Split
<1> QED BY <1>1, <1>5, <1>6, <1>7

\* What the splitter does, in one form: it takes at most one frame, the
\* detector sees at most one, and it cuts off at most one sub-GOP.
SplitterMoves ==
  /\ UNCHANGED <<sent, closed, subgops, dispatch, pool, reassembler, jobs>>
  /\ held = <<>> /\ taken' \in taken .. sent /\ cut' \in cut .. taken'
  /\ ~(closed /\ taken = sent /\ cut = taken)
  /\ scanned' \in 0 .. Pyramid + 1 /\ processed' \in 0 .. taken'
  /\ scenes' = scenes \/ (scenes' = scenes \cup {cut'} /\ cut < cut' /\ cut' < taken')
  /\ \/ held' = held /\ cut' = cut /\ scenes' = scenes
     \/ /\ cut < cut' /\ held' \in Seq(SubGops) /\ Len(held') = 1
        /\ \E end \in BOOLEAN :
             /\ held' = <<[frames |-> Interval(cut, cut'), endGop |-> end]>>
             /\ IF end THEN cut' \in scenes' \/ (closed /\ cut' = taken' /\ taken' = sent)
                ELSE scenes' = scenes

\* The splitter takes a frame, and may have the detector look at one.
LEMMA TakeFrameMoves ==
  ASSUME IInv, TakeFrame
  PROVE  SplitterMoves /\ SplitInv' /\ Running(Splitter)
<1> USE DEF IInv
<1>1. /\ cut \in Nat /\ taken \in Nat /\ sent \in Nat /\ sent <= MaxFrames /\ cut <= taken /\ taken <= sent
      /\ scanned \in 0 .. Pyramid + 1 /\ processed \in Nat /\ processed <= taken
  BY DEF TypeOK
<1>2. /\ taken < sent /\ taken' = taken + 1 /\ held = <<>> /\ Running(Splitter)
      /\ UNCHANGED <<sent, closed, subgops, dispatch, pool, reassembler, jobs>>
  BY DEF TakeFrame
<1>3. CASE taken + 1 - cut < Distance
  <2>1. UNCHANGED <<cut, scanned, processed, held, scenes>>
    BY <1>3 DEF TakeFrame
  <2>2. /\ taken' \in taken .. sent /\ cut' \in cut .. taken'
        /\ scanned' \in 0 .. Pyramid + 1 /\ processed' \in 0 .. taken'
    BY <2>1, <1>1, <1>2
  <2>3. SplitterMoves
    BY <2>1, <2>2, <1>2 DEF SplitterMoves
  <2> QED BY <2>1, <2>3, <1>1, <1>2 DEF SplitInv
<1>4. CASE ~(taken + 1 - cut < Distance)
  <2>1. PICK newGop \in BOOLEAN : Split(newGop)
    BY <1>4 DEF TakeFrame
  <2>2. /\ processed = cut + scanned /\ processed' = processed + 1 /\ processed' < taken'
        /\ scenes' = IF newGop THEN scenes \cup {processed'} ELSE scenes
        /\ \/ \E end \in BOOLEAN :
                /\ CutOff(scanned + 1, end, 0) /\ cut' = processed' /\ scanned' = 0
                /\ held' = <<[frames |-> Interval(cut, cut'), endGop |-> end]>>
                /\ held' \in Seq(SubGops) /\ Len(held') = 1
                /\ end = newGop
           \/ ~newGop /\ scanned <= Pyramid /\ scanned' = scanned + 1 /\ held' = held /\ cut' = cut
    <3>1. /\ taken' \in taken .. sent /\ cut + Distance <= taken'
          /\ taken < taken' /\ ~(closed /\ taken = sent)
      BY <1>1, <1>2, <1>4 DEF Distance
    <3> QED BY <3>1, <2>1, <1>2, SplitIs
  <2>3. /\ taken' \in taken .. sent /\ cut' \in cut .. taken' /\ taken # sent
        /\ scanned' \in 0 .. Pyramid + 1 /\ processed' \in 0 .. taken'
    BY <2>2, <1>1, <1>2
  <2>0. held = <<>> /\ UNCHANGED <<sent, closed, subgops, dispatch, pool, reassembler, jobs>>
    BY <1>2
  <2>a. scenes' = IF newGop THEN scenes \cup {processed'} ELSE scenes
    BY <2>2
  <2>7. SplitterMoves
    <3>1. CASE ~newGop /\ held' = held /\ cut' = cut
      BY <2>a, <2>0, <2>3, <3>1 DEF SplitterMoves
    <3>2. CASE /\ cut' = processed' /\ held' \in Seq(SubGops) /\ Len(held') = 1
               /\ held' = <<[frames |-> Interval(cut, cut'), endGop |-> newGop]>>
      <4>1. cut < cut' /\ cut' < taken'
        BY <2>2, <3>2, <1>1
      <4>2. CASE newGop = TRUE
        BY <2>a, <2>0, <2>3, <3>2, <4>1, <4>2 DEF SplitterMoves
      <4>3. CASE newGop = FALSE
        BY <2>a, <2>0, <2>3, <3>2, <4>1, <4>3 DEF SplitterMoves
      <4> QED BY <4>2, <4>3
    <3> QED BY <2>2, <3>1, <3>2
  <2>4. SplitInv'
    BY <2>2, <1>1, <1>2, <1>4 DEF SplitInv, Distance
  <2> QED BY <2>4, <2>7, <1>2
<1> QED BY <1>3, <1>4

\* At the end of the input the detector looks at what is left ...
LEMMA SplitRestMoves ==
  ASSUME IInv, SplitRest
  PROVE  SplitterMoves /\ SplitInv' /\ Running(Splitter)
<1> USE DEF IInv
<1>1. /\ cut \in Nat /\ taken \in Nat /\ sent \in Nat /\ sent <= MaxFrames /\ cut <= taken /\ taken <= sent
      /\ scanned \in 0 .. Pyramid + 1 /\ processed \in Nat /\ processed <= taken
  BY DEF TypeOK
<1>2. /\ closed /\ taken = sent /\ taken' = taken /\ held = <<>> /\ Running(Splitter)
      /\ taken - cut > Distance
      /\ UNCHANGED <<sent, closed, subgops, dispatch, pool, reassembler, jobs>>
  BY DEF SplitRest, InputOver
<1>3. PICK newGop \in BOOLEAN : Split(newGop)
  BY DEF SplitRest
<1>4. /\ processed = cut + scanned /\ processed' = processed + 1 /\ processed' < taken'
      /\ scenes' = IF newGop THEN scenes \cup {processed'} ELSE scenes
      /\ \/ \E end \in BOOLEAN :
              /\ CutOff(scanned + 1, end, 0) /\ cut' = processed' /\ scanned' = 0
              /\ held' = <<[frames |-> Interval(cut, cut'), endGop |-> end]>>
              /\ held' \in Seq(SubGops) /\ Len(held') = 1
              /\ end = newGop
         \/ ~newGop /\ scanned <= Pyramid /\ scanned' = scanned + 1 /\ held' = held /\ cut' = cut
  <2>1. taken' \in taken .. sent /\ cut + Distance <= taken'
    BY <1>1, <1>2 DEF Distance
  <2> QED BY <2>1, <1>2, <1>3, SplitIs
<1>5. SplitterMoves
  <2>1. /\ taken' \in taken .. sent /\ cut' \in cut .. taken' /\ cut # taken
        /\ scanned' \in 0 .. Pyramid + 1 /\ processed' \in 0 .. taken'
    BY <1>1, <1>2, <1>4 DEF Distance
  <2>2. CASE ~newGop /\ held' = held /\ cut' = cut
    BY <1>4, <2>1, <2>2, <1>1, <1>2 DEF SplitterMoves
  <2>3. CASE /\ cut' = processed' /\ held' \in Seq(SubGops) /\ Len(held') = 1
             /\ held' = <<[frames |-> Interval(cut, cut'), endGop |-> newGop]>>
    <3>1. cut < cut' /\ cut' < taken'
      BY <1>4, <2>3, <1>1
    <3>2. CASE newGop = TRUE
      BY <1>4, <2>1, <2>3, <3>1, <3>2, <1>2 DEF SplitterMoves
    <3>3. CASE newGop = FALSE
      BY <1>4, <2>1, <2>3, <3>1, <3>3, <1>2 DEF SplitterMoves
    <3> QED BY <3>2, <3>3
  <2> QED BY <1>4, <2>2, <2>3
<1>6. SplitInv'
  BY <1>1, <1>2, <1>4 DEF SplitInv
<1> QED BY <1>2, <1>5, <1>6

\* ... and the last frames are cut off without it.
LEMMA CutRestMoves ==
  ASSUME IInv, CutRest
  PROVE  SplitterMoves /\ SplitInv' /\ Running(Splitter)
<1> USE DEF IInv
<1>1. /\ cut \in Nat /\ taken \in Nat /\ sent \in Nat /\ sent <= MaxFrames /\ cut <= taken /\ taken <= sent
      /\ scanned \in 0 .. Pyramid + 1 /\ processed \in Nat /\ processed <= taken
  BY DEF TypeOK
<1>2. /\ closed /\ taken = sent /\ taken' = taken /\ held = <<>> /\ Running(Splitter)
      /\ taken - cut \in Nat \ {0}
      /\ CutOff(taken - cut, TRUE, scanned)
      /\ UNCHANGED <<sent, closed, processed, scenes>>
      /\ UNCHANGED <<sent, closed, subgops, dispatch, pool, reassembler, jobs>>
  <2>1. /\ InputOver /\ taken - cut \in 1 .. Distance
        /\ CutOff(taken - cut, TRUE, scanned)
        /\ UNCHANGED <<sent, closed, taken, processed, scenes, subgops, dispatch, pool>>
        /\ UNCHANGED <<reassembler, jobs>>
    BY DEF CutRest
  <2>2. UNCHANGED <<sent, closed, subgops, dispatch, pool, reassembler, jobs>>
    BY <2>1
  <2>3. taken - cut \in Nat \ {0}
    BY <2>1, <1>1 DEF Distance
  <2> QED BY <2>1, <2>2, <2>3 DEF InputOver
<1>3. /\ cut' = cut + (taken - cut) /\ scanned' = scanned
      /\ held' = <<[frames |-> Interval(cut, cut + (taken - cut)), endGop |-> TRUE]>>
      /\ held' \in Seq(SubGops) /\ Len(held') = 1
  <2>1. cut + (taken - cut) <= MaxFrames
    BY <1>1
  <2> HIDE DEF IInv
  <2> QED BY <2>1, <1>2, CutOffIs
<1>4. cut' = taken /\ held' = <<[frames |-> Interval(cut, cut'), endGop |-> TRUE]>>
  <2>1. cut + (taken - cut) = taken
    BY <1>1
  <2> QED BY <2>1, <1>3
<1>5. SplitterMoves
  <2>1. /\ taken' \in taken .. sent /\ cut' \in cut .. taken' /\ cut < cut' /\ cut # taken
        /\ scanned' \in 0 .. Pyramid + 1 /\ processed' \in 0 .. taken'
    BY <1>1, <1>2, <1>3, <1>4
  <2> QED BY <2>1, <1>1, <1>2, <1>3, <1>4 DEF SplitterMoves
<1>6. SplitInv'
  BY <1>1, <1>2, <1>3, <1>4 DEF SplitInv
<1> QED BY <1>2, <1>5, <1>6

-----------------------------------------------------------------------------
(* Facts that every step uses *)

\* The GOPs and what is in them.
LEMMA GopsAre ==
  ASSUME TypeOK
  PROVE  /\ Len(gops) \in Nat /\ DOMAIN gops = 1 .. Len(gops)
         /\ \A g \in 1 .. Len(gops) :
              /\ gops[g] \in Gops /\ gops[g].frames \in Seq(Frames)
              /\ Len(gops[g].frames) \in Nat /\ gops[g].subs \in Seq(SubGops)
              /\ gops[g].made \in Nat /\ gops[g].read \in Nat
              /\ gops[g].read <= gops[g].made /\ gops[g].made <= Len(gops[g].frames)
<1>1. gops \in Seq(Gops) /\ Len(gops) \in Nat /\ DOMAIN gops = 1 .. Len(gops)
  BY LenProperties DEF TypeOK
<1>2. ASSUME NEW g \in 1 .. Len(gops)
      PROVE  /\ gops[g] \in Gops /\ gops[g].frames \in Seq(Frames)
             /\ Len(gops[g].frames) \in Nat /\ gops[g].subs \in Seq(SubGops)
             /\ gops[g].made \in Nat /\ gops[g].read \in Nat
             /\ gops[g].read <= gops[g].made /\ gops[g].made <= Len(gops[g].frames)
  <2>1. gops[g] \in Gops
    BY <1>1, ElementOfSeq
  <2>2. /\ gops[g].frames \in Seq(Frames) /\ gops[g].subs \in Seq(SubGops)
        /\ gops[g].made \in Nat /\ gops[g].read \in Nat
    BY <2>1 DEF Gops
  <2>3. Len(gops[g].frames) \in Nat
    BY <2>2, LenProperties
  <2>4. gops[g].made \in gops[g].read .. Len(gops[g].frames)
    BY <1>1 DEF TypeOK
  <2> QED BY <2>1, <2>2, <2>3, <2>4
<1> QED BY <1>1, <1>2

\* A step that does not touch the GOPs and takes the splitter no further than
\* new scenes and new places to start at, all behind what was cut.
LEMMA PipeGrows ==
  ASSUME IInv, gops' = gops, last' = last, out' = out, needs' = needs,
         cut' \in Nat, cut <= cut', scenes \subseteq scenes', scenes' \subseteq Int, Starts \subseteq Starts',
         \A f \in scenes' : f \in scenes \/ f > cut,
         \A a \in 0 .. cut : Chain(subgops \o held, a, cut, scenes, Starts)
                             => Chain(subgops' \o held', a, cut', scenes', Starts')
  PROVE  PipeInv'
<1> DEFINE n == Len(gops)
<1>1. PICK s \in [1 .. n + 1 -> 0 .. cut] : Bounds(s)
  BY DEF IInv, PipeInv
<1>2. n \in Nat /\ DOMAIN gops = 1 .. n /\ cut \in Nat
  BY GopsAre DEF IInv, TypeOK
<1>3. s \in [1 .. Len(gops') + 1 -> 0 .. cut']
  BY <1>2
<1>4. ASSUME NEW g \in 1 .. n PROVE GopInv(s, g)'
  <2>1. s[g] \in 0 .. cut /\ s[g + 1] \in 0 .. cut /\ gops[g].subs \in Seq(SubGops)
    <3>1. g \in 1 .. n + 1 /\ g + 1 \in 1 .. n + 1
      BY <1>2
    <3>2. s[g] \in 0 .. cut /\ s[g + 1] \in 0 .. cut
      BY <3>1
    <3>3. gops[g].subs \in Seq(SubGops)
      BY GopsAre DEF IInv
    <3> QED BY <3>2, <3>3
  <2>2. GopInv(s, g)
    BY <1>1 DEF Bounds
  <2>3. Len(gops[g].frames) \in Nat
    BY GopsAre DEF IInv
  <2>4. Chain(gops[g].subs, s[g] + Len(gops[g].frames), s[g + 1], scenes', Starts')
    <3>1. \A f \in scenes' : f \in scenes \/ f > s[g + 1]
      BY <2>1, <1>2
    <3> DEFINE a == s[g] + Len(gops[g].frames) b == s[g + 1] ps == gops[g].subs
    <3>2. a \in Nat /\ b \in Nat /\ Chain(ps, a, b, scenes, Starts) /\ ps \in Seq(SubGops)
      BY <2>1, <2>2, <2>3 DEF GopInv
    <3>3. \A f \in scenes' : f \in scenes \/ f > b
      BY <3>1
    <3> HIDE DEF a, b, ps
    <3>4. Chain(ps, a, b, scenes', Starts')
      BY <3>2, <3>3, ChainMono
    <3> QED BY <3>4 DEF a, b, ps
  <2>5. \A f \in scenes' : ~(s[g] < f /\ f < s[g + 1])
    BY <2>1, <2>2, <1>2 DEF GopInv
  <2> QED BY <2>2, <2>4, <2>5 DEF GopInv
<1>5. s[n + 1] \in 0 .. cut
  BY <1>2
<1>6. Chain(subgops' \o held', s[n + 1], cut', scenes', Starts')
  BY <1>1, <1>5 DEF Bounds
<1>7. EdgeInv(s, n)'
  <2>1. \A m \in 0 .. cut : m \notin scenes => m \notin scenes'
    BY <1>2
  <2> QED BY <1>1, <1>2, <1>5, <2>1 DEF Bounds, EdgeInv
<1>8. OutInv(s)'
  BY <1>1 DEF Bounds, OutInv
<1>9. Bounds(s)'
  BY <1>1, <1>4, <1>6, <1>7, <1>8 DEF Bounds
<1> QED BY <1>3, <1>9 DEF PipeInv

\* A step that changes nothing the bounds speak of.
LEMMA PipeStays ==
  ASSUME IInv, UNCHANGED <<gops, last, out, needs, cut, scenes, subgops, held>>, Starts \subseteq Starts'
  PROVE  PipeInv'
<1>1. cut \in Nat /\ held \in Seq(SubGops) /\ subgops \in Seq(SubGops)
  BY DEF IInv, TypeOK
<1>2. ASSUME NEW a \in 0 .. cut, Chain(subgops \o held, a, cut, scenes, Starts)
      PROVE  Chain(subgops \o held, a, cut, scenes, Starts')
  <2>1. subgops \o held \in Seq(SubGops)
    BY <1>1, ConcatProperties
  <2>2. a \in Nat /\ scenes \subseteq Int /\ \A f \in scenes : f \in scenes \/ f > cut
    BY DEF IInv, TypeOK, Frames
  <2> QED BY <1>1, <1>2, <2>1, <2>2, ChainMono
<1>3. scenes' \subseteq Int
  BY DEF IInv, TypeOK, Frames
<1> QED BY <1>1, <1>2, <1>3, PipeGrows

\* The splitter moves on.
LEMMA SplitterMovesInv ==
  ASSUME IInv, SplitterMoves, SplitInv', Running(Splitter)
  PROVE  IInv'
<1>1. /\ UNCHANGED <<sent, closed, subgops, dispatch, pool, reassembler, jobs>>
      /\ held = <<>> /\ taken' \in taken .. sent /\ cut' \in cut .. taken'
      /\ scanned' \in 0 .. Pyramid + 1 /\ processed' \in 0 .. taken'
      /\ scenes \subseteq scenes' /\ scenes' \subseteq scenes \cup {cut'}
      /\ scenes' = scenes \/ (cut < cut' /\ cut' < taken')
      /\ ~(closed /\ taken = sent /\ cut = taken)
  BY DEF SplitterMoves
<1>2. /\ sent \in Nat /\ sent <= MaxFrames /\ taken \in Nat /\ cut \in Nat
      /\ sent <= taken + InputLen /\ held \in Seq(SubGops) /\ subgops \in Seq(SubGops)
      /\ scenes \subseteq Frames
  BY DEF IInv, TypeOK
<1>3. held' \in Seq(SubGops) /\ Len(held') <= 1
  <2>1. held' = held \/ (held' \in Seq(SubGops) /\ Len(held') = 1)
    BY DEF SplitterMoves
  <2>2. held \in Seq(SubGops) /\ Len(held) <= 1
    BY DEF IInv, TypeOK
  <2> QED BY <2>1, <2>2
<1>4. TypeOK'
  <2>1. InputType'
    <3>1. scenes' \subseteq Frames
      BY <1>1, <1>2 DEF Frames
    <3>2. taken' \in Nat /\ taken <= taken' /\ taken' <= sent /\ sent' = sent
      BY <1>1, <1>2
    <3>5. sent' <= taken' + InputLen
      <4>1. PICK t \in Nat : taken' = t
        BY <3>2
      <4>2. sent <= t + InputLen
        BY <4>1, <3>2, <1>2
      <4> QED BY <4>1, <4>2, <3>2
    <3>6. taken' \in 0 .. sent'
      BY <3>2, <1>2
    <3>7. cut' \in 0 .. taken'
      <4>1. cut' \in cut .. taken'
        BY <1>1
      <4> QED BY <4>1, <3>2, <1>2
    <3>4. sent' <= taken' + InputLen /\ taken' \in 0 .. sent' /\ cut' \in 0 .. taken'
      BY <3>5, <3>6, <3>7
    <3> QED BY <3>1, <3>4, <1>1, <1>3 DEF InputType, IInv, TypeOK
  <2>2. ChannelType' /\ GopsType' /\ JobType'
    BY <1>1 DEF ChannelType, GopsType, JobType, IInv, TypeOK, dispatch, pool, reassembler, jobs
  <2> QED BY <2>1, <2>2 DEF TypeOK, InputType, ChannelType, GopsType, JobType
<1>5. EndInv'
  BY <1>1 DEF Running, EndInv, IInv, dispatch, pool, jobs
<1>6. ReadInv' /\ WorkerInv'
  BY <1>1 DEF ReadInv, WorkerInv, IInv, dispatch, pool, reassembler
<1>7. PipeInv'
  <2>1. gops' = gops /\ last' = last /\ out' = out /\ needs' = needs /\ subgops' = subgops
    BY <1>1 DEF dispatch, pool, reassembler
  <2>2. Starts \subseteq Starts'
    BY <1>1, <1>2 DEF Starts
  <2>3. \A f \in scenes' : f \in scenes \/ f > cut
    BY <1>1, <1>2
  <2>4. ASSUME NEW a \in 0 .. cut, Chain(subgops \o held, a, cut, scenes, Starts)
        PROVE  Chain(subgops' \o held', a, cut', scenes', Starts')
    <3>1. subgops \o held = subgops
      BY <1>1, <1>2, ConcatEmptySeq
    <3>5. scenes' \subseteq Int
      BY <1>1, <1>2 DEF Frames
    <3>6. Chain(subgops, a, cut, scenes, Starts) /\ a \in Nat
      BY <2>4, <3>1
    <3>2. Chain(subgops, a, cut, scenes', Starts')
      BY <3>5, <3>6, <2>2, <2>3, <1>2, ChainMono
    <3>3. CASE held' = held /\ cut' = cut
      BY <2>1, <3>1, <3>2, <3>3
    <3>4. CASE cut < cut' /\ Len(held') = 1
      <4>1. PICK end \in BOOLEAN :
              /\ held' = <<[frames |-> Interval(cut, cut'), endGop |-> end]>>
              /\ IF end THEN cut' \in scenes' \/ (closed /\ cut' = taken' /\ taken' = sent)
                 ELSE scenes' = scenes
        BY <1>1, <3>4, EmptySeq DEF SplitterMoves
      <4> DEFINE p == [frames |-> Interval(cut, cut'), endGop |-> end]
      <4>2. p \in SubGops
        <5>1. Interval(cut, cut') \in Seq(Frames)
          <6>1. cut' \in Nat /\ cut <= cut' /\ cut' <= MaxFrames
            BY <1>1, <1>2
          <6> QED BY <6>1, <1>2, IntervalFrames
        <5> QED BY <5>1 DEF SubGops
      <4>3. Piece(p, cut, cut', scenes', Starts')
        <5>1. \A f \in scenes : f <= cut
          BY <1>2 DEF IInv, SplitInv
        <5>2. \A f \in scenes' : ~(cut < f /\ f < cut')
          BY <5>1, <1>1, <1>2 DEF Frames
        <5>3. end => cut' \in Starts'
          BY <4>1, <1>1 DEF Starts
        <5>4. ~end => cut' \notin scenes'
          BY <4>1, <5>1, <3>4, <1>1, <1>2
        <5> QED BY <5>2, <5>3, <5>4, <3>4 DEF Piece
      <4>4. Append(subgops, p) = subgops \o held'
        BY <4>1, <4>2, <1>2, AppendIsConcat
      <4> HIDE DEF p
      <4>5. Chain(Append(subgops, p), a, cut', scenes', Starts')
        <5>1. cut' \in Nat /\ a \in Nat
          BY <1>1, <1>2
        <5> QED BY <3>2, <4>2, <4>3, <5>1, <1>2, ChainAppend
      <4> QED BY <4>4, <4>5, <2>1
    <3> QED BY <3>3, <3>4 DEF SplitterMoves
  <2>5. cut' \in Nat /\ cut <= cut'
    BY <1>1, <1>2
  <2>6. scenes' \subseteq Int
    BY <1>1, <1>2 DEF Frames
  <2> QED BY <2>1, <2>2, <2>3, <2>4, <2>5, <2>6, <1>1, PipeGrows
<1> QED BY <1>4, <1>5, <1>6, <1>7 DEF IInv

\* The jobs that one of them leaves.
LEMMA EndsType ==
  ASSUME TypeOK, NEW j \in Nat, Running(j), Ends(j)
  PROVE  JobType'
BY DEF TypeOK, Running, Ends, JobType

\* The caller, and the pool: neither touches the pipeline.
LEMMA SendInv == ASSUME IInv, Send PROVE IInv'
<1>1. TypeOK'
  BY DEF IInv, TypeOK, Send, splitter, dispatch, pool, reassembler, jobs
<1>2. SplitInv' /\ EndInv' /\ ReadInv' /\ WorkerInv'
  <2>1. SplitInv'
    BY DEF IInv, SplitInv, Send, splitter
  <2>2. EndInv'
    BY DEF IInv, EndInv, Send, splitter, dispatch, pool, jobs
  <2>3. ReadInv' /\ WorkerInv'
    BY DEF IInv, ReadInv, WorkerInv, Send, dispatch, pool, reassembler
  <2> QED BY <2>1, <2>2, <2>3
<1>3. PipeInv'
  <2>1. Starts \subseteq Starts'
    BY DEF Starts, Send, splitter
  <2> QED BY <2>1, PipeStays DEF Send, splitter, dispatch, pool, reassembler
<1> QED BY <1>1, <1>2, <1>3 DEF IInv

\* The end of the input is a place where a GOP may start: there are more of them.
LEMMA CloseInv == ASSUME IInv, Close PROVE IInv'
<1>1. TypeOK'
  BY DEF IInv, TypeOK, Close, splitter, dispatch, pool, reassembler, jobs
<1>2. SplitInv' /\ EndInv' /\ ReadInv' /\ WorkerInv'
  <2>1. SplitInv'
    BY DEF IInv, SplitInv, Close, splitter
  <2>2. EndInv'
    BY DEF IInv, EndInv, Close, splitter, dispatch, pool, jobs
  <2>3. ReadInv' /\ WorkerInv'
    BY DEF IInv, ReadInv, WorkerInv, Close, dispatch, pool, reassembler
  <2> QED BY <2>1, <2>2, <2>3
<1>3. PipeInv'
  <2>1. Starts \subseteq Starts'
    BY DEF Starts, Close, splitter
  <2> QED BY <2>1, PipeStays DEF Close, splitter, dispatch, pool, reassembler
<1> QED BY <1>1, <1>2, <1>3 DEF IInv

\* A job starts.
LEMMA StartJobInv == ASSUME IInv, StartJob PROVE IInv'
<1>1. TypeOK'
  <2>1. JobType'
    <3>1. started \in Nat /\ started <= Slots + 2 /\ started' = started + 1
      BY DEF IInv, TypeOK, StartJob, Reassembler
    <3>2. threads' \in Pools /\ ended' \subseteq 0 .. started - 1
      BY DEF IInv, TypeOK, StartJob
    <3>3. started' \in 0 .. Slots + 3 /\ 0 .. started - 1 \subseteq 0 .. started' - 1
      <4>1. PICK k \in Nat : k = started + 1
        BY <3>1
      <4>2. k \in 0 .. Slots + 3 /\ 0 .. started - 1 \subseteq 0 .. k - 1
        BY <3>1, <4>1
      <4> QED BY <3>1, <4>1, <4>2
    <3> QED BY <3>2, <3>3 DEF JobType
  <2>2. InputType' /\ ChannelType' /\ GopsType'
    BY DEF IInv, TypeOK, StartJob, InputType, ChannelType, GopsType, splitter, dispatch, pool, reassembler
  <2> QED BY <2>1, <2>2 DEF TypeOK, InputType, ChannelType, GopsType, JobType
<1>2. SplitInv' /\ EndInv' /\ ReadInv' /\ WorkerInv'
  <2>1. SplitInv' /\ EndInv'
    BY DEF IInv, SplitInv, EndInv, StartJob, splitter, dispatch, pool
  <2>2. ReadInv' /\ WorkerInv'
    BY DEF IInv, ReadInv, WorkerInv, StartJob, dispatch, pool, reassembler
  <2> QED BY <2>1, <2>2
<1>3. PipeInv'
  <2>1. Starts \subseteq Starts'
    BY DEF Starts, StartJob, splitter
  <2> QED BY <2>1, PipeStays DEF StartJob, splitter, dispatch, pool, reassembler
<1> QED BY <1>1, <1>2, <1>3 DEF IInv

\* The end of the splitter: it has taken all and cut all off.
LEMMA EndSplitterInv == ASSUME IInv, EndSplitter PROVE IInv'
<1>1. TypeOK'
  <2>1. JobType'
    BY EndsType DEF IInv, EndSplitter, InputOver, Splitter
  <2>2. InputType' /\ ChannelType' /\ GopsType'
    BY DEF IInv, TypeOK, EndSplitter, InputType, ChannelType, GopsType, splitter, dispatch, pool, reassembler
  <2> QED BY <2>1, <2>2 DEF TypeOK, InputType, ChannelType, GopsType, JobType
<1>2. SplitInv' /\ EndInv' /\ ReadInv' /\ WorkerInv'
  <2>1. SplitInv'
    BY DEF IInv, SplitInv, EndSplitter, splitter
  <2>2. EndInv'
    <3>1. /\ closed /\ taken = sent /\ cut = taken /\ held = <<>> /\ ended' = ended \cup {Splitter}
          /\ UNCHANGED <<closed, taken, sent, cut, held, subgops, gops, needs>>
      BY DEF EndSplitter, InputOver, Ends, splitter, dispatch, pool
    <3>2. Dispatcher # Splitter
      BY DEF Splitter, Dispatcher
    <3> QED BY <3>1, <3>2 DEF IInv, EndInv
  <2>3. ReadInv' /\ WorkerInv'
    BY DEF IInv, ReadInv, WorkerInv, EndSplitter, dispatch, pool, reassembler
  <2> QED BY <2>1, <2>2, <2>3
<1>3. PipeInv'
  <2>1. Starts \subseteq Starts'
    BY DEF Starts, EndSplitter, splitter
  <2> QED BY <2>1, PipeStays DEF EndSplitter, splitter, dispatch, pool, reassembler
<1> QED BY <1>1, <1>2, <1>3 DEF IInv

\* The end of the reassembler, which no invariant speaks of.
LEMMA EndReassemblerInv == ASSUME IInv, EndReassembler PROVE IInv'
<1>1. TypeOK'
  <2>1. JobType'
    BY EndsType DEF IInv, EndReassembler, Closing, Reassembler
  <2>2. InputType' /\ ChannelType' /\ GopsType'
    BY DEF IInv, TypeOK, EndReassembler, InputType, ChannelType, GopsType, splitter, dispatch, pool, reassembler
  <2> QED BY <2>1, <2>2 DEF TypeOK, InputType, ChannelType, GopsType, JobType
<1>2. SplitInv' /\ EndInv' /\ ReadInv' /\ WorkerInv'
  <2>1. SplitInv'
    BY DEF IInv, SplitInv, EndReassembler, splitter
  <2>2. EndInv'
    BY DEF IInv, EndInv, EndReassembler, Ends, Splitter, Dispatcher, Reassembler, splitter, dispatch, pool
  <2>3. ReadInv' /\ WorkerInv'
    BY DEF IInv, ReadInv, WorkerInv, EndReassembler, dispatch, pool, reassembler
  <2> QED BY <2>1, <2>2, <2>3
<1>3. PipeInv'
  <2>1. Starts \subseteq Starts'
    BY DEF Starts, EndReassembler, splitter
  <2> QED BY <2>1, PipeStays DEF EndReassembler, splitter, dispatch, pool, reassembler
<1> QED BY <1>1, <1>2, <1>3 DEF IInv

\* Nothing happens.
LEMMA StutterInv == ASSUME IInv, UNCHANGED vars PROVE IInv'
<1>1. TypeOK'
  BY DEF IInv, TypeOK, vars, splitter, dispatch, pool, reassembler, jobs
<1>2. SplitInv' /\ EndInv' /\ ReadInv' /\ WorkerInv'
  <2>1. SplitInv' /\ EndInv'
    BY DEF IInv, SplitInv, EndInv, vars, splitter, dispatch, pool, jobs
  <2>2. ReadInv' /\ WorkerInv'
    BY DEF IInv, ReadInv, WorkerInv, vars, dispatch, pool, reassembler
  <2> QED BY <2>1, <2>2
<1>3. PipeInv'
  <2>1. Starts \subseteq Starts'
    BY DEF Starts, vars, splitter
  <2> QED BY <2>1, PipeStays DEF vars, splitter, dispatch, pool, reassembler
<1> QED BY <1>1, <1>2, <1>3 DEF IInv

\* The splitter hands over what it holds.
LEMMA SendSubGopInv == ASSUME IInv, SendSubGop PROVE IInv'
<1>1. /\ held # <<>> /\ Len(subgops) < SubGopsLen /\ subgops' = subgops \o held /\ held' = <<>>
      /\ UNCHANGED <<sent, closed, taken, cut, scanned, processed, scenes, dispatch, pool>>
      /\ UNCHANGED <<reassembler, jobs>>
  BY DEF SendSubGop
<1>2. held \in Seq(SubGops) /\ Len(held) <= 1 /\ subgops \in Seq(SubGops) /\ cut \in Nat
  BY DEF IInv, TypeOK
<1>3. subgops' \in Seq(SubGops) /\ Len(subgops') = Len(subgops) + Len(held)
  BY <1>1, <1>2, ConcatProperties
<1>4. TypeOK'
  <2>1. Len(subgops') <= SubGopsLen
    BY <1>1, <1>2, <1>3, LenProperties
  <2>2. held' \in Seq(SubGops) /\ Len(held') <= 1
    BY <1>1, EmptySeq
  <2>3. InputType' /\ ChannelType'
    BY <1>1, <1>3, <2>1, <2>2 DEF IInv, TypeOK, InputType, ChannelType, dispatch
  <2>4. GopsType' /\ JobType'
    BY <1>1 DEF IInv, TypeOK, GopsType, JobType, dispatch, pool, reassembler, jobs
  <2> QED BY <2>3, <2>4 DEF TypeOK, InputType, ChannelType, GopsType, JobType
<1>5. SplitInv' /\ EndInv'
  <2>1. SplitInv'
    BY <1>1 DEF IInv, SplitInv
  <2>2. Splitter \notin ended /\ Dispatcher \notin ended
    BY <1>1 DEF IInv, EndInv
  <2> QED BY <1>1, <2>1, <2>2 DEF IInv, EndInv, dispatch, pool, jobs
<1>6. ReadInv' /\ WorkerInv'
  BY <1>1 DEF IInv, ReadInv, WorkerInv, dispatch, pool, reassembler
<1>7. PipeInv'
  <2>1. Starts \subseteq Starts' /\ scenes' \subseteq Int
    BY <1>1 DEF Starts, IInv, TypeOK, Frames
  <2>2. subgops' \o held' = subgops \o held
    BY <1>1, <1>2, <1>3, ConcatEmptySeq
  <2>3. ASSUME NEW a \in 0 .. cut, Chain(subgops \o held, a, cut, scenes, Starts)
        PROVE  Chain(subgops \o held, a, cut, scenes, Starts')
    <3>1. subgops \o held \in Seq(SubGops) /\ a \in Nat /\ scenes \subseteq Int
      BY <1>1, <1>3, <2>1
    <3> QED BY <2>1, <2>3, <3>1, <1>2, ChainMono
  <2>4. gops' = gops /\ last' = last /\ out' = out /\ needs' = needs /\ cut' = cut /\ scenes' = scenes
    BY <1>1 DEF dispatch, pool, reassembler
  <2> QED BY <2>1, <2>2, <2>3, <2>4, <1>2, PipeGrows
<1> QED BY <1>4, <1>5, <1>6, <1>7 DEF IInv

-----------------------------------------------------------------------------
(* The channels of the workers *)

\* The first of the free workers is nowhere else.
LEMMA IdleTail ==
  ASSUME IInv, idle # <<>>
  PROVE  /\ Head(idle) \in Workers /\ workload[Head(idle)] = <<>> /\ work[Head(idle)] = 0
         /\ Tail(idle) \in Seq(Workers) /\ Len(Tail(idle)) <= Slots
         /\ \A i \in DOMAIN Tail(idle) :
              /\ Tail(idle)[i] \in Workers /\ Tail(idle)[i] # Head(idle)
              /\ workload[Tail(idle)[i]] = <<>> /\ work[Tail(idle)[i]] = 0
         /\ \A i, j \in DOMAIN Tail(idle) : Tail(idle)[i] = Tail(idle)[j] => i = j
<1>1. idle \in Seq(Workers) /\ Len(idle) <= Slots
  BY DEF IInv, TypeOK
<1>2. /\ Head(idle) \in Workers /\ Tail(idle) \in Seq(Workers) /\ Len(Tail(idle)) = Len(idle) - 1
      /\ \A i \in 1 .. Len(Tail(idle)) : Tail(idle)[i] = idle[i + 1]
      /\ Head(idle) = idle[1]
  BY <1>1, HeadTailProperties
<1>3. /\ Len(idle) \in Nat \ {0} /\ DOMAIN idle = 1 .. Len(idle)
      /\ DOMAIN Tail(idle) = 1 .. Len(Tail(idle))
  BY <1>1, <1>2, LenProperties, EmptySeq
<1>4. /\ \A i, j \in DOMAIN idle : idle[i] = idle[j] => i = j
      /\ \A i \in DOMAIN idle : workload[idle[i]] = <<>> /\ work[idle[i]] = 0
  BY DEF IInv, WorkerInv
<1>5. ASSUME NEW i \in DOMAIN Tail(idle)
      PROVE  /\ Tail(idle)[i] \in Workers /\ Tail(idle)[i] # Head(idle)
             /\ workload[Tail(idle)[i]] = <<>> /\ work[Tail(idle)[i]] = 0
  <2>1. i + 1 \in DOMAIN idle /\ 1 \in DOMAIN idle /\ i + 1 # 1 /\ Tail(idle)[i] = idle[i + 1]
    BY <1>2, <1>3
  <2>2. idle[i + 1] \in Workers
    BY <2>1, <1>1, <1>3, ElementOfSeq
  <2> QED BY <2>1, <2>2, <1>2, <1>4
<1>6. ASSUME NEW i \in DOMAIN Tail(idle), NEW j \in DOMAIN Tail(idle), Tail(idle)[i] = Tail(idle)[j]
      PROVE  i = j
  <2>1. i + 1 \in DOMAIN idle /\ j + 1 \in DOMAIN idle /\ idle[i + 1] = idle[j + 1]
    BY <1>2, <1>3, <1>6
  <2>2. i + 1 = j + 1
    BY <2>1, <1>4
  <2> QED BY <2>2, <1>3
<1>7. workload[Head(idle)] = <<>> /\ work[Head(idle)] = 0
  BY <1>2, <1>3, <1>4
<1>8. Len(Tail(idle)) <= Slots
  BY <1>1, <1>2, <1>3
<1> QED BY <1>2, <1>5, <1>6, <1>7, <1>8

\* A worker that is free gets a workload.
LEMMA WorkTo ==
  ASSUME NEW S, NEW T, S \subseteq T, workload \in [Workers -> Seq(S)],
         NEW w \in Workers, workload[w] = <<>>, NEW x \in T,
         workload' = [workload EXCEPT ![w] = Append(@, x)]
  PROVE  /\ workload' \in [Workers -> Seq(T)] /\ Len(workload'[w]) = 1 /\ workload'[w] = <<x>>
         /\ \A v \in Workers : v # w => workload'[v] = workload[v]
<1>1. \A v \in Workers : workload[v] \in Seq(T)
  BY SeqMonotonic
<1>2. Append(<<>>, x) = <<x>> /\ <<x>> \in Seq(T) /\ Len(<<x>>) = 1
  BY EmptySeq, AppendProperties
<1>3. workload'[w] = <<x>> /\ \A v \in Workers : v # w => workload'[v] = workload[v]
  BY <1>2
<1>4. workload' \in [Workers -> Seq(T)]
  BY <1>1, <1>2
<1> QED BY <1>2, <1>3, <1>4

\* A free worker is told to end.
LEMMA CloseWorkerInv == ASSUME IInv, CloseWorker PROVE IInv'
<1> DEFINE h == Head(idle)
<1>1. /\ idle # <<>> /\ idle' = Tail(idle) /\ workload' = [workload EXCEPT ![h] = Append(@, 0)]
      /\ UNCHANGED <<sent, closed, splitter, subgops, needs, announced, gops, work, reassembler, jobs>>
  BY DEF CloseWorker
<1>2. /\ h \in Workers /\ workload[h] = <<>> /\ work[h] = 0
      /\ Tail(idle) \in Seq(Workers) /\ Len(Tail(idle)) <= Slots
      /\ \A i \in DOMAIN Tail(idle) :
           /\ Tail(idle)[i] \in Workers /\ Tail(idle)[i] # h
           /\ workload[Tail(idle)[i]] = <<>> /\ work[Tail(idle)[i]] = 0
      /\ \A i, j \in DOMAIN Tail(idle) : Tail(idle)[i] = Tail(idle)[j] => i = j
  BY <1>1, IdleTail
<1>3. /\ workload' \in [Workers -> Seq({0} \cup DOMAIN gops)] /\ Len(workload'[h]) = 1
      /\ \A v \in Workers : v # h => workload'[v] = workload[v]
  <2> DEFINE S == {0} \cup DOMAIN gops
  <2>1. workload \in [Workers -> Seq(S)] /\ 0 \in S /\ S \subseteq S
    BY DEF IInv, TypeOK
  <2> HIDE DEF S, h
  <2>2. workload' \in [Workers -> Seq(S)] /\ Len(workload'[h]) = 1
        /\ \A v \in Workers : v # h => workload'[v] = workload[v]
    BY <2>1, <1>1, <1>2, WorkTo
  <2> QED BY <2>2 DEF S
<1>4. TypeOK'
  <2>1. InputType' /\ JobType'
    BY <1>1 DEF IInv, TypeOK, InputType, JobType, splitter, jobs
  <2>2. ChannelType'
    BY <1>1, <1>2 DEF IInv, TypeOK, ChannelType
  <2>3. GopsType'
    BY <1>1, <1>3 DEF IInv, TypeOK, GopsType, reassembler
  <2> QED BY <2>1, <2>2, <2>3 DEF TypeOK, InputType, ChannelType, GopsType, JobType
<1>5. SplitInv' /\ EndInv' /\ ReadInv'
  <2>1. SplitInv' /\ EndInv'
    BY <1>1 DEF IInv, SplitInv, EndInv, splitter, jobs
  <2>2. ReadInv'
    BY <1>1 DEF IInv, ReadInv, reassembler
  <2> QED BY <2>1, <2>2
<1>6. WorkerInv'
  <2>1. work' = work /\ idle' = Tail(idle)
    BY <1>1
  <2>2. \A i \in DOMAIN Tail(idle) : workload'[Tail(idle)[i]] = <<>>
    BY <1>2, <1>3
  <2>3. ASSUME NEW w \in Workers
        PROVE  Len(workload'[w]) <= 1 /\ (work[w] # 0 => workload'[w] = <<>>)
    <3>1. CASE w = h
      BY <3>1, <1>2, <1>3
    <3>2. CASE w # h
      <4>1. workload'[w] = workload[w]
        BY <3>2, <1>3
      <4> QED BY <4>1 DEF IInv, WorkerInv
    <3> QED BY <3>1, <3>2
  <2> QED BY <2>1, <2>2, <2>3, <1>2 DEF WorkerInv
<1>7. PipeInv'
  <2>1. Starts \subseteq Starts'
    BY <1>1 DEF Starts, splitter
  <2> QED BY <1>1, <2>1, PipeStays DEF splitter, reassembler
<1> QED BY <1>4, <1>5, <1>6, <1>7 DEF IInv

\* A worker learns of a GOP to code, or that it is to end.
LEMMA TakeWorkloadInv == ASSUME IInv, NEW w \in Workers, TakeWorkload(w) PROVE IInv'
<1>1. /\ Running(w) /\ work[w] = 0 /\ workload[w] # <<>>
      /\ workload' = [workload EXCEPT ![w] = Tail(@)]
      /\ \/ Ends(w) /\ work' = work
         \/ work' = [work EXCEPT ![w] = Head(workload[w])] /\ UNCHANGED jobs
      /\ UNCHANGED <<sent, closed, splitter, subgops, dispatch, gops, reassembler>>
  BY DEF TakeWorkload
<1> DEFINE S == {0} \cup DOMAIN gops
<1>2. workload \in [Workers -> Seq(S)] /\ work \in [Workers -> S] /\ workload[w] \in Seq(S)
  BY DEF IInv, TypeOK
<1>3. Len(workload[w]) <= 1 /\ idle \in Seq(Workers)
  BY DEF IInv, WorkerInv, TypeOK
<1>4. Head(workload[w]) \in S /\ Tail(workload[w]) \in Seq(S) /\ Tail(workload[w]) = <<>>
  <2>1. /\ Head(workload[w]) \in S /\ Tail(workload[w]) \in Seq(S)
        /\ Len(Tail(workload[w])) = Len(workload[w]) - 1 /\ Len(workload[w]) \in Nat \ {0}
    BY <1>1, <1>2, HeadTailProperties, EmptySeq
  <2>2. Len(Tail(workload[w])) = 0
    <3> DEFINE k == Len(workload[w])
    <3>1. k \in Nat \ {0} /\ k <= 1
      BY <2>1, <1>3
    <3> HIDE DEF k
    <3>2. k = 1
      BY <3>1
    <3>3. Len(workload[w]) = 1
      BY <3>2 DEF k
    <3> QED BY <2>1, <3>3
  <2> QED BY <2>1, <2>2, EmptySeq
<1> HIDE DEF S
<1>5. /\ workload' \in [Workers -> Seq(S)] /\ work' \in [Workers -> S] /\ workload'[w] = <<>>
      /\ \A v \in Workers : v # w => workload'[v] = workload[v] /\ work'[v] = work[v]
  BY <1>1, <1>2, <1>4
<1>6. TypeOK'
  <2>1. InputType' /\ ChannelType'
    BY <1>1 DEF IInv, TypeOK, InputType, ChannelType, splitter, dispatch
  <2>2. JobType'
    <3>1. CASE Ends(w)
      BY <3>1, <1>1, EndsType DEF IInv, Workers
    <3>2. CASE UNCHANGED jobs
      BY <3>2 DEF IInv, TypeOK, JobType, jobs
    <3> QED BY <3>1, <3>2, <1>1
  <2>3. GopsType'
    BY <1>1, <1>5 DEF S, IInv, TypeOK, GopsType, dispatch, reassembler
  <2> QED BY <2>1, <2>2, <2>3 DEF TypeOK, InputType, ChannelType, GopsType, JobType
<1>7. SplitInv' /\ EndInv' /\ ReadInv'
  <2>1. SplitInv' /\ ReadInv'
    BY <1>1 DEF IInv, SplitInv, ReadInv, splitter, dispatch, reassembler
  <2>2. (Splitter \in ended' <=> Splitter \in ended) /\ (Dispatcher \in ended' <=> Dispatcher \in ended)
    BY <1>1 DEF Ends, Splitter, Dispatcher, Workers, jobs
  <2>3. EndInv'
    BY <1>1, <2>2 DEF IInv, EndInv, splitter, dispatch
  <2> QED BY <2>1, <2>3
<1>8. WorkerInv'
  <2>1. \A i \in DOMAIN idle : idle[i] \in Workers /\ idle[i] # w
    <3>1. \A i \in DOMAIN idle : workload[idle[i]] = <<>>
      BY DEF IInv, WorkerInv
    <3> QED BY <3>1, <1>1, <1>3, LenProperties, ElementOfSeq
  <2>2. idle' = idle
    BY <1>1 DEF dispatch
  <2>3. \A i \in DOMAIN idle : workload'[idle[i]] = <<>> /\ work'[idle[i]] = 0
    BY <2>1, <1>5 DEF IInv, WorkerInv
  <2>4. \A v \in Workers : Len(workload'[v]) <= 1 /\ (work'[v] # 0 => workload'[v] = <<>>)
    BY <1>5, EmptySeq DEF IInv, WorkerInv
  <2> QED BY <2>2, <2>3, <2>4 DEF IInv, WorkerInv
<1>9. PipeInv'
  <2>1. Starts \subseteq Starts'
    BY <1>1 DEF Starts, splitter
  <2> QED BY <1>1, <2>1, PipeStays DEF splitter, dispatch, reassembler
<1> QED BY <1>6, <1>7, <1>8, <1>9 DEF IInv

\* The reassembler learns of a GOP: the next one that it did not know of.
LEMMA TakeAnnouncedInv == ASSUME IInv, TakeAnnounced PROVE IInv'
<1>1. /\ last \notin pending /\ announced # <<>>
      /\ announced' = Tail(announced) /\ pending' = pending \cup {Head(announced)}
      /\ UNCHANGED <<sent, closed, splitter, subgops, needs, idle, pool, last, out, jobs>>
  BY DEF TakeAnnounced
<1> DEFINE n == Len(gops) m == Len(announced) S == DOMAIN gops
<1>2. /\ announced \in Seq(S) /\ n \in Nat /\ S = 1 .. n /\ last \in 1 .. n + 1
      /\ pending = last .. n - m /\ last + m <= n + 1
      /\ \A i \in DOMAIN announced : announced[i] = n - m + i
  BY GopsAre DEF IInv, TypeOK, ReadInv
<1> HIDE DEF S
<1>3. /\ Head(announced) \in S /\ Head(announced) = announced[1]
      /\ Tail(announced) \in Seq(S) /\ Len(Tail(announced)) = m - 1
      /\ \A i \in 1 .. Len(Tail(announced)) : Tail(announced)[i] = announced[i + 1]
      /\ m \in Nat \ {0} /\ DOMAIN announced = 1 .. m /\ DOMAIN Tail(announced) = 1 .. m - 1
  BY <1>1, <1>2, HeadTailProperties, LenProperties, EmptySeq
<1>4. Head(announced) = n - m + 1
  BY <1>2, <1>3
<1>5. last = n - m + 1 /\ pending' = {n - m + 1}
  <2>1. ~(last <= n - m)
    BY <1>1, <1>2, <1>3
  <2>2. last = n - m + 1
    BY <2>1, <1>2, <1>3
  <2>3. pending = {}
    BY <2>2, <1>2, <1>3
  <2> QED BY <2>2, <2>3, <1>1, <1>4
<1>6. TypeOK'
  <2>1. InputType' /\ ChannelType' /\ JobType'
    BY <1>1 DEF IInv, TypeOK, InputType, ChannelType, JobType, splitter, jobs
  <2>2. GopsType'
    BY <1>1, <1>3 DEF S, IInv, TypeOK, GopsType, pool
  <2> QED BY <2>1, <2>2 DEF TypeOK, InputType, ChannelType, GopsType, JobType
<1>7. SplitInv' /\ EndInv' /\ WorkerInv'
  BY <1>1 DEF IInv, SplitInv, EndInv, WorkerInv, splitter, jobs, pool
<1>8. ReadInv'
  <2>1. gops' = gops /\ last' = last /\ Len(announced') = m - 1
    BY <1>1, <1>3 DEF pool
  <2>2. last + (m - 1) <= n + 1 /\ pending' = last .. n - (m - 1)
    BY <1>2, <1>3, <1>5
  <2>3. ASSUME NEW i \in DOMAIN announced' PROVE announced'[i] = n - (m - 1) + i
    <3>1. i \in 1 .. m - 1 /\ announced'[i] = announced[i + 1] /\ i + 1 \in 1 .. m
      BY <1>1, <1>3
    <3>2. announced[i + 1] = n - m + (i + 1)
      BY <3>1, <1>2, <1>3
    <3> QED BY <3>1, <3>2, <1>2, <1>3
  <2> QED BY <2>1, <2>2, <2>3 DEF IInv, ReadInv
<1>9. PipeInv'
  <2>1. Starts \subseteq Starts'
    BY <1>1 DEF Starts, splitter
  <2> QED BY <1>1, <2>1, PipeStays DEF splitter, pool
<1> QED BY <1>6, <1>7, <1>8, <1>9 DEF IInv

-----------------------------------------------------------------------------
(* Steps that change one GOP *)

\* The GOPs, when a step changes one of them.
LEMMA GopsUpdate ==
  ASSUME TypeOK, NEW g \in 1 .. Len(gops), NEW r \in Gops, gops' = [gops EXCEPT ![g] = r]
  PROVE  /\ gops' \in Seq(Gops) /\ Len(gops') = Len(gops) /\ DOMAIN gops' = DOMAIN gops
         /\ gops'[g] = r /\ \A h \in 1 .. Len(gops) : h # g => gops'[h] = gops[h]
<1>1. gops \in Seq(Gops)
  BY DEF TypeOK
<1>2. /\ gops' \in Seq(Gops) /\ Len(gops') = Len(gops)
      /\ \A h \in 1 .. Len(gops) : gops'[h] = IF h = g THEN r ELSE gops[h]
  BY <1>1, ExceptSeq
<1> QED BY <1>1, <1>2, LenProperties

\* The rest of the types, when a step changes one GOP.
LEMMA GopsUpdateType ==
  ASSUME TypeOK, NEW g \in 1 .. Len(gops), NEW r \in Gops, gops' = [gops EXCEPT ![g] = r],
         r.made \in r.read .. Len(r.frames), UNCHANGED <<announced, workload, pending, last>>,
         work' \in [Workers -> {0} \cup DOMAIN gops], out' \in Seq(Frames)
  PROVE  GopsType'
<1>1. /\ gops' \in Seq(Gops) /\ Len(gops') = Len(gops) /\ DOMAIN gops' = DOMAIN gops
      /\ gops'[g] = r /\ \A h \in 1 .. Len(gops) : h # g => gops'[h] = gops[h]
  BY GopsUpdate
<1>2. DOMAIN gops = 1 .. Len(gops)
  BY GopsAre
<1>3. \A h \in DOMAIN gops' : gops'[h].made \in gops'[h].read .. Len(gops'[h].frames)
  BY <1>1, <1>2 DEF TypeOK
<1> QED BY <1>1, <1>3 DEF TypeOK, GopsType

\* What the reassembler knows, when a step changes one GOP.
LEMMA GopsUpdateRead ==
  ASSUME IInv, NEW g \in 1 .. Len(gops), NEW r \in Gops, gops' = [gops EXCEPT ![g] = r],
         UNCHANGED <<announced, pending, last>>,
         g < last => r.done /\ r.read = Len(r.frames),
         g > last => r.read = 0,
         r.done => ~r.open /\ r.subs = <<>> /\ r.made = Len(r.frames)
  PROVE  ReadInv'
<1>1. /\ gops' \in Seq(Gops) /\ Len(gops') = Len(gops) /\ DOMAIN gops' = DOMAIN gops
      /\ gops'[g] = r /\ \A h \in 1 .. Len(gops) : h # g => gops'[h] = gops[h]
  BY GopsUpdate DEF IInv
<1>2. DOMAIN gops = 1 .. Len(gops)
  BY GopsAre DEF IInv
<1>3. ASSUME NEW h \in DOMAIN gops'
      PROVE  /\ h < last => gops'[h].done /\ gops'[h].read = Len(gops'[h].frames)
             /\ h > last => gops'[h].read = 0
             /\ gops'[h].done => ~gops'[h].open /\ gops'[h].subs = <<>> /\ gops'[h].made = Len(gops'[h].frames)
  <2>1. CASE h = g
    BY <2>1, <1>1
  <2>2. CASE h # g
    <3>1. gops'[h] = gops[h] /\ h \in DOMAIN gops
      BY <2>2, <1>1, <1>2
    <3> QED BY <3>1 DEF IInv, ReadInv
  <2> QED BY <2>1, <2>2
<1> QED BY <1>1, <1>3 DEF IInv, ReadInv

\* The bounds of the GOPs stay when a step changes one of them within its own.
LEMMA PipeGop ==
  ASSUME IInv, NEW s \in [1 .. Len(gops) + 1 -> 0 .. cut], Bounds(s),
         NEW g \in 1 .. Len(gops), NEW r \in Gops, gops' = [gops EXCEPT ![g] = r],
         UNCHANGED <<sent, closed, taken, cut, scenes, subgops, held, needs>>,
         GopInv(s, g)', OutInv(s)'
  PROVE  PipeInv'
<1>1. Len(gops') = Len(gops) /\ \A h \in 1 .. Len(gops) : h # g => gops'[h] = gops[h]
  BY GopsUpdate DEF IInv
<1>2. Starts' = Starts
  BY DEF Starts
<1>3. ASSUME NEW h \in 1 .. Len(gops) PROVE GopInv(s, h)'
  <2>1. CASE h # g
    <3>1. gops'[h] = gops[h] /\ GopInv(s, h)
      BY <2>1, <1>1 DEF Bounds
    <3> QED BY <3>1, <1>2 DEF GopInv
  <2> QED BY <2>1
<1>4. EdgeInv(s, Len(gops))'
  BY <1>1, <1>2 DEF Bounds, EdgeInv
<1>5. Bounds(s)'
  BY <1>1, <1>2, <1>3, <1>4 DEF Bounds
<1>6. s \in [1 .. Len(gops') + 1 -> 0 .. cut']
  BY <1>1
<1> QED BY <1>5, <1>6 DEF PipeInv

\* Nothing happens to the bounds when the frames, the sub-GOPs and the packets
\* that are read stay.
LEMMA PipeSame ==
  ASSUME IInv, NEW g \in 1 .. Len(gops), NEW r \in Gops, gops' = [gops EXCEPT ![g] = r],
         r.frames = gops[g].frames, r.subs = gops[g].subs, r.read = gops[g].read,
         UNCHANGED <<sent, closed, taken, cut, scenes, subgops, held, needs, last, out>>
  PROVE  PipeInv'
<1>1. PICK s \in [1 .. Len(gops) + 1 -> 0 .. cut] : Bounds(s)
  BY DEF IInv, PipeInv
<1>2. /\ gops'[g] = r /\ DOMAIN gops' = DOMAIN gops
      /\ \A h \in 1 .. Len(gops) : h # g => gops'[h] = gops[h]
  BY GopsUpdate DEF IInv
<1>3. Starts' = Starts
  BY DEF Starts
<1>4. GopInv(s, g)'
  BY <1>1, <1>2, <1>3 DEF Bounds, GopInv
<1>5. OutInv(s)'
  <2>1. last \in DOMAIN gops => gops'[last].read = gops[last].read
    BY <1>2, GopsAre DEF IInv
  <2> QED BY <1>1, <1>2, <2>1 DEF Bounds, OutInv
<1> QED BY <1>1, <1>4, <1>5, PipeGop

\* The GOP that a worker codes.
LEMMA WorkIs ==
  ASSUME IInv, NEW w \in Workers, work[w] # 0
  PROVE  work[w] \in 1 .. Len(gops) /\ workload[w] = <<>>
<1>1. work[w] \in {0} \cup DOMAIN gops
  BY DEF IInv, TypeOK
<1> QED BY <1>1, GopsAre DEF IInv, WorkerInv

\* The encoder gives a packet.
LEMMA EncodePacketInv == ASSUME IInv, NEW w \in Workers, EncodePacket(w) PROVE IInv'
<1> DEFINE g == work[w] r == [gops[g] EXCEPT !.made = @ + 1]
<1>1. /\ g # 0 /\ gops[g].made < Len(gops[g].frames) /\ gops' = [gops EXCEPT ![g].made = @ + 1]
      /\ UNCHANGED <<sent, closed, splitter, subgops, dispatch, workload, work, reassembler, jobs>>
  BY DEF EncodePacket
<1>2. g \in 1 .. Len(gops) /\ TypeOK
  BY <1>1, WorkIs DEF IInv
<1> HIDE DEF g
<1>3. /\ gops[g] \in Gops /\ gops[g].made \in Nat /\ gops[g].read \in Nat
      /\ gops[g].read <= gops[g].made /\ Len(gops[g].frames) \in Nat
  BY <1>2, GopsAre
<1>4. /\ r \in Gops /\ r.frames = gops[g].frames /\ r.subs = gops[g].subs /\ r.open = gops[g].open
      /\ r.made = gops[g].made + 1 /\ r.read = gops[g].read /\ r.done = gops[g].done
  <2>1. gops[g].made + 1 \in Nat
    BY <1>3
  <2>2. r \in Gops
    BY <1>3, <2>1 DEF Gops
  <2> QED BY <1>3, <2>2 DEF Gops
<1>5. gops' = [gops EXCEPT ![g] = r]
  BY <1>1
<1> HIDE DEF r
<1>6. TypeOK'
  <2>1. InputType' /\ ChannelType' /\ JobType'
    BY <1>1 DEF IInv, TypeOK, InputType, ChannelType, JobType, splitter, dispatch, jobs
  <2>2. GopsType'
    <3>1. r.made \in r.read .. Len(r.frames)
      BY <1>1, <1>3, <1>4
    <3>2. /\ UNCHANGED <<announced, workload, pending, last>>
          /\ work' \in [Workers -> {0} \cup DOMAIN gops] /\ out' \in Seq(Frames)
      BY <1>1 DEF IInv, TypeOK, dispatch, reassembler
    <3> QED BY <3>1, <3>2, <1>2, <1>4, <1>5, GopsUpdateType
  <2> QED BY <2>1, <2>2 DEF TypeOK, InputType, ChannelType, GopsType, JobType
<1>7. /\ Len(gops') = Len(gops) /\ gops'[g] = r /\ DOMAIN gops' = DOMAIN gops
      /\ \A h \in 1 .. Len(gops) : h # g => gops'[h] = gops[h]
  BY <1>2, <1>4, <1>5, GopsUpdate
<1>8. SplitInv' /\ WorkerInv'
  BY <1>1 DEF IInv, SplitInv, WorkerInv, splitter, dispatch
<1>9. EndInv'
  <2>1. gops # <<>> /\ gops' # <<>>
    BY <1>2, <1>7, EmptySeq
  <2>2. gops'[Len(gops')].open = gops[Len(gops)].open
    BY <1>2, <1>4, <1>7
  <2> QED BY <2>1, <2>2, <1>1 DEF IInv, EndInv, splitter, dispatch, jobs
<1>10. ReadInv'
  <2>1. ~gops[g].done /\ ~(g < last) /\ (g > last => gops[g].read = 0)
    <3>1. DOMAIN gops = 1 .. Len(gops)
      BY <1>2, GopsAre
    <3> QED BY <3>1, <1>1, <1>2, <1>3 DEF IInv, ReadInv
  <2>2. UNCHANGED <<announced, pending, last>>
    BY <1>1 DEF dispatch, reassembler
  <2> QED BY <2>1, <2>2, <1>2, <1>4, <1>5, GopsUpdateRead
<1>11. PipeInv'
  <2>1. UNCHANGED <<sent, closed, taken, cut, scenes, subgops, held, needs, last, out>>
    BY <1>1 DEF splitter, dispatch, reassembler
  <2> QED BY <2>1, <1>2, <1>4, <1>5, PipeSame
<1> QED BY <1>6, <1>8, <1>9, <1>10, <1>11 DEF IInv

\* Free workers are not more than workers.
LEMMA IdleFits ==
  ASSUME NEW q \in Seq(Workers), \A i, j \in DOMAIN q : q[i] = q[j] => i = j
  PROVE  Len(q) <= Slots
<1>1. Len(q) \in Nat /\ DOMAIN q = 1 .. Len(q) /\ q \in [1 .. Len(q) -> Workers]
  BY LenProperties
<1>2. q \in Injection(1 .. Len(q), Workers)
  BY <1>1 DEF Injection, IsInjective
<1>3. IsFiniteSet(Workers) /\ Cardinality(Workers) = Slots
  BY FS_Interval DEF Workers
<1>4. Cardinality(1 .. Len(q)) = Len(q)
  <2> DEFINE n == Len(q)
  <2>1. n \in Nat
    BY <1>1
  <2> HIDE DEF n
  <2>2. Cardinality(1 .. n) = IF 1 > n THEN 0 ELSE n - 1 + 1
    BY <2>1, FS_Interval
  <2>3. Cardinality(1 .. n) = n
    BY <2>1, <2>2
  <2> QED BY <2>3 DEF n
<1>5. Cardinality(1 .. Len(q)) <= Cardinality(Workers)
  BY <1>2, <1>3, FS_Injection
<1> QED BY <1>3, <1>4, <1>5

\* A worker is through with its GOP.
LEMMA EndGopInv == ASSUME IInv, NEW w \in Workers, EndGop(w) PROVE IInv'
<1> DEFINE g == work[w] r == [gops[g] EXCEPT !.done = TRUE]
<1>1. /\ g # 0 /\ ~gops[g].open /\ gops[g].subs = <<>> /\ gops[g].made = Len(gops[g].frames)
      /\ gops' = [gops EXCEPT ![g].done = TRUE]
      /\ idle' = Append(idle, w) /\ work' = [work EXCEPT ![w] = 0]
      /\ UNCHANGED <<sent, closed, splitter, subgops, needs, announced, workload, reassembler, jobs>>
  BY DEF EndGop, Flushing
<1>2. g \in 1 .. Len(gops) /\ TypeOK /\ workload[w] = <<>>
  BY <1>1, WorkIs DEF IInv
<1>0. /\ \A i \in DOMAIN idle : idle[i] # w
      /\ idle \in Seq(Workers) /\ work \in [Workers -> {0} \cup DOMAIN gops]
  BY <1>1 DEF IInv, WorkerInv, TypeOK
<1>a. work'[w] = 0 /\ \A v \in Workers : v # w => work'[v] = work[v]
  BY <1>0, <1>1
<1>b. work' \in [Workers -> {0} \cup DOMAIN gops]
  BY <1>0, <1>1
<1> HIDE DEF g
<1>3. /\ gops[g] \in Gops /\ gops[g].made \in Nat /\ gops[g].read \in Nat
      /\ gops[g].read <= gops[g].made /\ Len(gops[g].frames) \in Nat
  BY <1>2, GopsAre
<1>4. /\ r \in Gops /\ r.frames = gops[g].frames /\ r.subs = gops[g].subs /\ r.open = gops[g].open
      /\ r.made = gops[g].made /\ r.read = gops[g].read /\ r.done = TRUE
  BY <1>3 DEF Gops
<1>5. gops' = [gops EXCEPT ![g] = r]
  BY <1>1
<1> HIDE DEF r
<1>c. /\ idle' \in Seq(Workers) /\ DOMAIN idle' = 1 .. Len(idle) + 1 /\ DOMAIN idle = 1 .. Len(idle)
      /\ Len(idle) \in Nat
      /\ idle'[Len(idle) + 1] = w /\ \A i \in 1 .. Len(idle) : idle'[i] = idle[i]
  BY <1>0, <1>1, AppendProperties, LenProperties
<1>d. ASSUME NEW i \in DOMAIN idle', NEW j \in DOMAIN idle', idle'[i] = idle'[j]
      PROVE  i = j
  <2>1. \A k \in DOMAIN idle' : k # Len(idle) + 1 => k \in DOMAIN idle /\ idle'[k] = idle[k] /\ idle'[k] # w
    BY <1>0, <1>c
  <2>2. \A k, l \in DOMAIN idle : idle[k] = idle[l] => k = l
    BY DEF IInv, WorkerInv
  <2> QED BY <2>1, <2>2, <1>c, <1>d
<1>6. TypeOK'
  <2>1. InputType' /\ JobType'
    BY <1>1 DEF IInv, TypeOK, InputType, JobType, splitter, jobs
  <2>3. ChannelType'
    <3>1. Len(idle') <= Slots
      BY <1>c, <1>d, IdleFits
    <3> QED BY <3>1, <1>1, <1>c DEF IInv, TypeOK, ChannelType
  <2>2. GopsType'
    <3>1. r.made \in r.read .. Len(r.frames)
      BY <1>1, <1>3, <1>4
    <3>2. UNCHANGED <<announced, workload, pending, last>> /\ out' \in Seq(Frames)
      BY <1>1 DEF IInv, TypeOK, reassembler
    <3> QED BY <3>1, <3>2, <1>b, <1>2, <1>4, <1>5, GopsUpdateType
  <2> QED BY <2>1, <2>2, <2>3 DEF TypeOK, InputType, ChannelType, GopsType, JobType
<1>7. /\ Len(gops') = Len(gops) /\ gops'[g] = r /\ DOMAIN gops' = DOMAIN gops
      /\ \A h \in 1 .. Len(gops) : h # g => gops'[h] = gops[h]
  BY <1>2, <1>4, <1>5, GopsUpdate
<1>8. SplitInv'
  BY <1>1 DEF IInv, SplitInv, splitter
<1>e. WorkerInv'
  <2>1. workload' = workload
    BY <1>1
  <2>2. \A i \in DOMAIN idle' : workload'[idle'[i]] = <<>> /\ work'[idle'[i]] = 0
    <3>1. ASSUME NEW i \in DOMAIN idle' PROVE workload[idle'[i]] = <<>> /\ work'[idle'[i]] = 0
      <4>1. CASE i = Len(idle) + 1
        BY <4>1, <1>c, <1>2, <1>a
      <4>2. CASE i # Len(idle) + 1
        <5>1. i \in DOMAIN idle /\ idle'[i] = idle[i]
          BY <4>2, <1>c
        <5>2. idle[i] \in Workers
          BY <5>1, <1>0, <1>c, ElementOfSeq
        <5>3. workload[idle[i]] = <<>> /\ work[idle[i]] = 0
          BY <5>1 DEF IInv, WorkerInv
        <5> QED BY <5>1, <5>2, <5>3, <1>0, <1>a
      <4> QED BY <4>1, <4>2
    <3> QED BY <3>1, <2>1
  <2>3. \A v \in Workers : Len(workload[v]) <= 1 /\ (work'[v] # 0 => workload[v] = <<>>)
    BY <1>a, <1>2 DEF IInv, WorkerInv
  <2> QED BY <2>1, <2>2, <2>3, <1>d DEF WorkerInv
<1>9. EndInv'
  <2>1. gops # <<>> /\ gops' # <<>>
    BY <1>2, <1>7, EmptySeq
  <2>2. gops'[Len(gops')].open = gops[Len(gops)].open
    BY <1>2, <1>4, <1>7
  <2> QED BY <2>1, <2>2, <1>1 DEF IInv, EndInv, splitter, jobs
<1>10. ReadInv'
  <2>1. /\ g < last => gops[g].read = Len(gops[g].frames)
        /\ g > last => gops[g].read = 0
    <3>1. DOMAIN gops = 1 .. Len(gops)
      BY <1>2, GopsAre
    <3> QED BY <3>1, <1>2 DEF IInv, ReadInv
  <2>2. UNCHANGED <<announced, pending, last>>
    BY <1>1 DEF reassembler
  <2>3. /\ g < last => r.done /\ r.read = Len(r.frames)
        /\ g > last => r.read = 0
        /\ ~r.open /\ r.subs = <<>> /\ r.made = Len(r.frames)
    BY <2>1, <1>1, <1>4
  <2> QED BY <2>2, <2>3, <1>2, <1>4, <1>5, GopsUpdateRead
<1>11. PipeInv'
  <2>1. UNCHANGED <<sent, closed, taken, cut, scenes, subgops, held, needs, last, out>>
    BY <1>1 DEF splitter, reassembler
  <2> QED BY <2>1, <1>2, <1>4, <1>5, PipeSame
<1> QED BY <1>6, <1>8, <1>9, <1>10, <1>11, <1>e DEF IInv

\* A worker takes a sub-GOP: its frames come behind those that it has.
LEMMA TakeSubGopInv == ASSUME IInv, NEW w \in Workers, TakeSubGop(w) PROVE IInv'
<1>0. PICK g \in 1 .. Len(gops) : g = work[w]
  BY WorkIs DEF TakeSubGop
<1> DEFINE r == [gops[g] EXCEPT !.subs = Tail(@), !.frames = @ \o Head(gops[g].subs).frames]
<1>1. /\ gops[g].subs # <<>>
      /\ gops' = [gops EXCEPT ![g].subs = Tail(@), ![g].frames = @ \o Head(gops[g].subs).frames]
      /\ UNCHANGED <<sent, closed, splitter, subgops, dispatch, workload, work, reassembler, jobs>>
  BY <1>0 DEF TakeSubGop
<1>2. g \in 1 .. Len(gops) /\ TypeOK
  BY DEF IInv
<1>3. /\ gops[g] \in Gops /\ gops[g].made \in Nat /\ gops[g].read \in Nat
      /\ gops[g].frames \in Seq(Frames) /\ gops[g].subs \in Seq(SubGops)
      /\ gops[g].read <= gops[g].made /\ Len(gops[g].frames) \in Nat
      /\ gops[g].made <= Len(gops[g].frames)
  BY <1>2, GopsAre
<1> DEFINE p == Head(gops[g].subs) l == Len(gops[g].frames)
<1>4. /\ p \in SubGops /\ p.frames \in Seq(Frames) /\ Len(p.frames) \in Nat
      /\ Tail(gops[g].subs) \in Seq(SubGops)
  <2>1. p \in SubGops /\ Tail(gops[g].subs) \in Seq(SubGops)
    BY <1>1, <1>3, HeadTailProperties
  <2>2. p.frames \in Seq(Frames)
    BY <2>1 DEF SubGops
  <2> QED BY <2>1, <2>2, LenProperties
<1>5. gops[g].frames \o p.frames \in Seq(Frames) /\ Len(gops[g].frames \o p.frames) = l + Len(p.frames)
  BY <1>3, <1>4, ConcatProperties
<1> HIDE DEF p
<1>6. /\ r \in Gops /\ r.frames = gops[g].frames \o p.frames /\ r.subs = Tail(gops[g].subs)
      /\ r.open = gops[g].open /\ r.made = gops[g].made /\ r.read = gops[g].read
      /\ r.done = gops[g].done
  BY <1>3, <1>4, <1>5 DEF Gops, p
<1>7. gops' = [gops EXCEPT ![g] = r]
  BY <1>1
<1> HIDE DEF r
<1>8. TypeOK'
  <2>1. InputType' /\ ChannelType' /\ JobType'
    BY <1>1 DEF IInv, TypeOK, InputType, ChannelType, JobType, splitter, dispatch, jobs
  <2>2. GopsType'
    <3>0. Len(r.frames) = l + Len(p.frames) /\ Len(p.frames) \in Nat
      BY <1>4, <1>5, <1>6
    <3> DEFINE k == Len(p.frames) md == gops[g].made
    <3>3. l \in Nat /\ k \in Nat /\ md \in Nat /\ md <= l /\ Len(r.frames) = l + k
      BY <3>0, <1>3
    <3> HIDE DEF k, l, md
    <3>4. md <= Len(r.frames) /\ Len(r.frames) \in Nat
      BY <3>3
    <3>5. r.read \in Nat /\ r.read <= md /\ r.made = md
      BY <1>3, <1>6 DEF md
    <3>1. r.made \in r.read .. Len(r.frames)
      BY <3>3, <3>4, <3>5
    <3>2. /\ UNCHANGED <<announced, workload, pending, last>>
          /\ work' \in [Workers -> {0} \cup DOMAIN gops] /\ out' \in Seq(Frames)
      BY <1>1 DEF IInv, TypeOK, dispatch, reassembler
    <3> QED BY <3>1, <3>2, <1>2, <1>6, <1>7, GopsUpdateType
  <2> QED BY <2>1, <2>2 DEF TypeOK, InputType, ChannelType, GopsType, JobType
<1>9. /\ Len(gops') = Len(gops) /\ gops'[g] = r /\ DOMAIN gops' = DOMAIN gops
      /\ \A h \in 1 .. Len(gops) : h # g => gops'[h] = gops[h]
  BY <1>2, <1>6, <1>7, GopsUpdate
<1>10. SplitInv' /\ WorkerInv'
  BY <1>1 DEF IInv, SplitInv, WorkerInv, splitter, dispatch
<1>11. EndInv'
  <2>1. gops # <<>> /\ gops' # <<>>
    BY <1>2, <1>9, EmptySeq
  <2>2. gops'[Len(gops')].open = gops[Len(gops)].open
    BY <1>2, <1>6, <1>9
  <2> QED BY <2>1, <2>2, <1>1 DEF IInv, EndInv, splitter, dispatch, jobs
<1>12. ReadInv'
  <2>1. ~gops[g].done /\ ~(g < last) /\ (g > last => gops[g].read = 0)
    <3>1. DOMAIN gops = 1 .. Len(gops)
      BY <1>2, GopsAre
    <3> QED BY <3>1, <1>1, <1>2, <1>3 DEF IInv, ReadInv
  <2>2. UNCHANGED <<announced, pending, last>>
    BY <1>1 DEF dispatch, reassembler
  <2> QED BY <2>1, <2>2, <1>2, <1>6, <1>7, GopsUpdateRead
<1>13. PipeInv'
  <2>1. UNCHANGED <<sent, closed, taken, cut, scenes, subgops, held, needs, last, out>> /\ cut \in Nat
    BY <1>1 DEF IInv, TypeOK, splitter, dispatch, reassembler
  <2>2. PICK s \in [1 .. Len(gops) + 1 -> 0 .. cut] : Bounds(s)
    BY DEF IInv, PipeInv
  <2> DEFINE a == s[g] b == s[g + 1]
  <2>3. a \in Nat /\ b \in Nat /\ GopInv(s, g)
    <3>1. Len(gops) \in Nat
      BY <1>2, GopsAre
    <3>2. g \in 1 .. Len(gops) + 1 /\ g + 1 \in 1 .. Len(gops) + 1
      BY <3>1
    <3>3. s[g] \in 0 .. cut /\ s[g + 1] \in 0 .. cut
      BY <3>2, <2>2
    <3> QED BY <3>3, <2>1, <2>2 DEF Bounds
  <2>4. /\ a + l <= b /\ gops[g].frames = Interval(a, a + l)
        /\ Chain(gops[g].subs, a + l, b, scenes, Starts)
    BY <2>3 DEF GopInv
  <2> HIDE DEF a, b, l
  <2>5. PICK m \in a + l + 1 .. b : Piece(p, a + l, m, scenes, Starts)
                                   /\ Chain(Tail(gops[g].subs), m, b, scenes, Starts)
    <3>1. a + l \in Nat
      BY <2>3, <1>3 DEF l
    <3> QED BY <3>1, <2>3, <2>4, <1>1, <1>3, ChainTail DEF p
  <2>6. l \in Nat /\ m \in Nat /\ a + l <= m /\ m <= b
    BY <2>3, <2>5, <1>3 DEF l
  <2>7. r.frames = Interval(a, m) /\ Len(r.frames) = m - a
    <3>1. Interval(a, a + l) \o Interval(a + l, m) = Interval(a, m)
      <4>1. a + l \in Nat /\ a <= a + l
        BY <2>3, <2>6
      <4> QED BY <4>1, <2>3, <2>6, IntervalConcat
    <3>2. p.frames = Interval(a + l, m)
      BY <2>5 DEF Piece
    <3>3. r.frames = Interval(a, m)
      BY <3>1, <3>2, <2>4, <1>6
    <3>4. Len(Interval(a, m)) = m - a
      <4>1. a <= m
        BY <2>3, <2>6
      <4> QED BY <4>1, <2>3, <2>6, IntervalIs
    <3> QED BY <3>3, <3>4
  <2>8. Starts' = Starts
    BY <2>1 DEF Starts
  <2>9. GopInv(s, g)'
    <3>1. gops'[g].frames = Interval(a, m) /\ a + Len(gops'[g].frames) = m /\ gops'[g].subs = Tail(gops[g].subs)
      <4>1. gops'[g].frames = Interval(a, m) /\ Len(gops'[g].frames) = m - a
        BY <2>7, <1>9
      <4>2. a + (m - a) = m
        BY <2>3, <2>6
      <4> QED BY <4>1, <4>2, <1>6, <1>9
    <3>2. s[g] + Len(gops'[g].frames) <= s[g + 1]
      BY <3>1, <2>6 DEF a, b
    <3>3. gops'[g].frames = Interval(s[g], s[g] + Len(gops'[g].frames))
      BY <3>1 DEF a
    <3>4. Chain(gops'[g].subs, s[g] + Len(gops'[g].frames), s[g + 1], scenes', Starts')
      BY <3>1, <2>1, <2>5, <2>8 DEF a, b
    <3>5. \A f \in scenes' : ~(s[g] < f /\ f < s[g + 1])
      BY <2>1, <2>3 DEF GopInv
    <3>6. g > 1 /\ s[g] < s[g + 1] => s[g] \in scenes'
      BY <2>1, <2>3 DEF GopInv
    <3> QED BY <3>2, <3>3, <3>4, <3>5, <3>6 DEF GopInv
  <2>10. OutInv(s)'
    <3>1. last \in DOMAIN gops => gops'[last].read = gops[last].read
      BY <1>6, <1>9, <1>2, GopsAre
    <3> QED BY <3>1, <2>1, <2>2, <1>9 DEF Bounds, OutInv
  <2>11. UNCHANGED <<sent, closed, taken, cut, scenes, subgops, held, needs>>
    BY <2>1
  <2> QED BY <2>2, <2>9, <2>10, <2>11, <1>2, <1>6, <1>7, PipeGop
<1> QED BY <1>8, <1>10, <1>11, <1>12, <1>13 DEF IInv

\* A packet goes out: its frame is the next one.
LEMMA ForwardPacketInv ==
  ASSUME IInv, ForwardPacket
  PROVE  IInv' /\ out' = Append(out, Len(out)) /\ Len(out) < sent
<1>0. PICK g \in 1 .. Len(gops) : g = last
  BY GopsAre DEF ForwardPacket, IInv, TypeOK
<1> DEFINE r == [gops[g] EXCEPT !.read = @ + 1] f == gops[g].frames[gops[g].read + 1]
<1>1. /\ gops[g].read < gops[g].made
      /\ gops' = [gops EXCEPT ![g].read = @ + 1] /\ out' = Append(out, f)
      /\ UNCHANGED <<sent, closed, splitter, subgops, dispatch, workload, work, pending, last, jobs>>
  BY <1>0 DEF ForwardPacket
<1>2. g \in 1 .. Len(gops) /\ TypeOK /\ g = last
  BY <1>0 DEF IInv
<1>3. /\ gops[g] \in Gops /\ gops[g].made \in Nat /\ gops[g].read \in Nat
      /\ gops[g].frames \in Seq(Frames)
      /\ gops[g].read <= gops[g].made /\ Len(gops[g].frames) \in Nat
      /\ gops[g].made <= Len(gops[g].frames)
  BY <1>2, GopsAre
<1>4. /\ r \in Gops /\ r.frames = gops[g].frames /\ r.subs = gops[g].subs /\ r.open = gops[g].open
      /\ r.made = gops[g].made /\ r.read = gops[g].read + 1 /\ r.done = gops[g].done
  <2>1. gops[g].read + 1 \in Nat
    BY <1>3
  <2>2. r \in Gops
    BY <1>3, <2>1 DEF Gops
  <2> QED BY <1>3, <2>2 DEF Gops
<1>5. gops' = [gops EXCEPT ![g] = r]
  BY <1>1
<1> HIDE DEF r, f
<1>6. f \in Frames /\ out \in Seq(Frames) /\ Len(out') = Len(out) + 1 /\ out' \in Seq(Frames)
  <2>1. gops[g].read + 1 \in 1 .. Len(gops[g].frames)
    <3> DEFINE k == gops[g].read m == gops[g].made l == Len(gops[g].frames)
    <3>1. k \in Nat /\ m \in Nat /\ l \in Nat /\ k < m /\ m <= l
      BY <1>1, <1>3
    <3> HIDE DEF k, m, l
    <3>2. k + 1 \in 1 .. l
      BY <3>1
    <3> QED BY <3>2 DEF k, l
  <2>2. f \in Frames
    BY <2>1, <1>3, ElementOfSeq DEF f
  <2>3. out \in Seq(Frames)
    BY DEF IInv, TypeOK
  <2> QED BY <2>2, <2>3, <1>1, AppendProperties
<1>7. TypeOK'
  <2>1. InputType' /\ ChannelType' /\ JobType'
    BY <1>1 DEF IInv, TypeOK, InputType, ChannelType, JobType, splitter, dispatch, jobs
  <2>2. GopsType'
    <3>1. r.made \in r.read .. Len(r.frames)
      BY <1>1, <1>3, <1>4
    <3>2. /\ UNCHANGED <<announced, workload, pending, last>>
          /\ work' \in [Workers -> {0} \cup DOMAIN gops]
      BY <1>1 DEF IInv, TypeOK, dispatch
    <3> QED BY <3>1, <3>2, <1>2, <1>4, <1>5, <1>6, GopsUpdateType
  <2> QED BY <2>1, <2>2 DEF TypeOK, InputType, ChannelType, GopsType, JobType
<1>8. /\ Len(gops') = Len(gops) /\ gops'[g] = r /\ DOMAIN gops' = DOMAIN gops
      /\ \A h \in 1 .. Len(gops) : h # g => gops'[h] = gops[h]
  BY <1>2, <1>4, <1>5, GopsUpdate
<1>9. SplitInv' /\ WorkerInv'
  BY <1>1 DEF IInv, SplitInv, WorkerInv, splitter, dispatch
<1>10. EndInv'
  <2>1. gops # <<>> /\ gops' # <<>>
    BY <1>2, <1>8, EmptySeq
  <2>2. gops'[Len(gops')].open = gops[Len(gops)].open
    BY <1>2, <1>4, <1>8
  <2> QED BY <2>1, <2>2, <1>1 DEF IInv, EndInv, splitter, dispatch, jobs
<1>11. ReadInv'
  <2>1. /\ ~(g < last) /\ ~(g > last)
        /\ gops[g].done => ~gops[g].open /\ gops[g].subs = <<>> /\ gops[g].made = Len(gops[g].frames)
    <3>1. DOMAIN gops = 1 .. Len(gops)
      BY <1>2, GopsAre
    <3> QED BY <3>1, <1>2 DEF IInv, ReadInv
  <2>2. UNCHANGED <<announced, pending, last>>
    BY <1>1 DEF dispatch
  <2> QED BY <2>1, <2>2, <1>2, <1>4, <1>5, GopsUpdateRead
<1>12. PICK s \in [1 .. Len(gops) + 1 -> 0 .. cut] : Bounds(s)
  BY DEF IInv, PipeInv
<1>13. f = Len(out) /\ Len(out) \in Nat /\ s[g] + gops[g].read = Len(out) /\ Len(out) < cut
  <2>1. s[g] \in 0 .. cut /\ s[g + 1] \in 0 .. cut /\ cut \in Nat
    <3>1. Len(gops) \in Nat /\ cut \in Nat
      BY <1>2, GopsAre DEF TypeOK
    <3>2. g \in 1 .. Len(gops) + 1 /\ g + 1 \in 1 .. Len(gops) + 1
      BY <3>1, <1>2
    <3> QED BY <3>1, <3>2, <1>12
  <2>2. Len(out) = s[g] + gops[g].read
    BY <1>2, <1>12, GopsAre DEF Bounds, OutInv
  <2>3. /\ s[g] + Len(gops[g].frames) <= s[g + 1]
        /\ gops[g].frames = Interval(s[g], s[g] + Len(gops[g].frames))
    BY <1>2, <1>12 DEF Bounds, GopInv
  <2> DEFINE a == s[g] l == Len(gops[g].frames) k == gops[g].read
  <2>4. a \in Nat /\ l \in Nat /\ k \in Nat /\ k < l /\ a + l <= cut
    <3>1. a \in Nat /\ l \in Nat /\ k \in Nat
      BY <2>1, <1>3
    <3>2. k < l
      BY <1>1, <1>3
    <3>3. a + l <= s[g + 1]
      BY <2>3
    <3> QED BY <3>1, <3>2, <3>3, <2>1
  <2>5. f = Interval(a, a + l)[k + 1]
    BY <2>3 DEF f
  <2> HIDE DEF a, l, k
  <2>6. Interval(a, a + l)[k + 1] = a + k
    <3> DEFINE b == a + l n == k + 1
    <3>1. n \in 1 .. b - a /\ b \in Nat /\ a <= b /\ n \in Nat
      BY <2>4
    <3> HIDE DEF b, n
    <3>0. \A i \in 1 .. b - a : Interval(a, b)[i] = a + i - 1
      BY <3>1, <2>4, IntervalIs
    <3>2. Interval(a, b)[n] = a + n - 1
      BY <3>0, <3>1
    <3>3. a + n - 1 = a + k
      BY <2>4 DEF n
    <3> QED BY <3>2, <3>3 DEF b, n
  <2>7. Len(out) = a + k
    BY <2>2 DEF a, k
  <2> QED BY <2>1, <2>4, <2>5, <2>6, <2>7 DEF a, k
<1>14. PipeInv'
  <2>1. UNCHANGED <<sent, closed, taken, cut, scenes, subgops, held, needs, last>>
    BY <1>1 DEF splitter, dispatch
  <2>2. Starts' = Starts
    BY <2>1 DEF Starts
  <2>3. GopInv(s, g)'
    <3>1. gops'[g].frames = gops[g].frames /\ gops'[g].subs = gops[g].subs /\ GopInv(s, g)
      BY <1>2, <1>4, <1>8, <1>12 DEF Bounds
    <3> QED BY <3>1, <2>1, <2>2 DEF GopInv
  <2>4. OutInv(s)'
    <3>1. out = Interval(0, Len(out))
      BY <1>12 DEF Bounds, OutInv
    <3>2. out' = Interval(0, Len(out) + 1)
      BY <3>1, <1>1, <1>13, IntervalAppend
    <3>3. last' \in DOMAIN gops' /\ gops'[last'].read = gops[g].read + 1 /\ last' = g
      BY <1>2, <1>4, <1>8, <2>1, GopsAre
    <3>4. Len(out') = s[g] + (gops[g].read + 1)
      <4>1. s[g] \in Nat
        <5>1. Len(gops) \in Nat /\ cut \in Nat
          BY <1>2, GopsAre DEF TypeOK
        <5>2. g \in 1 .. Len(gops) + 1
          BY <5>1, <1>2
        <5> QED BY <5>1, <5>2, <1>12
      <4>2. s[g] + (gops[g].read + 1) = Len(out) + 1
        <5> DEFINE a == s[g] k == gops[g].read
        <5>1. a \in Nat /\ k \in Nat /\ Len(out) = a + k
          BY <4>1, <1>3, <1>13
        <5> HIDE DEF a, k
        <5>2. a + (k + 1) = Len(out) + 1
          BY <5>1
        <5> QED BY <5>2 DEF a, k
      <4> QED BY <4>2, <1>6
    <3> QED BY <3>2, <3>3, <3>4, <1>6 DEF OutInv
  <2>5. UNCHANGED <<sent, closed, taken, cut, scenes, subgops, held, needs>>
    BY <2>1
  <2> QED BY <2>3, <2>4, <2>5, <1>2, <1>4, <1>5, <1>12, PipeGop
<1>15. Len(out) < sent
  BY <1>13 DEF IInv, TypeOK
<1> QED BY <1>1, <1>7, <1>9, <1>10, <1>11, <1>13, <1>14, <1>15 DEF IInv

\* The reassembler goes on to the next GOP: all of this one is out.
LEMMA NextGopInv == ASSUME IInv, NextGop PROVE IInv'
<1>0. PICK g \in 1 .. Len(gops) : g = last
  BY GopsAre DEF NextGop, IInv, TypeOK
<1>1. /\ g \in pending /\ gops[g].done /\ gops[g].read = gops[g].made
      /\ last' = g + 1 /\ pending' = pending \ {g}
      /\ UNCHANGED <<sent, closed, splitter, subgops, dispatch, pool, out, jobs>>
  BY <1>0 DEF NextGop
<1>2. /\ gops' = gops /\ announced' = announced /\ Len(gops) \in Nat /\ DOMAIN gops = 1 .. Len(gops)
      /\ Len(announced) \in Nat /\ g \in Nat
  <2>1. gops' = gops /\ announced' = announced
    BY <1>1 DEF dispatch, pool
  <2>2. Len(gops) \in Nat /\ DOMAIN gops = 1 .. Len(gops)
    BY GopsAre DEF IInv
  <2>3. Len(announced) \in Nat
    BY LenProperties DEF IInv, TypeOK
  <2> QED BY <2>1, <2>2, <2>3
<1>3. /\ pending = g .. Len(gops) - Len(announced)
      /\ gops[g].made = Len(gops[g].frames) /\ gops[g].subs = <<>>
  BY <1>0, <1>1, <1>2 DEF IInv, ReadInv
<1>4. g + Len(announced) <= Len(gops) /\ pending' = g + 1 .. Len(gops) - Len(announced)
  BY <1>1, <1>2, <1>3
<1>5. TypeOK'
  <2>1. InputType' /\ ChannelType' /\ JobType'
    BY <1>1 DEF IInv, TypeOK, InputType, ChannelType, JobType, splitter, dispatch, jobs
  <2>2. last' \in 1 .. Len(gops) + 1 /\ pending' \subseteq DOMAIN gops
    BY <1>1, <1>2, <1>4
  <2>3. GopsType'
    BY <2>2, <1>1 DEF IInv, TypeOK, GopsType, dispatch, pool
  <2> QED BY <2>1, <2>3 DEF TypeOK, InputType, ChannelType, GopsType, JobType
<1>6. SplitInv' /\ EndInv' /\ WorkerInv'
  BY <1>1 DEF IInv, SplitInv, EndInv, WorkerInv, splitter, dispatch, pool, jobs
<1>7. ReadInv'
  <2>1. ASSUME NEW h \in DOMAIN gops
        PROVE  /\ h < g + 1 => gops[h].done /\ gops[h].read = Len(gops[h].frames)
               /\ h > g + 1 => gops[h].read = 0
               /\ gops[h].done => ~gops[h].open /\ gops[h].subs = <<>> /\ gops[h].made = Len(gops[h].frames)
    <3>1. CASE h = g
      BY <3>1, <1>1, <1>2, <1>3 DEF IInv, ReadInv
    <3>2. CASE h # g
      <4>1. (h < g + 1 => h < last) /\ (h > g + 1 => h > last)
        BY <3>2, <1>0, <1>2
      <4> QED BY <4>1 DEF IInv, ReadInv
    <3> QED BY <3>1, <3>2
  <2>2. g + 1 + Len(announced) <= Len(gops) + 1
    BY <1>2, <1>4
  <2> QED BY <2>1, <2>2, <1>1, <1>2, <1>4 DEF IInv, ReadInv
<1>8. PipeInv'
  <2>1. UNCHANGED <<sent, closed, taken, cut, scenes, subgops, held, needs, out>> /\ cut \in Nat
    BY <1>1 DEF IInv, TypeOK, splitter, dispatch
  <2>2. PICK s \in [1 .. Len(gops) + 1 -> 0 .. cut] : Bounds(s)
    BY DEF IInv, PipeInv
  <2>3. Starts' = Starts
    BY <2>1 DEF Starts
  <2>4. s[g] \in Nat /\ s[g + 1] \in Nat /\ Len(gops[g].frames) \in Nat
    <3>1. g \in 1 .. Len(gops) + 1 /\ g + 1 \in 1 .. Len(gops) + 1
      BY <1>2
    <3>2. s[g] \in 0 .. cut /\ s[g + 1] \in 0 .. cut
      BY <3>1, <2>2
    <3>3. Len(gops[g].frames) \in Nat
      BY GopsAre DEF IInv
    <3> QED BY <3>2, <3>3, <2>1
  <2>5. s[g] + Len(gops[g].frames) = s[g + 1]
    <3> DEFINE a == s[g] + Len(gops[g].frames) b == s[g + 1]
    <3>1. Chain(<<>>, a, b, scenes, Starts)
      BY <2>2, <1>3 DEF Bounds, GopInv
    <3>2. a \in Nat /\ b \in Nat
      BY <2>4
    <3> HIDE DEF a, b
    <3>3. a = b
      BY <3>1, <3>2, ChainEmpty
    <3> QED BY <3>3 DEF a, b
  <2>6. Len(out) = s[g + 1] + (IF g + 1 \in DOMAIN gops THEN gops[g + 1].read ELSE 0)
    <3>1. Len(out) = s[g + 1]
      BY <2>2, <2>5, <1>0, <1>1, <1>2, <1>3 DEF Bounds, OutInv
    <3>2. g + 1 \in DOMAIN gops => gops[g + 1].read = 0
      BY <1>0, <1>2 DEF IInv, ReadInv
    <3> QED BY <3>1, <3>2, <2>4
  <2>7. OutInv(s)'
    BY <2>1, <2>2, <2>6, <1>1, <1>2 DEF Bounds, OutInv
  <2>8. \A h \in 1 .. Len(gops) : GopInv(s, h)'
    BY <2>1, <2>2, <2>3, <1>2 DEF Bounds, GopInv
  <2>9. EdgeInv(s, Len(gops))'
    BY <2>1, <2>2, <2>3, <1>2 DEF Bounds, EdgeInv
  <2>10. Bounds(s)'
    BY <2>1, <2>2, <2>3, <2>7, <2>8, <2>9, <1>2 DEF Bounds
  <2> QED BY <2>1, <2>2, <2>10, <1>2 DEF PipeInv
<1> QED BY <1>5, <1>6, <1>7, <1>8 DEF IInv

\* The dispatcher ends, and with it the last GOP.
LEMMA EndDispatcherInv == ASSUME IInv, EndDispatcher PROVE IInv'
<1>1. /\ Running(Dispatcher) /\ ~needs /\ subgops = <<>> /\ Splitter \in ended
      /\ gops' = Dropped(gops) /\ Ends(Dispatcher)
      /\ UNCHANGED <<sent, closed, splitter, subgops, dispatch, workload, work, reassembler>>
  BY DEF EndDispatcher
<1>2. TypeOK /\ gops # <<>> /\ Len(gops) \in Nat /\ gops \in Seq(Gops)
  BY <1>1, GopsAre DEF IInv, EndInv, TypeOK
<1>3. PICK g \in 1 .. Len(gops) : g = Len(gops)
  BY <1>2, EmptySeq
<1> DEFINE r == [gops[g] EXCEPT !.open = FALSE]
<1>4. gops' = [gops EXCEPT ![g].open = FALSE]
  BY <1>1, <1>2, <1>3 DEF Dropped
<1>5. /\ gops[g] \in Gops /\ gops[g].made \in Nat /\ gops[g].read \in Nat
      /\ gops[g].read <= gops[g].made /\ Len(gops[g].frames) \in Nat
      /\ gops[g].made <= Len(gops[g].frames)
  BY <1>2, GopsAre
<1>6. /\ r \in Gops /\ r.frames = gops[g].frames /\ r.subs = gops[g].subs /\ r.open = FALSE
      /\ r.made = gops[g].made /\ r.read = gops[g].read /\ r.done = gops[g].done
  BY <1>5 DEF Gops
<1>7. gops' = [gops EXCEPT ![g] = r]
  BY <1>4
<1> HIDE DEF r
<1>8. TypeOK'
  <2>1. InputType' /\ ChannelType'
    BY <1>1 DEF IInv, TypeOK, InputType, ChannelType, splitter, dispatch
  <2>2. JobType'
    BY <1>1, <1>2, EndsType DEF Dispatcher
  <2>3. GopsType'
    <3>1. r.made \in r.read .. Len(r.frames)
      BY <1>5, <1>6
    <3>2. /\ UNCHANGED <<announced, workload, pending, last>>
          /\ work' \in [Workers -> {0} \cup DOMAIN gops] /\ out' \in Seq(Frames)
      BY <1>1, <1>2 DEF TypeOK, dispatch, reassembler
    <3> QED BY <3>1, <3>2, <1>2, <1>6, <1>7, GopsUpdateType
  <2> QED BY <2>1, <2>2, <2>3 DEF TypeOK, InputType, ChannelType, GopsType, JobType
<1>9. SplitInv' /\ WorkerInv'
  BY <1>1 DEF IInv, SplitInv, WorkerInv, splitter, dispatch
<1>10. EndInv'
  <2>1. Len(gops') = Len(gops)
    BY <1>2, <1>6, <1>7, GopsUpdate
  <2>2. gops' # <<>>
    BY <2>1, <1>3, EmptySeq
  <2>3. ended' = ended \cup {Dispatcher} /\ Splitter # Dispatcher
    BY <1>1 DEF Ends, Splitter, Dispatcher
  <2>4. UNCHANGED <<sent, closed, taken, cut, held, subgops, needs>>
    BY <1>1 DEF splitter, dispatch
  <2> QED BY <2>2, <2>3, <2>4, <1>1 DEF IInv, EndInv
<1>11. ReadInv'
  <2>1. /\ g < last => gops[g].done /\ gops[g].read = Len(gops[g].frames)
        /\ g > last => gops[g].read = 0
        /\ gops[g].done => gops[g].subs = <<>> /\ gops[g].made = Len(gops[g].frames)
    <3>1. DOMAIN gops = 1 .. Len(gops)
      BY <1>2, GopsAre
    <3> QED BY <3>1 DEF IInv, ReadInv
  <2>2. UNCHANGED <<announced, pending, last>>
    BY <1>1 DEF dispatch, reassembler
  <2> QED BY <2>1, <2>2, <1>6, <1>7, GopsUpdateRead
<1>12. PipeInv'
  <2>1. UNCHANGED <<sent, closed, taken, cut, scenes, subgops, held, needs, last, out>>
    BY <1>1 DEF splitter, dispatch, reassembler
  <2> QED BY <2>1, <1>6, <1>7, PipeSame
<1> QED BY <1>8, <1>9, <1>10, <1>11, <1>12 DEF IInv

\* The dispatcher hands a sub-GOP on to the worker of the last GOP.
LEMMA ForwardInv == ASSUME IInv, Forward PROVE IInv'
<1> DEFINE p == Head(subgops)
<1>1. /\ Dispatcher \notin ended /\ ~needs /\ subgops # <<>>
      /\ subgops' = Tail(subgops) /\ needs' = p.endGop
      /\ gops' = [gops EXCEPT ![Len(gops)].subs = Append(@, p)]
      /\ UNCHANGED <<sent, closed, splitter, idle, announced, workload, work, reassembler, jobs>>
  BY DEF Forward, Running
<1>2. /\ TypeOK /\ gops # <<>> /\ Len(gops) \in Nat /\ gops \in Seq(Gops)
      /\ subgops \in Seq(SubGops) /\ held \in Seq(SubGops) /\ cut \in Nat
  <2>1. TypeOK /\ gops # <<>>
    BY <1>1 DEF IInv, EndInv
  <2>2. gops \in Seq(Gops) /\ subgops \in Seq(SubGops) /\ held \in Seq(SubGops) /\ cut \in Nat
    BY <2>1 DEF TypeOK
  <2>3. Len(gops) \in Nat
    BY <2>2, LenProperties
  <2> QED BY <2>1, <2>2, <2>3
<1>3. PICK g \in 1 .. Len(gops) : g = Len(gops)
  BY <1>2, EmptySeq
<1>4. /\ p \in SubGops /\ Tail(subgops) \in Seq(SubGops) /\ Len(Tail(subgops)) = Len(subgops) - 1
      /\ Len(subgops) \in Nat
  BY <1>1, <1>2, HeadTailProperties, LenProperties
<1> HIDE DEF p
<1> DEFINE r == [gops[g] EXCEPT !.subs = Append(@, p)]
<1>5. /\ gops[g] \in Gops /\ gops[g].made \in Nat /\ gops[g].read \in Nat
      /\ gops[g].subs \in Seq(SubGops)
      /\ gops[g].read <= gops[g].made /\ Len(gops[g].frames) \in Nat
      /\ gops[g].made <= Len(gops[g].frames)
  BY <1>2, GopsAre
<1>a. Append(gops[g].subs, p) \in Seq(SubGops)
  BY <1>4, <1>5, AppendProperties
<1>6. /\ r \in Gops /\ r.frames = gops[g].frames /\ r.subs = Append(gops[g].subs, p)
      /\ r.open = gops[g].open
      /\ r.made = gops[g].made /\ r.read = gops[g].read /\ r.done = gops[g].done
  BY <1>5, <1>a DEF Gops
<1>7. gops' = [gops EXCEPT ![g] = r]
  BY <1>1, <1>3
<1> HIDE DEF r
<1>8. TypeOK'
  <2>1. InputType' /\ JobType'
    BY <1>1 DEF IInv, TypeOK, InputType, JobType, splitter, jobs
  <2>2. ChannelType'
    <3>1. p.endGop \in BOOLEAN
      BY <1>4 DEF SubGops
    <3>2. Len(Tail(subgops)) <= SubGopsLen
      BY <1>2, <1>4 DEF TypeOK
    <3> QED BY <3>1, <3>2, <1>1, <1>2, <1>4 DEF ChannelType, TypeOK
  <2>3. GopsType'
    <3>1. r.made \in r.read .. Len(r.frames)
      BY <1>5, <1>6
    <3>2. /\ UNCHANGED <<announced, workload, pending, last>>
          /\ work' \in [Workers -> {0} \cup DOMAIN gops] /\ out' \in Seq(Frames)
      BY <1>1, <1>2 DEF TypeOK, reassembler
    <3> QED BY <3>1, <3>2, <1>2, <1>6, <1>7, GopsUpdateType
  <2> QED BY <2>1, <2>2, <2>3 DEF TypeOK, InputType, ChannelType, GopsType, JobType
<1>9. SplitInv' /\ WorkerInv'
  BY <1>1 DEF IInv, SplitInv, WorkerInv, splitter
<1>10. /\ Len(gops') = Len(gops) /\ DOMAIN gops' = DOMAIN gops /\ gops'[g] = r /\ gops' # <<>>
       /\ \A h \in 1 .. Len(gops) : h # g => gops'[h] = gops[h]
  <2>1. /\ Len(gops') = Len(gops) /\ DOMAIN gops' = DOMAIN gops /\ gops'[g] = r
        /\ \A h \in 1 .. Len(gops) : h # g => gops'[h] = gops[h]
    BY <1>2, <1>6, <1>7, GopsUpdate
  <2>2. Len(gops') = Len(gops)
    BY <2>1
  <2>3. gops' # <<>>
    BY <2>2, <1>3, EmptySeq
  <2> QED BY <2>1, <2>3
<1>11. gops[g].open /\ EndInv'
  <2>1. gops[g].open
    BY <1>1, <1>2, <1>3 DEF IInv, EndInv
  <2>2. UNCHANGED <<sent, closed, taken, cut, held, ended>>
    BY <1>1 DEF splitter, jobs
  <2>3. gops'[Len(gops')].open
    BY <2>1, <1>3, <1>6, <1>10
  <2> QED BY <2>1, <2>2, <2>3, <1>1, <1>10 DEF IInv, EndInv
<1>12. ~(g < last) /\ ReadInv'
  <2>1. /\ ~(g < last) /\ ~gops[g].done
        /\ g > last => gops[g].read = 0
    <3>1. DOMAIN gops = 1 .. Len(gops)
      BY <1>2, GopsAre
    <3> QED BY <3>1, <1>11 DEF IInv, ReadInv
  <2>2. UNCHANGED <<announced, pending, last>>
    BY <1>1 DEF reassembler
  <2> QED BY <2>1, <2>2, <1>6, <1>7, GopsUpdateRead
<1>13. PipeInv'
  <2>1. UNCHANGED <<sent, closed, taken, cut, scenes, held, last, out>> /\ taken \in Nat /\ cut <= taken
        /\ last \in Nat /\ last <= g /\ g \in Nat
    <3>1. UNCHANGED <<sent, closed, taken, cut, scenes, held, last, out>>
      BY <1>1 DEF splitter, reassembler
    <3>2. taken \in Nat /\ cut <= taken
      BY <1>2 DEF TypeOK
    <3>3. g \in Nat /\ last \in Nat
      BY <1>2, <1>3 DEF TypeOK
    <3>4. last <= g
      BY <3>3, <1>12
    <3> QED BY <3>1, <3>2, <3>3, <3>4
  <2>2. PICK s \in [1 .. Len(gops) + 1 -> 0 .. cut] : Bounds(s)
    BY DEF IInv, PipeInv
  <2> DEFINE a == s[g] b == s[g + 1] l == Len(gops[g].frames)
  <2>3. a \in Nat /\ b \in Nat /\ l \in Nat
    <3>1. g \in 1 .. Len(gops) + 1 /\ g + 1 \in 1 .. Len(gops) + 1
      BY <1>2
    <3>2. s[g] \in 0 .. cut /\ s[g + 1] \in 0 .. cut
      BY <3>1, <2>2
    <3> QED BY <3>2, <1>2, <1>5
  <2>4. /\ a + l <= b /\ gops[g].frames = Interval(a, a + l)
        /\ Chain(gops[g].subs, a + l, b, scenes, Starts)
        /\ \A f \in scenes : ~(a < f /\ f < b)
        /\ g > 1 /\ a < b => a \in scenes
    BY <2>2 DEF Bounds, GopInv
  <2>5. /\ a < b => b \notin scenes
        /\ g > 1 /\ a = b => a \in Starts
    BY <2>2, <1>1, <1>3 DEF Bounds, EdgeInv
  <2>6. Chain(subgops \o held, b, cut, scenes, Starts)
    BY <2>2, <1>3 DEF Bounds
  <2> HIDE DEF a, b, l
  <2>7. /\ subgops \o held \in Seq(SubGops) /\ subgops \o held # <<>>
        /\ Head(subgops \o held) = p /\ Tail(subgops \o held) = Tail(subgops) \o held
    <3>1. /\ subgops \o held \in Seq(SubGops) /\ Len(subgops \o held) = Len(subgops) + Len(held)
          /\ Len(subgops) \in Nat \ {0} /\ Len(held) \in Nat
      BY <1>1, <1>2, ConcatProperties, EmptySeq, LenProperties
    <3>2. subgops \o held # <<>>
      BY <3>1, EmptySeq
    <3>3. Head(subgops \o held) = p
      <4>1. (subgops \o held)[1] = subgops[1]
        BY <1>2, <3>1, ConcatProperties
      <4> QED BY <4>1, <3>1, <3>2, <1>1, <1>2, HeadTailProperties DEF p
    <3>4. Tail(subgops \o held) = Tail(subgops) \o held
      <4> DEFINE u == Tail(subgops \o held) v == Tail(subgops) \o held
      <4>1. /\ u \in Seq(SubGops) /\ Len(u) = Len(subgops) + Len(held) - 1
            /\ \A i \in 1 .. Len(u) : u[i] = (subgops \o held)[i + 1]
        BY <3>1, <3>2, HeadTailProperties
      <4>2. /\ v \in Seq(SubGops) /\ Len(v) = Len(subgops) - 1 + Len(held)
            /\ \A i \in 1 .. Len(subgops) - 1 + Len(held) :
                 v[i] = IF i <= Len(subgops) - 1 THEN Tail(subgops)[i] ELSE held[i - (Len(subgops) - 1)]
        BY <1>2, <1>4, ConcatProperties
      <4>3. ASSUME NEW i \in 1 .. Len(u) PROVE u[i] = v[i]
        <5>1. i \in 1 .. Len(subgops) - 1 + Len(held) /\ i + 1 \in 1 .. Len(subgops) + Len(held)
          BY <4>1, <3>1
        <5>2. (subgops \o held)[i + 1] = IF i + 1 <= Len(subgops) THEN subgops[i + 1] ELSE held[i + 1 - Len(subgops)]
          BY <5>1, <1>2, ConcatProperties
        <5>3. CASE i + 1 <= Len(subgops)
          <6>1. i <= Len(subgops) - 1 /\ i \in 1 .. Len(Tail(subgops))
            BY <5>3, <5>1, <3>1, <1>4
          <6>2. Tail(subgops)[i] = subgops[i + 1]
            BY <6>1, <1>1, <1>2, HeadTailProperties
          <6> QED BY <6>1, <6>2, <5>1, <5>2, <5>3, <4>1, <4>2
        <5>4. CASE ~(i + 1 <= Len(subgops))
          <6>1. ~(i <= Len(subgops) - 1) /\ i + 1 - Len(subgops) = i - (Len(subgops) - 1)
            BY <5>4, <5>1, <3>1
          <6> QED BY <6>1, <5>1, <5>2, <5>4, <4>1, <4>2
        <5> QED BY <5>3, <5>4
      <4>4. Len(u) = Len(v)
        BY <4>1, <4>2, <3>1
      <4> HIDE DEF u, v
      <4>5. u = v
        BY <4>1, <4>2, <4>3, <4>4, SeqEqual
      <4> QED BY <4>5 DEF u, v
    <3> QED BY <3>1, <3>2, <3>3, <3>4
  <2>8. PICK m \in b + 1 .. cut : Piece(p, b, m, scenes, Starts)
                               /\ Chain(Tail(subgops) \o held, m, cut, scenes, Starts)
    <3> DEFINE q == subgops \o held
    <3>1. q \in Seq(SubGops) /\ q # <<>> /\ Chain(q, b, cut, scenes, Starts)
      BY <2>6, <2>7
    <3> HIDE DEF q
    <3>2. PICK m \in b + 1 .. cut : Piece(Head(q), b, m, scenes, Starts) /\ Chain(Tail(q), m, cut, scenes, Starts)
      BY <3>1, <2>3, <1>2, ChainTail
    <3> QED BY <3>2, <2>7 DEF q
  <2>9. m \in 0 .. cut /\ m \in Nat /\ b < m /\ m <= cut /\ a + l <= m /\ a < m
    BY <2>3, <2>4, <2>8, <1>2
  <2>10. Starts' = Starts
    BY <2>1 DEF Starts
  <2> DEFINE t == [s EXCEPT ![g + 1] = m]
  <2>11. /\ t \in [1 .. Len(gops') + 1 -> 0 .. cut'] /\ t[g + 1] = m
         /\ \A h \in 1 .. g : t[h] = s[h]
    BY <2>1, <2>2, <2>9, <1>2, <1>3, <1>10
  <2> HIDE DEF t
  <2>12. GopInv(t, g)'
    <3>1. t[g] = a /\ t[g + 1] = m
      BY <2>11, <1>2, <1>3 DEF a
    <3>2. gops'[g].frames = gops[g].frames /\ Len(gops'[g].frames) = l /\ gops'[g].subs = Append(gops[g].subs, p)
      BY <1>6, <1>10 DEF l
    <3>3. Chain(Append(gops[g].subs, p), a + l, m, scenes, Starts)
      <4> DEFINE k == a + l
      <4>1. k \in Nat /\ Chain(gops[g].subs, k, b, scenes, Starts)
        BY <2>3, <2>4
      <4> HIDE DEF k
      <4>2. Chain(Append(gops[g].subs, p), k, m, scenes, Starts)
        BY <4>1, <2>3, <2>8, <2>9, <1>4, <1>5, ChainAppend
      <4> QED BY <4>2 DEF k
    <3>4. \A f \in scenes : ~(a < f /\ f < m)
      <4>1. ASSUME NEW f \in scenes, a < f, f < m PROVE FALSE
        <5>1. f \in Nat
          BY <1>2 DEF TypeOK, Frames
        <5>2. ~(f < b) /\ ~(b < f)
          BY <4>1, <2>4, <2>8 DEF Piece
        <5>3. f = b
          BY <5>1, <5>2, <2>3
        <5> QED BY <4>1, <5>3, <2>5
      <4> QED BY <4>1
    <3>5. g > 1 => a \in scenes
      <4>1. CASE a < b
        BY <4>1, <2>4
      <4>2. CASE a = b
        <5>1. g > 1 => a \in Starts
          BY <4>2, <2>5
        <5>2. a # taken
          BY <2>1, <2>3, <2>9, <1>2
        <5> QED BY <5>1, <5>2 DEF Starts
      <4> QED BY <4>1, <4>2, <2>3, <2>4
    <3>6. t[g] + Len(gops'[g].frames) <= t[g + 1]
      BY <3>1, <3>2, <2>9
    <3>7. gops'[g].frames = Interval(t[g], t[g] + Len(gops'[g].frames))
      BY <3>1, <3>2, <2>4
    <3>8. Chain(gops'[g].subs, t[g] + Len(gops'[g].frames), t[g + 1], scenes', Starts')
      BY <3>1, <3>2, <3>3, <2>1, <2>10
    <3>9. \A f \in scenes' : ~(t[g] < f /\ f < t[g + 1])
      BY <3>1, <3>4, <2>1
    <3>10. g > 1 /\ t[g] < t[g + 1] => t[g] \in scenes'
      BY <3>1, <3>5, <2>1
    <3> QED BY <3>6, <3>7, <3>8, <3>9, <3>10 DEF GopInv
  <2>13. ASSUME NEW h \in 1 .. Len(gops), h # g PROVE GopInv(t, h)'
    <3>1. h \in 1 .. g /\ h + 1 \in 1 .. g
      BY <2>13, <1>2, <1>3
    <3>2. t[h] = s[h] /\ t[h + 1] = s[h + 1] /\ gops'[h] = gops[h] /\ GopInv(s, h)
      BY <2>2, <2>11, <2>13, <3>1, <1>10 DEF Bounds
    <3> QED BY <3>2, <2>1, <2>10 DEF GopInv
  <2>14. t[g] = a /\ t[g + 1] = m /\ Len(gops') = g
    BY <2>11, <1>2, <1>3, <1>10 DEF a
  <2>15. EdgeInv(t, g)'
    <3>1. needs' = TRUE => m \in Starts
      BY <2>8, <1>1 DEF Piece
    <3>2. needs' = FALSE => m \notin scenes
      BY <2>8, <1>1 DEF Piece
    <3>3. a # m
      BY <2>3, <2>9
    <3>4. needs' \in BOOLEAN
      BY <1>8 DEF TypeOK
    <3>5. CASE needs' = TRUE
      BY <3>1, <3>5, <2>10, <2>14 DEF EdgeInv
    <3>6. CASE needs' = FALSE
      BY <3>2, <3>3, <3>6, <2>1, <2>10, <2>14 DEF EdgeInv
    <3> QED BY <3>4, <3>5, <3>6
  <2>16. OutInv(t)'
    <3>1. last \in 1 .. g /\ last \in DOMAIN gops /\ last \in DOMAIN gops'
      BY <2>1, <1>2, <1>3, <1>10, GopsAre DEF TypeOK
    <3>2. gops'[last].read = gops[last].read /\ t[last] = s[last]
      BY <3>1, <2>11, <1>3, <1>6, <1>10
    <3> QED BY <3>1, <3>2, <2>1, <2>2 DEF Bounds, OutInv
  <2>17. t[1] = 0
    BY <2>2, <2>11, <1>3 DEF Bounds
  <2>18. Chain(subgops' \o held', t[Len(gops') + 1], cut', scenes', Starts')
    BY <2>1, <2>8, <2>10, <2>14, <1>1
  <2>19. EdgeInv(t, Len(gops))'
    BY <2>14, <2>15
  <2>20. \A h \in 1 .. Len(gops') : GopInv(t, h)'
    BY <2>12, <2>13, <1>10
  <2>21. Bounds(t)'
    BY <2>16, <2>17, <2>18, <2>19, <2>20 DEF Bounds
  <2> QED BY <2>11, <2>21 DEF PipeInv
<1> QED BY <1>8, <1>9, <1>11, <1>12, <1>13 DEF IInv

\* Dropping the sender of the last GOP changes nothing else.
LEMMA DroppedIs ==
  ASSUME TypeOK
  PROVE  /\ Dropped(gops) \in Seq(Gops) /\ Len(Dropped(gops)) = Len(gops)
         /\ \A g \in 1 .. Len(gops) :
              /\ Dropped(gops)[g].frames = gops[g].frames /\ Dropped(gops)[g].subs = gops[g].subs
              /\ Dropped(gops)[g].made = gops[g].made /\ Dropped(gops)[g].read = gops[g].read
              /\ Dropped(gops)[g].done = gops[g].done
              /\ Dropped(gops)[g].open => gops[g].open
<1>1. gops \in Seq(Gops) /\ Len(gops) \in Nat
  <2>1. gops \in Seq(Gops)
    BY DEF TypeOK
  <2> QED BY <2>1, LenProperties
<1>2. CASE gops = <<>>
  BY <1>1, <1>2, EmptySeq DEF Dropped
<1>3. CASE gops # <<>>
  <2>1. PICK g \in 1 .. Len(gops) : g = Len(gops)
    BY <1>1, <1>3, EmptySeq
  <2> DEFINE r == [gops[g] EXCEPT !.open = FALSE]
  <2>2. Dropped(gops) = [gops EXCEPT ![g] = r]
    BY <1>3, <2>1 DEF Dropped
  <2>3. gops[g] \in Gops
    BY GopsAre
  <2>4. /\ r \in Gops /\ r.frames = gops[g].frames /\ r.subs = gops[g].subs /\ r.open = FALSE
        /\ r.made = gops[g].made /\ r.read = gops[g].read /\ r.done = gops[g].done
    BY <2>3 DEF Gops
  <2> HIDE DEF r
  <2>5. /\ Dropped(gops) \in Seq(Gops) /\ Len(Dropped(gops)) = Len(gops)
        /\ \A h \in 1 .. Len(gops) : Dropped(gops)[h] = IF h = g THEN r ELSE gops[h]
    BY <1>1, <2>2, <2>4, ExceptSeq
  <2> QED BY <2>4, <2>5
<1> QED BY <1>2, <1>3

\* The dispatcher gives a new GOP to a free worker.
LEMMA GetWorkerInv == ASSUME IInv, GetWorker PROVE IInv'
<1> DEFINE h == Head(idle) D == Dropped(gops) n == Len(gops) m == Len(announced)
<1>1. /\ Dispatcher \notin ended /\ needs /\ idle # <<>>
      /\ idle' = Tail(idle) /\ announced' = Append(announced, n + 1)
      /\ workload' = [workload EXCEPT ![h] = Append(@, n + 1)]
      /\ gops' = Append(D, NewGop) /\ needs' = FALSE
      /\ UNCHANGED <<sent, closed, splitter, subgops, work, reassembler, jobs>>
  BY DEF GetWorker, Running
<1>2. TypeOK /\ n \in Nat /\ DOMAIN gops = 1 .. n
  BY GopsAre DEF IInv
<1>3. /\ D \in Seq(Gops) /\ Len(D) = n
      /\ \A g \in 1 .. n :
           /\ D[g].frames = gops[g].frames /\ D[g].subs = gops[g].subs
           /\ D[g].made = gops[g].made /\ D[g].read = gops[g].read
           /\ D[g].done = gops[g].done /\ (D[g].open => gops[g].open)
  BY <1>2, DroppedIs
<1> HIDE DEF D
<1>4. NewGop \in Gops
  <2>1. <<>> \in Seq(Frames) /\ <<>> \in Seq(SubGops)
    BY EmptySeq
  <2> QED BY <2>1 DEF NewGop, Gops
<1>5. /\ gops' \in Seq(Gops) /\ Len(gops') = n + 1 /\ DOMAIN gops' = 1 .. n + 1
      /\ gops'[n + 1] = NewGop /\ \A g \in 1 .. n : gops'[g] = D[g]
  <2>1. /\ Append(D, NewGop) \in Seq(Gops) /\ Len(Append(D, NewGop)) = n + 1
        /\ Append(D, NewGop)[n + 1] = NewGop
        /\ \A g \in 1 .. n : Append(D, NewGop)[g] = D[g]
    BY <1>3, <1>4, AppendProperties
  <2>2. DOMAIN Append(D, NewGop) = 1 .. n + 1
    BY <2>1, LenProperties
  <2> QED BY <2>1, <2>2, <1>1
<1>6. /\ h \in Workers /\ workload[h] = <<>> /\ work[h] = 0
      /\ Tail(idle) \in Seq(Workers) /\ Len(Tail(idle)) <= Slots
      /\ \A i \in DOMAIN Tail(idle) :
           /\ Tail(idle)[i] \in Workers /\ Tail(idle)[i] # h
           /\ workload[Tail(idle)[i]] = <<>> /\ work[Tail(idle)[i]] = 0
      /\ \A i, j \in DOMAIN Tail(idle) : Tail(idle)[i] = Tail(idle)[j] => i = j
  BY <1>1, IdleTail
<1> DEFINE S == {0} \cup 1 .. n T == {0} \cup 1 .. n + 1
<1>7. S \subseteq T /\ n + 1 \in T /\ workload \in [Workers -> Seq(S)] /\ work \in [Workers -> S]
  BY <1>2 DEF TypeOK
<1> HIDE DEF S, T, h
<1>8. /\ workload' \in [Workers -> Seq(T)] /\ Len(workload'[h]) = 1
      /\ \A v \in Workers : v # h => workload'[v] = workload[v]
  BY <1>1, <1>6, <1>7, WorkTo
<1>9. /\ announced \in Seq(1 .. n) /\ m \in Nat /\ DOMAIN announced = 1 .. m
      /\ last \in 1 .. n + 1 /\ pending \subseteq 1 .. n
  <2>1. announced \in Seq(1 .. n) /\ last \in 1 .. n + 1 /\ pending \subseteq 1 .. n
    BY <1>2 DEF TypeOK
  <2> QED BY <2>1, LenProperties
<1>10. /\ announced' \in Seq(1 .. n + 1) /\ Len(announced') = m + 1
       /\ DOMAIN announced' = 1 .. m + 1
       /\ announced'[m + 1] = n + 1 /\ \A i \in 1 .. m : announced'[i] = announced[i]
  <2>1. announced \in Seq(1 .. n + 1)
    <3>1. 1 .. n \subseteq 1 .. n + 1
      BY <1>2
    <3> QED BY <3>1, <1>9, SeqMonotonic
  <2>2. n + 1 \in 1 .. n + 1
    BY <1>2
  <2> HIDE DEF n
  <2>3. /\ Append(announced, n + 1) \in Seq(1 .. n + 1) /\ Len(Append(announced, n + 1)) = m + 1
        /\ Append(announced, n + 1)[m + 1] = n + 1
        /\ \A i \in 1 .. m : Append(announced, n + 1)[i] = announced[i]
    BY <2>1, <2>2, AppendProperties
  <2>4. DOMAIN Append(announced, n + 1) = 1 .. m + 1
    BY <2>3, LenProperties
  <2> QED BY <2>3, <2>4, <1>1
<1>11. TypeOK'
  <2>1. InputType' /\ JobType'
    BY <1>1, <1>2 DEF TypeOK, InputType, JobType, splitter, jobs
  <2>2. ChannelType'
    BY <1>1, <1>2, <1>6 DEF TypeOK, ChannelType
  <2>3. GopsType'
    <3>1. ASSUME NEW g \in DOMAIN gops' PROVE gops'[g].made \in gops'[g].read .. Len(gops'[g].frames)
      <4>1. CASE g = n + 1
        BY <4>1, <1>5, EmptySeq DEF NewGop
      <4>2. CASE g # n + 1
        <5>1. g \in 1 .. n /\ gops'[g] = D[g]
          BY <4>2, <1>2, <1>5
        <5>2. gops[g].made \in gops[g].read .. Len(gops[g].frames)
          BY <5>1, <1>2 DEF TypeOK
        <5> QED BY <5>1, <5>2, <1>3
      <4> QED BY <4>1, <4>2
    <3>2. work' \in [Workers -> T]
      BY <1>1, <1>7
    <3>3. last' \in 1 .. n + 2 /\ pending' \subseteq 1 .. n + 1
      BY <1>1, <1>2, <1>9 DEF reassembler
    <3>4. out' \in Seq(Frames)
      BY <1>1, <1>2 DEF TypeOK, reassembler
    <3> QED BY <3>1, <3>2, <3>3, <3>4, <1>2, <1>5, <1>8, <1>10 DEF GopsType, T
  <2> QED BY <2>1, <2>2, <2>3 DEF TypeOK, InputType, ChannelType, GopsType, JobType
<1>12. SplitInv'
  BY <1>1 DEF IInv, SplitInv, splitter
<1>13. EndInv'
  <2>1. gops' # <<>> /\ gops'[Len(gops')].open
    BY <1>2, <1>5, EmptySeq DEF NewGop
  <2>2. UNCHANGED <<sent, closed, taken, cut, held, ended>>
    BY <1>1 DEF splitter, jobs
  <2> QED BY <2>1, <2>2, <1>1 DEF IInv, EndInv
<1>14. ReadInv'
  <2>1. last' = last /\ pending' = pending
    BY <1>1 DEF reassembler
  <2>2. ASSUME NEW g \in DOMAIN gops'
        PROVE  /\ g < last => gops'[g].done /\ gops'[g].read = Len(gops'[g].frames)
               /\ g > last => gops'[g].read = 0
               /\ gops'[g].done => ~gops'[g].open /\ gops'[g].subs = <<>> /\ gops'[g].made = Len(gops'[g].frames)
    <3>1. CASE g = n + 1
      BY <3>1, <1>2, <1>5, <1>9 DEF NewGop
    <3>2. CASE g # n + 1
      <4>1. g \in 1 .. n /\ gops'[g] = D[g]
        BY <3>2, <1>2, <1>5
      <4>2. /\ g < last => gops[g].done /\ gops[g].read = Len(gops[g].frames)
            /\ g > last => gops[g].read = 0
            /\ gops[g].done => ~gops[g].open /\ gops[g].subs = <<>> /\ gops[g].made = Len(gops[g].frames)
        BY <4>1, <1>2 DEF IInv, ReadInv
      <4> QED BY <4>1, <4>2, <1>3
    <3> QED BY <3>1, <3>2
  <2>3. /\ last + m <= n + 1 /\ pending = last .. n - m
        /\ \A i \in 1 .. m : announced[i] = n - m + i
    BY <1>9 DEF IInv, ReadInv
  <2>4. last + (m + 1) <= (n + 1) + 1 /\ pending = last .. (n + 1) - (m + 1)
    BY <2>3, <1>2, <1>9
  <2>5. \A i \in DOMAIN announced' : announced'[i] = (n + 1) - (m + 1) + i
    <3>1. ASSUME NEW i \in DOMAIN announced' PROVE announced'[i] = (n + 1) - (m + 1) + i
      <4>1. CASE i = m + 1
        BY <4>1, <1>2, <1>9, <1>10
      <4>2. CASE i # m + 1
        <5>1. i \in 1 .. m
          BY <4>2, <1>9, <1>10
        <5> QED BY <5>1, <2>3, <1>2, <1>9, <1>10
      <4> QED BY <4>1, <4>2
    <3> QED BY <3>1
  <2> QED BY <2>1, <2>2, <2>4, <2>5, <1>5, <1>10 DEF ReadInv
<1>15. WorkerInv'
  <2>1. work' = work /\ idle' = Tail(idle)
    BY <1>1
  <2>2. \A i \in DOMAIN Tail(idle) : workload'[Tail(idle)[i]] = <<>>
    BY <1>6, <1>8
  <2>3. ASSUME NEW w \in Workers
        PROVE  Len(workload'[w]) <= 1 /\ (work[w] # 0 => workload'[w] = <<>>)
    <3>1. CASE w = h
      BY <3>1, <1>6, <1>8
    <3>2. CASE w # h
      <4>1. workload'[w] = workload[w]
        BY <3>2, <1>8
      <4> QED BY <4>1 DEF IInv, WorkerInv
    <3> QED BY <3>1, <3>2
  <2> QED BY <2>1, <2>2, <2>3, <1>6 DEF WorkerInv
<1>16. PipeInv'
  <2>1. /\ UNCHANGED <<sent, closed, taken, cut, scenes, subgops, held, last, out>> /\ cut \in Nat
    BY <1>1, <1>2 DEF TypeOK, splitter, reassembler
  <2>2. PICK s \in [1 .. n + 1 -> 0 .. cut] : Bounds(s)
    BY DEF IInv, PipeInv
  <2>3. Starts' = Starts
    BY <2>1 DEF Starts
  <2>4. PICK a \in Nat : a = s[n + 1] /\ a \in 0 .. cut
    <3>1. n + 1 \in 1 .. n + 1
      BY <1>2
    <3>2. s[n + 1] \in 0 .. cut
      BY <3>1, <2>2
    <3> QED BY <3>2, <2>1
  <2>5. PICK t \in [1 .. n + 2 -> 0 .. cut] :
          t[n + 2] = a /\ t[n + 1] = a /\ \A g \in 1 .. n + 1 : t[g] = s[g]
    <3> DEFINE u == [i \in 1 .. n + 2 |-> IF i = n + 2 THEN a ELSE s[i]]
    <3>1. /\ u \in [1 .. n + 2 -> 0 .. cut] /\ u[n + 2] = a /\ u[n + 1] = a
          /\ \A g \in 1 .. n + 1 : u[g] = s[g]
      BY <2>2, <2>4, <1>2
    <3> HIDE DEF u
    <3> QED BY <3>1
  <2>6. t \in [1 .. Len(gops') + 1 -> 0 .. cut'] /\ t[Len(gops') + 1] = a
    BY <2>1, <2>5, <1>2, <1>5
  <2>7. ASSUME NEW g \in 1 .. n PROVE GopInv(t, g)'
    <3>1. g \in 1 .. n + 1 /\ g + 1 \in 1 .. n + 1
      BY <1>2
    <3>2. t[g] = s[g] /\ t[g + 1] = s[g + 1]
      BY <3>1, <2>5
    <3>3. gops'[g].frames = gops[g].frames /\ gops'[g].subs = gops[g].subs
      BY <1>3, <1>5
    <3>4. GopInv(s, g)
      BY <2>2 DEF Bounds
    <3> QED BY <3>2, <3>3, <3>4, <2>1, <2>3 DEF GopInv
  <2>a. PICK k \in Nat : k = n + 1
    BY <1>2
  <2>8. GopInv(t, k)'
    <3>1. t[k] = a /\ t[k + 1] = a
      BY <2>5, <2>a, <1>2
    <3>2. gops'[k].frames = <<>> /\ gops'[k].subs = <<>> /\ Len(gops'[k].frames) = 0
      BY <2>a, <1>5, EmptySeq DEF NewGop
    <3>3. Interval(a, a) = <<>>
      <4>1. Interval(a, a) \in Seq(Nat) /\ Len(Interval(a, a)) = 0
        <5>1. a <= a /\ a - a = 0
          BY <2>4
        <5> QED BY <5>1, <2>4, IntervalIs
      <4> QED BY <4>1, EmptySeq
    <3>4. Chain(<<>>, a, a, scenes, Starts)
      BY <2>4, ChainEmpty
    <3>5. a + 0 = a /\ ~(a < a) /\ \A f \in scenes : ~(a < f /\ f < a)
      <4>1. scenes \subseteq Nat
        BY <1>2 DEF TypeOK, Frames
      <4> QED BY <4>1, <2>4
    <3>6. t[k] + Len(gops'[k].frames) = a
      BY <3>1, <3>2, <3>5
    <3>7. t[k] + Len(gops'[k].frames) <= t[k + 1]
      BY <3>1, <3>6, <2>4
    <3>8. gops'[k].frames = Interval(t[k], t[k] + Len(gops'[k].frames))
      BY <3>1, <3>2, <3>3, <3>6
    <3>9. Chain(gops'[k].subs, t[k] + Len(gops'[k].frames), t[k + 1], scenes', Starts')
      BY <3>1, <3>2, <3>4, <3>6, <2>1, <2>3
    <3>10. \A f \in scenes' : ~(t[k] < f /\ f < t[k + 1])
      BY <3>1, <3>5, <2>1
    <3>11. ~(t[k] < t[k + 1])
      BY <3>1, <3>5
    <3> QED BY <3>7, <3>8, <3>9, <3>10, <3>11 DEF GopInv
  <2>9. EdgeInv(t, k)'
    <3>1. n > 0 => a \in Starts
      BY <2>2, <2>4, <1>1 DEF Bounds, EdgeInv
    <3>2. t[k] = a /\ t[k + 1] = a /\ ~(a < a)
      BY <2>4, <2>5, <2>a, <1>2
    <3>3. k > 1 => n > 0
      BY <2>a, <1>2
    <3> QED BY <3>1, <3>2, <3>3, <2>3, <1>1 DEF EdgeInv
  <2>10. OutInv(t)'
    <3>1. t[last] = s[last]
      BY <2>5, <1>9
    <3>2. CASE last = n + 1
      <4>1. last \notin DOMAIN gops /\ last \in DOMAIN gops' /\ gops'[last].read = 0
        BY <3>2, <1>2, <1>5 DEF NewGop
      <4> QED BY <4>1, <3>1, <2>1, <2>2 DEF Bounds, OutInv
    <3>3. CASE last # n + 1
      <4>1. last \in DOMAIN gops /\ last \in DOMAIN gops' /\ last \in 1 .. n
        BY <3>3, <1>2, <1>5, <1>9
      <4>2. gops'[last].read = gops[last].read
        BY <4>1, <1>3, <1>5
      <4> QED BY <4>1, <4>2, <3>1, <2>1, <2>2 DEF Bounds, OutInv
    <3> QED BY <3>2, <3>3
  <2>11. t[1] = 0
    BY <2>2, <2>5, <1>2 DEF Bounds
  <2>12. Chain(subgops' \o held', t[Len(gops') + 1], cut', scenes', Starts')
    BY <2>1, <2>2, <2>3, <2>4, <2>6 DEF Bounds
  <2>13. EdgeInv(t, Len(gops))'
    <3>1. Len(gops') = k
      BY <2>a, <1>5
    <3> QED BY <3>1, <2>9
  <2>14. \A g \in 1 .. Len(gops') : GopInv(t, g)'
    <3>1. ASSUME NEW g \in 1 .. n + 1 PROVE GopInv(t, g)'
      <4>1. CASE g = n + 1
        BY <4>1, <2>8, <2>a
      <4>2. CASE g # n + 1
        <5>1. g \in 1 .. n
          BY <4>2, <1>2
        <5> QED BY <5>1, <2>7
      <4> QED BY <4>1, <4>2
    <3> QED BY <3>1, <1>5
  <2>15. Bounds(t)'
    BY <2>10, <2>11, <2>12, <2>13, <2>14 DEF Bounds
  <2> QED BY <2>6, <2>15 DEF PipeInv
<1> QED BY <1>11, <1>12, <1>13, <1>14, <1>15, <1>16 DEF IInv

-----------------------------------------------------------------------------
(* The invariant holds *)

\* At the start there is no frame and no GOP.
LEMMA InitInv == ASSUME Init PROVE IInv
<1>1. /\ sent = 0 /\ closed = FALSE
      /\ taken = 0 /\ cut = 0 /\ scanned = 0 /\ processed = 0 /\ held = <<>> /\ scenes = {}
      /\ subgops = <<>> /\ needs = TRUE /\ idle = [w \in Workers |-> w]
      /\ gops = <<>> /\ announced = <<>>
      /\ workload = [w \in Workers |-> <<>>] /\ work = [w \in Workers |-> 0]
      /\ pending = {} /\ last = 1 /\ out = <<>>
      /\ threads \in Pools /\ started = 0 /\ ended = {}
  BY DEF Init
<1>2. /\ idle \in Seq(Workers) /\ Len(idle) = Slots /\ DOMAIN idle = Workers
  <2>1. idle \in [1 .. Slots -> Workers]
    BY <1>1 DEF Workers
  <2>2. idle \in Seq(Workers)
    BY <2>1, SeqDef
  <2> QED BY <2>1, <2>2, LenProperties DEF Workers
<1>3. Len(gops) = 0 /\ DOMAIN gops = {} /\ gops \in Seq(Gops)
  BY <1>1, EmptySeq
<1>4. TypeOK
  <2>1. InputType
    <3>1. held \in Seq(SubGops) /\ Len(held) = 0
      BY <1>1, EmptySeq
    <3>2. sent \in 0 .. MaxFrames /\ scanned \in 0 .. Pyramid + 1
      BY <1>1
    <3>3. taken \in 0 .. sent /\ sent <= taken + InputLen /\ cut \in 0 .. taken /\ processed \in 0 .. taken
      BY <1>1
    <3>4. closed \in BOOLEAN /\ scenes \subseteq Frames
      BY <1>1
    <3>5. Len(held) <= 1
      BY <3>1
    <3> QED BY <3>1, <3>2, <3>3, <3>4, <3>5 DEF InputType
  <2>2. ChannelType
    BY <1>1, <1>2, EmptySeq DEF ChannelType
  <2>3. GopsType
    <3>1. workload \in [Workers -> Seq({0} \cup DOMAIN gops)] /\ work \in [Workers -> {0} \cup DOMAIN gops]
      BY <1>1, EmptySeq
    <3> QED BY <1>1, <1>3, <3>1, EmptySeq DEF GopsType
  <2>4. JobType
    BY <1>1 DEF JobType
  <2> QED BY <2>1, <2>2, <2>3, <2>4, TypeParts
<1>5. SplitInv /\ EndInv
  BY <1>1 DEF SplitInv, EndInv
<1>6. ReadInv
  BY <1>1, <1>3, EmptySeq DEF ReadInv
<1>7. WorkerInv
  <2>1. \A i \in DOMAIN idle : idle[i] = i /\ i \in Workers
    BY <1>1
  <2>2. \A w \in Workers : workload[w] = <<>> /\ work[w] = 0
    BY <1>1
  <2> QED BY <2>1, <2>2, EmptySeq DEF WorkerInv
<1>8. PipeInv
  <2> DEFINE s == [i \in 1 .. 1 |-> 0]
  <2>1. s \in [1 .. Len(gops) + 1 -> 0 .. cut] /\ s[1] = 0 /\ s[Len(gops) + 1] = 0
    BY <1>1, <1>3
  <2> HIDE DEF s
  <2>2. Chain(subgops \o held, s[Len(gops) + 1], cut, scenes, Starts)
    <3>1. subgops \o held = <<>>
      BY <1>1, EmptySeq, ConcatEmptySeq
    <3>2. Chain(<<>>, 0, 0, scenes, Starts)
      BY ChainEmpty
    <3> QED BY <1>1, <2>1, <3>1, <3>2
  <2>3. EdgeInv(s, Len(gops))
    BY <1>1, <1>3 DEF EdgeInv
  <2>4. OutInv(s)
    <3>1. Interval(0, 0) \in Seq(Nat) /\ Len(Interval(0, 0)) = 0
      BY IntervalIs
    <3>2. Interval(0, 0) = <<>> /\ Len(out) = 0
      BY <1>1, <3>1, EmptySeq
    <3> QED BY <1>1, <1>3, <2>1, <3>2 DEF OutInv
  <2>5. Bounds(s)
    BY <1>3, <2>1, <2>2, <2>3, <2>4 DEF Bounds
  <2> QED BY <2>1, <2>5 DEF PipeInv
<1> QED BY <1>4, <1>5, <1>6, <1>7, <1>8 DEF IInv

\* Every step keeps it.
LEMMA NextInv == ASSUME IInv, [Next]_vars PROVE IInv'
<1>1. CASE SplitterStep
  <2>1. CASE TakeFrame
    BY <2>1, TakeFrameMoves, SplitterMovesInv
  <2>2. CASE SplitRest
    BY <2>2, SplitRestMoves, SplitterMovesInv
  <2>3. CASE CutRest
    BY <2>3, CutRestMoves, SplitterMovesInv
  <2> QED BY <1>1, <2>1, <2>2, <2>3, SendSubGopInv, EndSplitterInv DEF SplitterStep
<1>2. CASE DispatcherStep
  BY <1>2, GetWorkerInv, ForwardInv, EndDispatcherInv DEF DispatcherStep
<1>3. CASE ReassemblerStep
  BY <1>3, TakeAnnouncedInv, ForwardPacketInv, NextGopInv, CloseWorkerInv, EndReassemblerInv
     DEF ReassemblerStep
<1>4. ASSUME NEW w \in Workers, Worker(w) PROVE IInv'
  BY <1>4, TakeWorkloadInv, TakeSubGopInv, EncodePacketInv, EndGopInv DEF Worker
<1> QED BY <1>1, <1>2, <1>3, <1>4, SendInv, CloseInv, StartJobInv, StutterInv DEF Next

\* The inductive invariant: what each job knows of the others, and where each
\* frame is on its way from the splitter to the packets.
THEOREM Invariance == Spec => []IInv
BY InitInv, NextInv, PTL DEF Spec

\* Type correctness, for every number of workers, threads and frames: no
\* channel is over its capacity, a packet is read after it is made.
THEOREM TypeCorrect == Spec => []TypeOK
<1>1. IInv => TypeOK
  BY DEF IInv
<1> QED BY <1>1, Invariance, PTL

\* A GOP starts where the detector saw a scene and nowhere else.
THEOREM GopsCorrect == Spec => []GopsAsDetected
<1>1. ASSUME IInv PROVE GopsAsDetected
  <2>1. PICK s \in [1 .. Len(gops) + 1 -> 0 .. cut] : Bounds(s)
    BY <1>1 DEF IInv, PipeInv
  <2>2. TypeOK /\ Len(gops) \in Nat /\ DOMAIN gops = 1 .. Len(gops)
    BY <1>1, GopsAre DEF IInv
  <2>3. ASSUME NEW g \in 1 .. Len(gops), NEW n \in DOMAIN gops[g].frames, gops[g].frames[n] # 0
        PROVE  gops[g].frames[n] \in scenes <=> n = 1
    <3> DEFINE a == s[g] b == s[g + 1] l == Len(gops[g].frames)
    <3>1. a \in 0 .. cut /\ b \in 0 .. cut /\ cut \in Nat
      <4>1. g \in 1 .. Len(gops) + 1 /\ g + 1 \in 1 .. Len(gops) + 1
        BY <2>2
      <4>2. s[g] \in 0 .. cut /\ s[g + 1] \in 0 .. cut
        BY <2>1, <4>1
      <4> QED BY <2>2, <4>2 DEF TypeOK
    <3>2. l \in Nat /\ n \in 1 .. l
      BY <2>2, GopsAre, LenProperties
    <3>3. /\ a + l <= b /\ gops[g].frames = Interval(a, a + l)
          /\ \A f \in scenes : ~(a < f /\ f < b)
          /\ g > 1 /\ a < b => a \in scenes
      BY <2>1 DEF Bounds, GopInv
    <3>4. g = 1 => a = 0
      BY <2>1 DEF Bounds
    <3> HIDE DEF a, b, l
    <3>5. gops[g].frames[n] = a + n - 1
      <4> DEFINE c == a + l
      <4>1. c \in Nat /\ a \in Nat /\ a <= c /\ n \in 1 .. c - a
        BY <3>1, <3>2
      <4>2. gops[g].frames = Interval(a, c)
        BY <3>3
      <4> HIDE DEF c
      <4>3. \A i \in 1 .. c - a : Interval(a, c)[i] = a + i - 1
        BY <4>1, IntervalIs
      <4> QED BY <4>1, <4>2, <4>3
    <3>6. CASE n = 1
      <4>1. gops[g].frames[n] = a
        BY <3>1, <3>5, <3>6
      <4>2. a < b /\ g > 1
        <5>1. g # 1
          BY <2>3, <3>4, <4>1
        <5> QED BY <5>1, <2>2, <3>1, <3>2, <3>3
      <4> QED BY <3>3, <3>6, <4>1, <4>2
    <3>7. CASE n # 1
      <4>1. a < a + n - 1 /\ a + n - 1 < b
        BY <3>1, <3>2, <3>3, <3>7
      <4> QED BY <3>3, <3>5, <3>7, <4>1
    <3> QED BY <3>6, <3>7
  <2> QED BY <2>2, <2>3 DEF GopsAsDetected
<1> QED BY <1>1, Invariance, PTL

\* The reassembler ends behind the last packet.
LEMMA AllOut == ASSUME IInv, EndReassembler PROVE closed /\ Len(out) = sent
<1>1. /\ pending = {} /\ announced = <<>> /\ Dispatcher \in ended
  BY DEF EndReassembler, Closing
<1>2. closed /\ taken = sent /\ cut = taken /\ held = <<>> /\ subgops = <<>>
  BY <1>1 DEF IInv, EndInv
<1>3. PICK s \in [1 .. Len(gops) + 1 -> 0 .. cut] : Bounds(s)
  BY DEF IInv, PipeInv
<1>4. Len(gops) \in Nat /\ DOMAIN gops = 1 .. Len(gops) /\ last \in 1 .. Len(gops) + 1 /\ cut \in Nat
  BY GopsAre DEF IInv, TypeOK
<1>5. last = Len(gops) + 1
  <2>1. pending = last .. Len(gops) - Len(announced) /\ Len(announced) = 0
    BY <1>1, EmptySeq DEF IInv, ReadInv
  <2> DEFINE n == Len(gops)
  <2>2. last .. n = {} /\ n \in Nat /\ last \in 1 .. n + 1
    BY <1>1, <1>4, <2>1
  <2> HIDE DEF n
  <2>3. last = n + 1
    BY <2>2
  <2> QED BY <2>3 DEF n
<1>6. s[last] \in 0 .. cut
  BY <1>3, <1>4
<1>7. s[last] = cut
  <2>1. Chain(<<>>, s[last], cut, scenes, Starts)
    <3>1. subgops \o held = <<>>
      BY <1>2, EmptySeq, ConcatEmptySeq
    <3> QED BY <1>3, <1>5, <3>1 DEF Bounds
  <2>2. s[last] \in Nat
    BY <1>4, <1>6
  <2> QED BY <1>4, <2>1, <2>2, ChainEmpty
<1>8. last \notin DOMAIN gops
  BY <1>4, <1>5
<1>9. Len(out) = s[last] + 0
  BY <1>3, <1>8 DEF Bounds, OutInv
<1> QED BY <1>2, <1>4, <1>7, <1>9

\* The pipeline is a queue, whatever order its workers finish in: packets come
\* out in the order of their frames, each once, and the end comes behind the last.
THEOREM Implements == Spec => OrderSpec
<1>1. Init => Queue!Init
  BY DEF Init, Queue!Init
<1>2. ASSUME IInv, [Next]_vars PROVE [Queue!Next]_(Queue!vars)
  <2>1. CASE Send
    BY <2>1 DEF Send, Queue!Next, Queue!Accept, reassembler, jobs
  <2>2. CASE Close
    BY <2>2 DEF Close, Queue!Next, Queue!Close, reassembler, jobs
  <2>3. CASE ForwardPacket
    <3>1. out' = Append(out, Len(out)) /\ Len(out) < sent
      BY <1>2, <2>3, ForwardPacketInv
    <3> QED BY <2>3, <3>1 DEF ForwardPacket, Queue!Next, Queue!Deliver, jobs
  <2>4. CASE EndReassembler
    <3>1. closed /\ Len(out) = sent
      BY <1>2, <2>4, AllOut
    <3>2. Reassembler \in ended' /\ UNCHANGED <<sent, closed, out>>
      BY <2>4 DEF EndReassembler, Ends, reassembler
    <3> QED BY <3>1, <3>2 DEF Queue!Next, Queue!Announce
  <2>5. ASSUME NEW j \in 0 .. Slots + 1, Ends(j) PROVE (Reassembler \in ended)' = (Reassembler \in ended)
    BY <2>5 DEF Ends, Reassembler
  <2>6. CASE StartJob \/ TakeFrame \/ SplitRest \/ CutRest \/ SendSubGop \/ EndSplitter
    <3>1. UNCHANGED <<sent, closed, out>>
      BY <2>6 DEF StartJob, TakeFrame, SplitRest, CutRest, SendSubGop, EndSplitter, reassembler
    <3>2. ended' = ended \/ Ends(Splitter)
      BY <2>6 DEF StartJob, TakeFrame, SplitRest, CutRest, SendSubGop, EndSplitter, jobs
    <3> QED BY <2>5, <3>1, <3>2 DEF Queue!vars, Splitter
  <2>7. CASE DispatcherStep
    <3>1. UNCHANGED <<sent, closed, out>>
      BY <2>7 DEF DispatcherStep, GetWorker, Forward, EndDispatcher, reassembler
    <3>2. ended' = ended \/ Ends(Dispatcher)
      BY <2>7 DEF DispatcherStep, GetWorker, Forward, EndDispatcher, jobs
    <3> QED BY <2>5, <3>1, <3>2 DEF Queue!vars, Dispatcher
  <2>8. CASE TakeAnnounced \/ NextGop \/ CloseWorker
    BY <2>8 DEF TakeAnnounced, NextGop, CloseWorker, Queue!vars, reassembler, jobs
  <2>9. ASSUME NEW w \in Workers, Worker(w) PROVE [Queue!Next]_(Queue!vars)
    <3>1. UNCHANGED <<sent, closed, out>>
      BY <2>9 DEF Worker, TakeWorkload, TakeSubGop, EncodePacket, EndGop, reassembler
    <3>2. ended' = ended \/ Ends(w)
      BY <2>9 DEF Worker, TakeWorkload, TakeSubGop, EncodePacket, EndGop, jobs
    <3> QED BY <2>5, <3>1, <3>2 DEF Queue!vars, Workers
  <2>10. CASE UNCHANGED vars
    BY <2>10 DEF vars, Queue!vars, reassembler, jobs
  <2> QED BY <1>2, <2>1, <2>2, <2>3, <2>4, <2>6, <2>7, <2>8, <2>9, <2>10
          DEF Next, SplitterStep, ReassemblerStep
<1> QED BY <1>1, <1>2, Invariance, PTL DEF Spec, OrderSpec, Queue!Spec
=============================================================================
