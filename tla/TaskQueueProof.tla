--------------------------- MODULE TaskQueueProof ---------------------------
(***************************************************************************)
(* Proofs about TaskQueue, for every number of workers, frame contexts and *)
(* rows, and however many frames are submitted: as long as the frames are  *)
(* in order (ordered) the search of the workers overlooks no task          *)
(* (NoTaskMissed), and the cursor is where it should be (CursorSound); and *)
(* the clients of Orderly keep them in order.                              *)
(*                                                                         *)
(* The invariant is IInv, near the end.  UnitsOK: what a frame's tasks,    *)
(* queued and in hands, have to do with how far the frame is, so that some *)
(* task is there as long as the frame is not finished.  SearchOK: a ready  *)
(* task of the oldest frame is before the cursor only while somebody is    *)
(* about to move the cursor back; and where a cur_prev was left.  RingOK:  *)
(* the frames in progress lie in the ring in the order they were           *)
(* submitted, and how an orderly client goes round it.  SleepOK: who of    *)
(* the workers is awake.                                                   *)
(***************************************************************************)
EXTENDS TaskQueue, TLAPS, FiniteSetTheorems, WellFoundedInduction

(***************************************************************************)
(* The tasks of one frame.  Q are those that are queued, R, P and L those  *)
(* of workers that run one, have done the deblocking of one in rows, and   *)
(* are about to leave it; f is the frame.                                  *)
(***************************************************************************)
RowTasks == {DeblockRows(r) : r \in Rows}

ApartIn(Q, R, P, L) ==
  /\ Q \subseteq Tasks /\ R \subseteq Tasks /\ P \subseteq RowTasks /\ L \subseteq RowTasks
  /\ Q \cap R = {} /\ Q \cap P = {} /\ Q \cap L = {}
  /\ R \cap P = {} /\ R \cap L = {} /\ P \cap L = {}

StagesIn(A, f) ==
  /\ f.finished => A = {}
  /\ f.initDone => InitTask \notin A /\ InitCdf \notin A
  /\ ~ f.initDone => /\ f.tiles = 0 /\ f.deblock = 0 /\ f.done = {}
                     /\ A \subseteq {InitTask, InitCdf}
                     /\ ~ (InitTask \in A /\ InitCdf \in A)
  /\ \A r \in Rows : Tile(r) \in A => r = f.tiles

StartedIn(A, R, f, r) == DeblockCols(r) \in R \/ DeblockRows(r) \in A \/ r \in f.done

RowsIn(Q, R, P, L, f) ==
  /\ \A c, r \in Rows : DeblockCols(c) \in Q /\ StartedIn(Q \cup R \cup P \cup L, R, f, r) => r < c
  /\ \A c, d \in Rows : DeblockCols(c) \in Q /\ DeblockCols(d) \in Q => c = d
  /\ \A r \in Rows : StartedIn(Q \cup R \cup P \cup L, R, f, r) => r < f.tiles
  /\ \A r \in Rows : ~ (DeblockCols(r) \in R /\ DeblockRows(r) \in Q \cup R \cup P \cup L)
  /\ \A r \in Rows : DeblockCols(r) \in R \/ DeblockRows(r) \in Q => f.deblock <= r
  /\ \A r \in Rows : DeblockRows(r) \in R => f.deblock = r
  /\ \A r \in Rows : DeblockRows(r) \in P => r < f.deblock /\ r \notin f.done
  /\ \A r \in Rows : DeblockRows(r) \in L => r < f.deblock /\ r \in f.done
  /\ \A r \in f.done : r < f.deblock
  /\ f.deblock > 0 => \E r \in Rows : f.deblock = r + 1 /\ (DeblockRows(r) \in P \/ r \in f.done)

CountIn(L, f) ==
  /\ f.tiles = Sbh => f.cdf
  /\ f.finished /\ f.frame # 0 => f.done = Rows /\ f.cdf
  /\ ~ f.finished =>
       /\ f.counter >= 1
       /\ f.counter = Cardinality(Rows \ {r \in f.done : DeblockRows(r) \notin L})
                      + (IF f.tiles = Sbh THEN 0 ELSE 1)
       /\ f.held /\ f.frame # 0

AllIn(Q, A, R, f) ==
  ~ f.finished =>
    /\ ~ f.initDone => InitTask \in A \/ InitCdf \in A
    /\ f.initDone /\ f.tiles < Sbh => Tile(f.tiles) \in A
    /\ f.initDone => \A r \in Rows : StartedIn(A, R, f, r) \/ \E c \in 0 .. r : DeblockCols(c) \in Q

Unit(Q, R, P, L, f) ==
  /\ ApartIn(Q, R, P, L)
  /\ StagesIn(Q \cup R \cup P \cup L, f)
  /\ RowsIn(Q, R, P, L, f)
  /\ CountIn(L, f)

Whole(Q, R, P, L, f) == AllIn(Q, Q \cup R \cup P \cup L, R, f)

\* The tasks of a frame differ, and their rows and types are what they were made with.
LEMMA TaskFacts ==
  /\ InitTask \in Tasks /\ InitCdf \in Tasks /\ InitTask # InitCdf
  /\ \A r \in Rows : Tile(r) \in Tasks /\ DeblockCols(r) \in Tasks /\ DeblockRows(r) \in Tasks
  /\ \A t \in Tasks : \/ t = InitTask \/ t = InitCdf
                      \/ \E r \in Rows : t = Tile(r) \/ t = DeblockCols(r) \/ t = DeblockRows(r)
  /\ \A r \in Rows : /\ Tile(r) # InitTask /\ DeblockCols(r) # InitTask /\ DeblockRows(r) # InitTask
                     /\ Tile(r) # InitCdf /\ DeblockCols(r) # InitCdf /\ DeblockRows(r) # InitCdf
  /\ \A r, c \in Rows : /\ Tile(r) # DeblockCols(c) /\ Tile(r) # DeblockRows(c)
                        /\ DeblockCols(r) # DeblockRows(c)
                        /\ Tile(r) = Tile(c) => r = c
                        /\ DeblockCols(r) = DeblockCols(c) => r = c
                        /\ DeblockRows(r) = DeblockRows(c) => r = c
  /\ \A r \in Rows : /\ Tile(r).row = r /\ Tile(r).type = 2
                     /\ DeblockCols(r).row = r /\ DeblockCols(r).type = 3
                     /\ DeblockRows(r).row = r /\ DeblockRows(r).type = 4
  /\ InitTask.type = 0 /\ InitCdf.type = 1
<1>1. \A r : /\ Tile(r).row = r /\ Tile(r).type = 2
              /\ DeblockCols(r).row = r /\ DeblockCols(r).type = 3
              /\ DeblockRows(r).row = r /\ DeblockRows(r).type = 4
  BY DEF Tile, DeblockCols, DeblockRows
<1>2. InitTask.type = 0 /\ InitCdf.type = 1
  BY DEF InitTask, InitCdf
<1>3. InitTask \in Tasks /\ InitCdf \in Tasks
  BY DEF Tasks
<1>4. \A r \in Rows : Tile(r) \in Tasks /\ DeblockCols(r) \in Tasks /\ DeblockRows(r) \in Tasks
  BY DEF Tasks
<1>5. \A t \in Tasks : \/ t = InitTask \/ t = InitCdf
                       \/ \E r \in Rows : t = Tile(r) \/ t = DeblockCols(r) \/ t = DeblockRows(r)
  BY DEF Tasks
<1> QED
  BY <1>1, <1>2, <1>3, <1>4, <1>5

\* The rows are counted from 0, and there is one at least.
LEMMA RowFacts ==
  /\ Rows \subseteq Nat /\ \A r \in Rows : r < Sbh
  /\ Sbh \in Nat /\ Sbh > 0 /\ 0 \in Rows /\ Sbh - 1 \in Rows
  /\ \A r \in Rows : r + 1 < Sbh => r + 1 \in Rows
  /\ IsFiniteSet(Rows) /\ Cardinality(Rows) = Sbh
<1>1. 0 \in Int /\ Sbh - 1 \in Int /\ Sbh \in Nat /\ Sbh > 0
  BY SizeAssumption
<1>2. IsFiniteSet(0 .. Sbh - 1) /\ Cardinality(0 .. Sbh - 1) = Sbh
  BY <1>1, FS_Interval
<1> QED
  BY <1>1, <1>2 DEF Rows

\* A task is taken out of the queue; the next column of deblocking is put into it.
LEMMA UnitTake ==
  ASSUME NEW Q, NEW R, NEW P, NEW L, NEW f, NEW t, NEW N,
         Unit(Q, R, P, L, f), t \in Q, t \in Tasks,
         f.tiles \in Nat, f.deblock \in Nat, f.done \subseteq Rows,
         \A r \in Rows : t = DeblockRows(r) => f.deblock >= r,
         \A r \in Rows : t = DeblockCols(r) => f.tiles > r,
         N \subseteq Tasks, N # {} => \E r \in Rows : /\ t = DeblockCols(r) /\ r + 1 < Sbh
                                                    /\ N = {DeblockCols(r + 1)}
  PROVE  Unit((Q \ {t}) \cup N, R \cup {t}, P, L, f)
<1> DEFINE QQ == (Q \ {t}) \cup N
           RR == R \cup {t}
           A == Q \cup R \cup P \cup L
           AA == QQ \cup RR \cup P \cup L
<1>1. /\ ApartIn(Q, R, P, L) /\ StagesIn(A, f) /\ RowsIn(Q, R, P, L, f) /\ CountIn(L, f)
  BY DEF Unit
<1>2. \A u : u \in AA <=> u \in A \/ u \in N
  OBVIOUS
<1>3. \A u \in N : \E r \in Rows : /\ t = DeblockCols(r) /\ r + 1 \in Rows /\ u = DeblockCols(r + 1)
  BY RowFacts
<1>4. N \cap (R \cup P \cup L \cup Q) = {}
  <2> SUFFICES ASSUME NEW u \in N, u \in R \cup P \cup L \cup Q PROVE FALSE
    OBVIOUS
  <2>1. PICK r \in Rows : t = DeblockCols(r) /\ r + 1 \in Rows /\ u = DeblockCols(r + 1)
    BY <1>3
  <2>2. u \notin Q
    BY <1>1, <2>1, RowFacts DEF RowsIn
  <2>3. u \notin R
    BY <1>1, <2>1, RowFacts DEF RowsIn, StartedIn
  <2>4. u \notin P /\ u \notin L
    BY <1>1, <2>1, TaskFacts DEF ApartIn, RowTasks
  <2> QED
    BY <2>2, <2>3, <2>4
<1>5. ApartIn(QQ, RR, P, L)
  BY <1>1, <1>4, TaskFacts DEF ApartIn
<1>6. StagesIn(AA, f)
  <2>1. f.finished => AA = {}
    BY <1>1 DEF StagesIn
  <2>2. f.initDone => InitTask \notin AA /\ InitCdf \notin AA
    BY <1>1, <1>2, <1>3, TaskFacts DEF StagesIn
  <2>3. ~ f.initDone => N = {}
    BY <1>1, <1>3, TaskFacts DEF StagesIn
  <2>4. \A r \in Rows : Tile(r) \in AA => r = f.tiles
    BY <1>1, <1>2, <1>3, TaskFacts DEF StagesIn
  <2> HIDE DEF AA
  <2>5. ~ f.initDone => /\ f.tiles = 0 /\ f.deblock = 0 /\ f.done = {}
                        /\ AA \subseteq {InitTask, InitCdf}
                        /\ ~ (InitTask \in AA /\ InitCdf \in AA)
    BY <1>1, <1>2, <2>3 DEF StagesIn
  <2> QED
    BY <2>1, <2>2, <2>4, <2>5 DEF StagesIn
<1>7. \A r \in Rows : DeblockRows(r) \in AA <=> DeblockRows(r) \in A
  BY <1>2, <1>3, TaskFacts
<1>8. \A r \in Rows : StartedIn(AA, RR, f, r) => StartedIn(A, R, f, r) \/ t = DeblockCols(r)
  BY <1>7, TaskFacts DEF StartedIn
<1>9. RowsIn(QQ, RR, P, L, f)
  <2>1. \A c, r \in Rows : DeblockCols(c) \in QQ /\ StartedIn(AA, RR, f, r) => r < c
    <3> SUFFICES ASSUME NEW c \in Rows, NEW r \in Rows, DeblockCols(c) \in QQ,
                        StartedIn(AA, RR, f, r)
                 PROVE  r < c
      OBVIOUS
    <3>1. CASE DeblockCols(c) \in N
      <4>1. PICK p \in Rows : t = DeblockCols(p) /\ p + 1 \in Rows /\ DeblockCols(c) = DeblockCols(p + 1)
        BY <3>1, <1>3
      <4>2. c = p + 1
        BY <4>1, TaskFacts
      <4>3. r < p \/ r = p
        BY <4>1, <1>8, <1>1, TaskFacts DEF RowsIn
      <4> QED
        BY <4>2, <4>3, RowFacts
    <3>2. CASE DeblockCols(c) \notin N
      <4>1. DeblockCols(c) \in Q /\ DeblockCols(c) # t
        BY <3>2
      <4>2. t # DeblockCols(r)
        BY <4>1, <1>1 DEF RowsIn
      <4> QED
        BY <4>1, <4>2, <1>8, <1>1 DEF RowsIn
    <3> QED
      BY <3>1, <3>2
  <2>2. \A c, d \in Rows : DeblockCols(c) \in QQ /\ DeblockCols(d) \in QQ => c = d
    BY <1>3, <1>1, TaskFacts, RowFacts DEF RowsIn
  <2>3. \A r \in Rows : StartedIn(AA, RR, f, r) => r < f.tiles
    BY <1>8, <1>1 DEF RowsIn
  <2>4. \A r \in Rows : ~ (DeblockCols(r) \in RR /\ DeblockRows(r) \in AA)
    <3> SUFFICES ASSUME NEW r \in Rows, DeblockCols(r) \in RR, DeblockRows(r) \in AA PROVE FALSE
      OBVIOUS
    <3>1. DeblockRows(r) \in A
      BY <1>7
    <3>2. CASE DeblockCols(r) = t
      BY <1>1, <3>1, <3>2, RowFacts DEF RowsIn, StartedIn
    <3> QED
      BY <3>1, <3>2, <1>1 DEF RowsIn
  <2>5. \A r \in Rows : DeblockCols(r) \in RR \/ DeblockRows(r) \in QQ => f.deblock <= r
    <3> SUFFICES ASSUME NEW r \in Rows, DeblockCols(r) \in RR \/ DeblockRows(r) \in QQ
                 PROVE  f.deblock <= r
      OBVIOUS
    <3>1. CASE DeblockCols(r) = t
      <4>1. SUFFICES ASSUME f.deblock > 0 PROVE f.deblock <= r
        BY RowFacts
      <4>2. PICK p \in Rows : f.deblock = p + 1 /\ (DeblockRows(p) \in P \/ p \in f.done)
        BY <4>1, <1>1 DEF RowsIn
      <4>3. StartedIn(A, R, f, p) /\ DeblockCols(r) \in Q
        BY <4>2, <3>1 DEF StartedIn
      <4>4. p < r
        BY <4>3, <1>1 DEF RowsIn
      <4> QED
        BY <4>2, <4>4, RowFacts
    <3>2. DeblockRows(r) \notin N
      BY <1>3, TaskFacts
    <3> QED
      BY <3>1, <3>2, <1>1 DEF RowsIn
  <2>6. \A r \in Rows : DeblockRows(r) \in RR => f.deblock = r
    BY <1>1, RowFacts DEF RowsIn
  <2> QED
    BY <2>1, <2>2, <2>3, <2>4, <2>5, <2>6, <1>1 DEF RowsIn
<1> QED
  BY <1>1, <1>5, <1>6, <1>9 DEF Unit

\* ..., and the frame has all its tasks after that.
LEMMA WholeTake ==
  ASSUME NEW Q, NEW R, NEW P, NEW L, NEW f, NEW t, NEW N,
         Unit(Q, R, P, L, f), t \in Q, t \in Tasks,
         \A r \in Rows : t = DeblockCols(r) /\ r + 1 < Sbh => N = {DeblockCols(r + 1)},
         Whole(Q, R, P, L, f)
  PROVE  Whole((Q \ {t}) \cup N, R \cup {t}, P, L, f)
<1> DEFINE QQ == (Q \ {t}) \cup N
           RR == R \cup {t}
           A == Q \cup R \cup P \cup L
           AA == QQ \cup RR \cup P \cup L
<1>1. \A u \in A : u \in AA
  OBVIOUS
<1>2. AllIn(Q, A, R, f)
  BY DEF Whole
<1>3. SUFFICES ASSUME ~ f.finished, f.initDone, NEW r \in Rows
               PROVE  StartedIn(AA, RR, f, r) \/ \E c \in 0 .. r : DeblockCols(c) \in QQ
  BY <1>1, <1>2 DEF Whole, AllIn
<1>4. CASE StartedIn(A, R, f, r)
  BY <1>4, <1>1 DEF StartedIn
<1>5. CASE \E c \in 0 .. r : DeblockCols(c) \in Q
  <2>1. PICK c \in 0 .. r : DeblockCols(c) \in Q
    BY <1>5
  <2>2. c \in Rows
    BY <2>1, RowFacts, SizeAssumption DEF Rows
  <2>3. CASE DeblockCols(c) # t
    BY <2>1, <2>3
  <2>4. CASE DeblockCols(c) = t /\ c = r
    BY <2>4 DEF StartedIn
  <2>5. CASE DeblockCols(c) = t /\ c # r
    <3>1. c + 1 \in 0 .. r /\ c + 1 < Sbh
      BY <2>1, <2>2, <2>5, RowFacts, SizeAssumption DEF Rows
    <3>2. DeblockCols(c + 1) \in N
      BY <3>1, <2>2, <2>5
    <3> QED
      BY <3>1, <3>2
  <2> QED
    BY <2>3, <2>4, <2>5
<1> QED
  BY <1>2, <1>3, <1>4, <1>5 DEF AllIn

Frames == [frame : Nat, ref : Nat, initDone : BOOLEAN, tiles : 0 .. Sbh, deblock : 0 .. Sbh,
           done : SUBSET Rows, cdf : BOOLEAN, counter : 0 .. Sbh + 1, finished : BOOLEAN,
           held : BOOLEAN, error : BOOLEAN]

\* A flush drops tasks.
LEMMA UnitDrop ==
  ASSUME NEW Q, NEW R, NEW P, NEW L, NEW f, NEW QQ,
         Unit(Q, R, P, L, f), QQ \subseteq Q
  PROVE  Unit(QQ, R, P, L, f)
<1> DEFINE A == Q \cup R \cup P \cup L
           AA == QQ \cup R \cup P \cup L
<1>1. /\ ApartIn(Q, R, P, L) /\ StagesIn(A, f) /\ RowsIn(Q, R, P, L, f) /\ CountIn(L, f)
  BY DEF Unit
<1>2. AA \subseteq A
  OBVIOUS
<1>3. ApartIn(QQ, R, P, L)
  BY <1>1 DEF ApartIn
<1>4. StagesIn(AA, f)
  <2> HIDE DEF A, AA
  <2> QED
    BY <1>1, <1>2 DEF StagesIn
<1>5. \A r \in Rows : StartedIn(AA, R, f, r) => StartedIn(A, R, f, r)
  BY <1>2 DEF StartedIn
<1>6. RowsIn(QQ, R, P, L, f)
  BY <1>1, <1>2, <1>5 DEF RowsIn
<1> QED
  BY <1>1, <1>3, <1>4, <1>6 DEF Unit

\* Init goes on as InitCdf, or queues it.
LEMMA UnitInit ==
  ASSUME NEW Q, NEW R, NEW P, NEW L, NEW f, NEW QQ, NEW RR,
         Unit(Q, R, P, L, f), InitTask \in R, f \in Frames,
         \/ QQ = Q /\ RR = (R \ {InitTask}) \cup {InitCdf}
         \/ QQ = Q \cup {InitCdf} /\ RR = R \ {InitTask}
  PROVE  Unit(QQ, RR, P, L, f) /\ Whole(QQ, RR, P, L, f) /\ ~ f.finished /\ ~ f.initDone
<1> DEFINE A == Q \cup R \cup P \cup L
           AA == QQ \cup RR \cup P \cup L
<1>1. /\ ApartIn(Q, R, P, L) /\ StagesIn(A, f) /\ RowsIn(Q, R, P, L, f) /\ CountIn(L, f)
  BY DEF Unit
<1>2. ~ f.initDone /\ ~ f.finished /\ f.tiles = 0 /\ f.deblock = 0 /\ f.done = {}
  BY <1>1 DEF StagesIn, Frames
<1>3. A = {InitTask}
  BY <1>1, <1>2 DEF StagesIn
<1>4. AA = {InitCdf} /\ Q = {} /\ R = {InitTask} /\ P = {} /\ L = {}
  BY <1>1, <1>3, TaskFacts DEF ApartIn
<1>5. ApartIn(QQ, RR, P, L)
  BY <1>4, TaskFacts DEF ApartIn
<1>6. StagesIn(AA, f)
  BY <1>2, <1>4, TaskFacts DEF StagesIn
<1>7. \A r \in Rows : ~ StartedIn(AA, RR, f, r)
  BY <1>2, <1>4, TaskFacts DEF StartedIn
<1>8. RowsIn(QQ, RR, P, L, f)
  <2>1. \A r \in Rows : DeblockCols(r) \notin QQ /\ DeblockCols(r) \notin RR /\ DeblockRows(r) \notin AA
    BY <1>4, TaskFacts
  <2>2. \A r \in Rows : DeblockRows(r) \notin QQ /\ DeblockRows(r) \notin RR
                        /\ DeblockRows(r) \notin P /\ DeblockRows(r) \notin L
    BY <2>1
  <2> QED
    BY <1>2, <1>7, <2>1, <2>2 DEF RowsIn
<1>9. AllIn(QQ, AA, RR, f)
  BY <1>2, <1>4 DEF AllIn
<1> QED
  BY <1>1, <1>2, <1>5, <1>6, <1>8, <1>9 DEF Unit, Whole

\* What the tasks make of their frame.
Inited(f) == [f EXCEPT !.initDone = TRUE]
Tiled(f, n) == [f EXCEPT !.tiles = n]
Coded(f) == [f EXCEPT !.tiles = Sbh, !.cdf = TRUE, !.counter = @ - 1]
Deblocked(f, n) == [f EXCEPT !.deblock = n]
Published(f, r) == [f EXCEPT !.done = @ \cup {r}]

\* InitCdf queues the first tile and the first column of deblocking.
LEMMA UnitInitCdf ==
  ASSUME NEW Q, NEW R, NEW P, NEW L, NEW f, NEW g,
         Unit(Q, R, P, L, f), InitCdf \in R, f \in Frames, g = Inited(f)
  PROVE  LET QQ == Q \cup {Tile(0), DeblockCols(0)}
             RR == R \ {InitCdf}
         IN  Unit(QQ, RR, P, L, g) /\ Whole(QQ, RR, P, L, g) /\ ~ f.finished /\ g \in Frames
<1> DEFINE QQ == Q \cup {Tile(0), DeblockCols(0)}
           RR == R \ {InitCdf}
           A == Q \cup R \cup P \cup L
           AA == QQ \cup RR \cup P \cup L
<1>1. /\ ApartIn(Q, R, P, L) /\ StagesIn(A, f) /\ RowsIn(Q, R, P, L, f) /\ CountIn(L, f)
  BY DEF Unit
<1>2. ~ f.initDone /\ ~ f.finished /\ f.tiles = 0 /\ f.deblock = 0 /\ f.done = {}
  BY <1>1 DEF StagesIn, Frames
<1>3. A = {InitCdf}
  BY <1>1, <1>2 DEF StagesIn
<1>4. AA = {Tile(0), DeblockCols(0)} /\ QQ = AA /\ RR = {} /\ P = {} /\ L = {}
  BY <1>1, <1>3, TaskFacts DEF ApartIn
<1>5. /\ g.initDone /\ ~ g.finished /\ g.tiles = 0 /\ g.deblock = 0 /\ g.done = {}
      /\ g.cdf = f.cdf /\ g.counter = f.counter /\ g.held = f.held /\ g.frame = f.frame
      /\ g \in Frames
  BY <1>2 DEF Frames, Inited
<1>6. ApartIn(QQ, RR, P, L)
  BY <1>4, TaskFacts, RowFacts DEF ApartIn
<1>7. StagesIn(AA, g)
  BY <1>5, <1>4, TaskFacts, RowFacts DEF StagesIn
<1>8. \A r \in Rows : ~ StartedIn(AA, RR, g, r)
  BY <1>5, <1>4, TaskFacts, RowFacts DEF StartedIn
<1>9. RowsIn(QQ, RR, P, L, g)
  <2>1. \A r \in Rows : /\ DeblockCols(r) \notin RR /\ DeblockRows(r) \notin AA
                        /\ DeblockCols(r) \in QQ => r = 0
    BY <1>4, TaskFacts, RowFacts
  <2>2. \A r \in Rows : DeblockRows(r) \notin QQ /\ DeblockRows(r) \notin RR
                        /\ DeblockRows(r) \notin P /\ DeblockRows(r) \notin L
    BY <2>1
  <2>3. \A c, r \in Rows : DeblockCols(c) \in QQ /\ DeblockCols(r) \in QQ => c = r
    BY <2>1
  <2> HIDE DEF QQ, RR
  <2> QED
    BY ONLY <1>5, <1>8, <2>1, <2>2, <2>3 DEF RowsIn, AA
<1>10. AllIn(QQ, AA, RR, g)
  <2>1. \A r \in Rows : 0 \in 0 .. r
    BY RowFacts
  <2> QED
    BY <1>5, <1>4, <2>1 DEF AllIn
<1>11. CountIn(L, g)
  BY <1>1, <1>5, <1>2 DEF CountIn
<1> QED
  BY <1>2, <1>5, <1>6, <1>7, <1>9, <1>10, <1>11 DEF Unit, Whole

RowsAgree(Q, R, f, QQ, RR, g) ==
  /\ f \in Frames /\ g \in Frames
  /\ \A r \in Rows : /\ DeblockCols(r) \in QQ <=> DeblockCols(r) \in Q
                     /\ DeblockCols(r) \in RR <=> DeblockCols(r) \in R
                     /\ DeblockRows(r) \in QQ <=> DeblockRows(r) \in Q
                     /\ DeblockRows(r) \in RR <=> DeblockRows(r) \in R
  /\ g.deblock = f.deblock /\ g.done = f.done /\ f.tiles <= g.tiles

\* What a task of the tiles does leaves the rows of the deblocking alone.
LEMMA RowsSame ==
  ASSUME NEW Q, NEW R, NEW P, NEW L, NEW f, NEW QQ, NEW RR, NEW g,
         RowsIn(Q, R, P, L, f), RowsAgree(Q, R, f, QQ, RR, g)
  PROVE  /\ RowsIn(QQ, RR, P, L, g)
         /\ \A r \in Rows : StartedIn(QQ \cup RR \cup P \cup L, RR, g, r)
                              <=> StartedIn(Q \cup R \cup P \cup L, R, f, r)
<1> DEFINE A == Q \cup R \cup P \cup L
           AA == QQ \cup RR \cup P \cup L
<1>1. \A r \in Rows : DeblockRows(r) \in AA <=> DeblockRows(r) \in A
  BY DEF RowsAgree
<1>2. \A r \in Rows : StartedIn(AA, RR, g, r) <=> StartedIn(A, R, f, r)
  BY <1>1 DEF StartedIn, RowsAgree
<1>3. f.tiles \in Nat /\ g.tiles \in Nat /\ f.tiles <= g.tiles
  BY RowFacts DEF Frames, RowsAgree
<1> HIDE DEF AA, A
<1>4. \A c, r \in Rows : DeblockCols(c) \in QQ /\ StartedIn(AA, RR, g, r) => r < c
  BY <1>2 DEF RowsIn, A, RowsAgree
<1>5. \A r \in Rows : StartedIn(AA, RR, g, r) => r < g.tiles
  <2>1. \A r \in Rows : StartedIn(A, R, f, r) => r < f.tiles
    BY DEF RowsIn, A
  <2> QED
    BY <1>2, <1>3, <2>1, RowFacts
<1>6. \A r \in Rows : ~ (DeblockCols(r) \in RR /\ DeblockRows(r) \in AA)
  BY <1>1 DEF RowsIn, A, RowsAgree
<1>7. RowsIn(QQ, RR, P, L, g)
  BY <1>4, <1>5, <1>6 DEF RowsIn, AA, RowsAgree
<1> QED
  BY <1>2, <1>7 DEF A, AA

\* A row of tiles is decoded and the next one queued.
LEMMA UnitTile ==
  ASSUME NEW Q, NEW R, NEW P, NEW L, NEW f, NEW g, NEW r \in Rows,
         Unit(Q, R, P, L, f), Tile(r) \in R, f \in Frames, r + 1 < Sbh,
         g = Tiled(f, r + 1)
  PROVE  LET QQ == Q \cup {Tile(r + 1)}
             RR == R \ {Tile(r)}
         IN  /\ Unit(QQ, RR, P, L, g) /\ ~ f.finished /\ g \in Frames
             /\ Whole(Q, R, P, L, f) => Whole(QQ, RR, P, L, g)
<1> DEFINE QQ == Q \cup {Tile(r + 1)}
           RR == R \ {Tile(r)}
           A == Q \cup R \cup P \cup L
           AA == QQ \cup RR \cup P \cup L
<1>1. /\ ApartIn(Q, R, P, L) /\ StagesIn(A, f) /\ RowsIn(Q, R, P, L, f) /\ CountIn(L, f)
  BY DEF Unit
<1>2. Tile(r) \in A /\ r + 1 \in Rows
  BY RowFacts
<1>3. f.initDone /\ ~ f.finished /\ f.tiles = r
  BY <1>1, <1>2, TaskFacts DEF StagesIn, Frames
<1>4. /\ g.initDone /\ ~ g.finished /\ g.tiles = r + 1 /\ g.deblock = f.deblock /\ g.done = f.done
      /\ g.cdf = f.cdf /\ g.counter = f.counter /\ g.held = f.held /\ g.frame = f.frame
      /\ g \in Frames
  BY <1>3, RowFacts DEF Frames, Tiled
<1>5. r \in Nat /\ r + 1 # r /\ f.tiles # Sbh /\ g.tiles # Sbh
  BY <1>3, <1>4, RowFacts
<1>6. Tile(r + 1) \notin A
  BY <1>1, <1>2, <1>3, <1>5 DEF StagesIn
<1>7. ApartIn(QQ, RR, P, L)
  BY <1>1, <1>2, <1>6, TaskFacts DEF ApartIn
<1>8. StagesIn(AA, g)
  <2>1. InitTask \notin AA /\ InitCdf \notin AA
    BY <1>1, <1>2, <1>3, TaskFacts DEF StagesIn
  <2>2. \A q \in Rows : Tile(q) \in AA => q = r + 1
    <3> SUFFICES ASSUME NEW q \in Rows, Tile(q) \in AA, q # r + 1 PROVE FALSE
      OBVIOUS
    <3>1. Tile(q) # Tile(r + 1)
      BY <1>2, TaskFacts
    <3>2. Tile(q) \in A
      BY <3>1
    <3>3. q = r
      BY <3>2, <1>1, <1>3 DEF StagesIn
    <3> QED
      BY <3>1, <3>3, <1>1, <1>2 DEF ApartIn
  <2> HIDE DEF AA
  <2> QED
    BY <2>1, <2>2, <1>4 DEF StagesIn
<1>9. \A q \in Rows : /\ DeblockCols(q) \in QQ <=> DeblockCols(q) \in Q
                      /\ DeblockCols(q) \in RR <=> DeblockCols(q) \in R
                      /\ DeblockRows(q) \in QQ <=> DeblockRows(q) \in Q
                      /\ DeblockRows(q) \in RR <=> DeblockRows(q) \in R
  BY <1>2, TaskFacts
<1> HIDE DEF QQ, RR
<1>10. /\ RowsIn(QQ, RR, P, L, g)
       /\ \A q \in Rows : StartedIn(AA, RR, g, q) <=> StartedIn(A, R, f, q)
  <2>1. RowsAgree(Q, R, f, QQ, RR, g)
    BY <1>4, <1>3, <1>5, <1>9 DEF RowsAgree
  <2> QED
    BY <1>1, <2>1, RowsSame
<1>11. CountIn(L, g)
  BY <1>1, <1>3, <1>4, <1>5 DEF CountIn
<1>12. Unit(QQ, RR, P, L, g)
  BY <1>7, <1>8, <1>10, <1>11 DEF Unit
<1>13. Tile(r + 1) \in AA
  BY DEF QQ
<1>14. Whole(Q, R, P, L, f) => Whole(QQ, RR, P, L, g)
  <2> HIDE DEF A, AA
  <2> SUFFICES ASSUME AllIn(Q, A, R, f) PROVE AllIn(QQ, AA, RR, g)
    BY DEF Whole, A, AA
  <2>1. \A q \in Rows : StartedIn(AA, RR, g, q) \/ \E c \in 0 .. q : DeblockCols(c) \in QQ
    <3> SUFFICES ASSUME NEW q \in Rows, ~ StartedIn(AA, RR, g, q)
                 PROVE  \E c \in 0 .. q : DeblockCols(c) \in QQ
      OBVIOUS
    <3>1. PICK c \in 0 .. q : DeblockCols(c) \in Q
      BY <1>3, <1>10 DEF AllIn
    <3>2. DeblockCols(c) \in QQ
      BY <3>1 DEF QQ
    <3> QED
      BY <3>2
  <2> QED
    BY <2>1, <1>4, <1>13 DEF AllIn
<1> QED
  BY <1>3, <1>4, <1>12, <1>14 DEF QQ, RR

\* The last row of tiles: the CDF is there.
LEMMA UnitLastTile ==
  ASSUME NEW Q, NEW R, NEW P, NEW L, NEW f, NEW g, NEW r \in Rows,
         Unit(Q, R, P, L, f), Tile(r) \in R, f \in Frames, r + 1 = Sbh,
         g = Coded(f)
  PROVE  LET RR == R \ {Tile(r)}
         IN  /\ Unit(Q, RR, P, L, g) /\ ~ f.finished /\ g \in Frames
             /\ Whole(Q, R, P, L, f) => Whole(Q, RR, P, L, g)
<1> DEFINE RR == R \ {Tile(r)}
           A == Q \cup R \cup P \cup L
           AA == Q \cup RR \cup P \cup L
           left == {q \in f.done : DeblockRows(q) \notin L}
<1>1. /\ ApartIn(Q, R, P, L) /\ StagesIn(A, f) /\ RowsIn(Q, R, P, L, f) /\ CountIn(L, f)
  BY DEF Unit
<1>2. Tile(r) \in A
  BY RowFacts
<1>3. f.initDone /\ ~ f.finished /\ f.tiles = r
  BY <1>1, <1>2, TaskFacts DEF StagesIn, Frames
<1>4. r \notin f.done
  BY <1>1, <1>3, RowFacts DEF RowsIn, StartedIn
<1>5. IsFiniteSet(Rows \ left) /\ Cardinality(Rows \ left) >= 1
  <2>1. IsFiniteSet(Rows \ left)
    BY RowFacts, FS_Subset
  <2>2. Rows \ left # {}
    BY <1>4
  <2>3. Cardinality(Rows \ left) \in Nat /\ Cardinality(Rows \ left) # 0
    BY <2>1, <2>2, FS_CardinalityType, FS_EmptySet
  <2> QED
    BY <2>1, <2>3
<1>6. f.counter = Cardinality(Rows \ left) + 1 /\ f.held /\ f.frame # 0
  BY <1>1, <1>3, RowFacts DEF CountIn
<1>7. f.counter - 1 >= 1 /\ f.counter - 1 \in 0 .. Sbh + 1 /\ f.counter - 1 = Cardinality(Rows \ left)
  <2>1. f.counter \in 0 .. Sbh + 1 /\ Cardinality(Rows \ left) \in Nat
    BY <1>5, FS_CardinalityType DEF Frames
  <2> HIDE DEF left
  <2> QED
    BY <1>5, <1>6, <2>1, RowFacts
<1>8. /\ g.initDone /\ ~ g.finished /\ g.tiles = Sbh /\ g.deblock = f.deblock /\ g.done = f.done
      /\ g.cdf /\ g.counter = f.counter - 1 /\ g.held = f.held /\ g.frame = f.frame
      /\ g \in Frames
  <2> HIDE DEF left
  <2>1. Sbh \in 0 .. Sbh
    BY RowFacts
  <2> QED
    BY <1>3, <1>7, <2>1 DEF Frames, Coded
<1>9. ApartIn(Q, RR, P, L)
  BY <1>1 DEF ApartIn
<1>10. StagesIn(AA, g)
  <2>1. InitTask \notin AA /\ InitCdf \notin AA
    BY <1>1, <1>3 DEF StagesIn
  <2>2. \A q \in Rows : Tile(q) \notin AA
    <3> SUFFICES ASSUME NEW q \in Rows, Tile(q) \in AA PROVE FALSE
      OBVIOUS
    <3>1. q = r
      BY <1>1, <1>3 DEF StagesIn
    <3> QED
      BY <3>1, <1>1 DEF ApartIn
  <2> HIDE DEF AA
  <2> QED
    BY <2>1, <2>2, <1>8 DEF StagesIn
<1>11. \A q \in Rows : /\ DeblockCols(q) \in RR <=> DeblockCols(q) \in R
                       /\ DeblockRows(q) \in RR <=> DeblockRows(q) \in R
  BY TaskFacts
<1> HIDE DEF RR
<1>12. /\ RowsIn(Q, RR, P, L, g)
       /\ \A q \in Rows : StartedIn(AA, RR, g, q) <=> StartedIn(A, R, f, q)
  <2>1. RowsAgree(Q, R, f, Q, RR, g)
    BY <1>8, <1>3, <1>11, RowFacts DEF RowsAgree
  <2> QED
    BY <1>1, <2>1, RowsSame
<1>13. CountIn(L, g)
  BY <1>6, <1>7, <1>8 DEF CountIn
<1>14. Whole(Q, R, P, L, f) => Whole(Q, RR, P, L, g)
  <2> HIDE DEF A, AA
  <2> SUFFICES ASSUME AllIn(Q, A, R, f) PROVE AllIn(Q, AA, RR, g)
    BY DEF Whole, A, AA
  <2> QED
    BY <1>3, <1>8, <1>12, RowFacts DEF AllIn
<1> QED
  BY <1>3, <1>8, <1>9, <1>10, <1>12, <1>13, <1>14 DEF Unit, RR

\* A column is deblocked, and its rows follow at once or are queued.
LEMMA UnitCols ==
  ASSUME NEW Q, NEW R, NEW P, NEW L, NEW f, NEW QQ, NEW RR, NEW r \in Rows,
         Unit(Q, R, P, L, f), DeblockCols(r) \in R, f \in Frames,
         \/ QQ = Q \cup {DeblockRows(r)} /\ RR = R \ {DeblockCols(r)}
         \/ f.deblock >= r /\ QQ = Q /\ RR = (R \ {DeblockCols(r)}) \cup {DeblockRows(r)}
  PROVE  /\ Unit(QQ, RR, P, L, f) /\ ~ f.finished
         /\ Whole(Q, R, P, L, f) => Whole(QQ, RR, P, L, f)
<1> DEFINE A == Q \cup R \cup P \cup L
           AA == QQ \cup RR \cup P \cup L
           t == DeblockCols(r)
           u == DeblockRows(r)
<1>1. /\ ApartIn(Q, R, P, L) /\ StagesIn(A, f) /\ RowsIn(Q, R, P, L, f) /\ CountIn(L, f)
  BY DEF Unit
<1>2. t \in A /\ t \notin Q /\ t \notin P /\ t \notin L /\ t \in Tasks /\ u \in Tasks
  BY <1>1, TaskFacts DEF ApartIn
<1>3. u \notin A /\ f.deblock <= r /\ f.deblock \in Nat /\ r \in Nat
  BY <1>1, RowFacts DEF RowsIn, Frames
<1>4. \A v : v \in AA <=> (v \in A /\ v # t) \/ v = u
  BY <1>2, TaskFacts
<1>5. ApartIn(QQ, RR, P, L)
  BY <1>1, <1>2, <1>3 DEF ApartIn
<1>6. \A q \in Rows : /\ Tile(q) # u /\ InitTask # u /\ InitCdf # u /\ DeblockCols(q) # u
                      /\ DeblockRows(q) # t /\ (DeblockRows(q) = u => q = r)
                      /\ (DeblockCols(q) = t => q = r)
  BY TaskFacts
<1>7. f.initDone /\ ~ f.finished
  BY <1>1, <1>2, TaskFacts DEF StagesIn, Frames
<1>8. \A q \in Rows : StartedIn(AA, RR, f, q) <=> StartedIn(A, R, f, q)
  <2>1. \A q \in Rows : DeblockCols(q) \in RR <=> DeblockCols(q) \in R /\ q # r
    BY <1>6
  <2>2. \A q \in Rows : DeblockRows(q) \in AA <=> DeblockRows(q) \in A \/ q = r
    BY <1>4, <1>6
  <2> QED
    BY ONLY <2>1, <2>2, DeblockCols(r) \in R DEF StartedIn
<1>9. StagesIn(AA, f)
  BY ONLY <1>1, <1>4, <1>6, <1>7 DEF StagesIn
<1>10. /\ \A q \in Rows : DeblockCols(q) \in QQ <=> DeblockCols(q) \in Q
       /\ \A q \in Rows : DeblockCols(q) \in RR <=> DeblockCols(q) \in R /\ q # r
       /\ \A q \in Rows : DeblockRows(q) \in QQ => DeblockRows(q) \in Q \/ q = r
       /\ \A q \in Rows : DeblockRows(q) \in RR => DeblockRows(q) \in R \/ (q = r /\ f.deblock >= r)
       /\ \A q \in Rows : DeblockRows(q) \in AA => DeblockRows(q) \in A \/ q = r
  BY <1>4, <1>6
<1> HIDE DEF A, AA, t, u
<1>11. RowsIn(QQ, RR, P, L, f)
  <2>1. \A c, q \in Rows : DeblockCols(c) \in QQ /\ StartedIn(AA, RR, f, q) => q < c
    BY ONLY <1>1, <1>8, <1>10 DEF RowsIn, A
  <2>2. \A q \in Rows : ~ (DeblockCols(q) \in RR /\ DeblockRows(q) \in AA)
    BY ONLY <1>1, <1>10 DEF RowsIn, A
  <2>3. \A q \in Rows : DeblockCols(q) \in RR \/ DeblockRows(q) \in QQ => f.deblock <= q
    BY ONLY <1>1, <1>3, <1>10 DEF RowsIn
  <2>4. \A q \in Rows : DeblockRows(q) \in RR => f.deblock = q
    <3>1. f.deblock >= r => f.deblock = r
      BY <1>3
    <3> QED
      BY ONLY <1>1, <3>1, <1>10 DEF RowsIn
  <2>5. \A q \in Rows : StartedIn(AA, RR, f, q) => q < f.tiles
    BY ONLY <1>1, <1>8 DEF RowsIn, A
  <2> QED
    BY ONLY <1>1, <1>10, <2>1, <2>2, <2>3, <2>4, <2>5 DEF RowsIn, AA
<1>12. Unit(QQ, RR, P, L, f)
  BY <1>1, <1>5, <1>9, <1>11 DEF Unit, AA
<1>13. ASSUME AllIn(Q, A, R, f) PROVE AllIn(QQ, AA, RR, f)
  <2>1. f.tiles < Sbh => Tile(f.tiles) \in AA
    <3>1. SUFFICES ASSUME f.tiles < Sbh PROVE Tile(f.tiles) \in AA
      OBVIOUS
    <3>2. f.tiles \in Rows /\ Tile(f.tiles) \in A
      BY <3>1, <1>7, <1>13, RowFacts DEF AllIn, Frames, Rows
    <3> QED
      BY <3>2, <1>4, TaskFacts DEF t
  <2>2. \A q \in Rows : StartedIn(AA, RR, f, q) \/ \E c \in 0 .. q : DeblockCols(c) \in QQ
    <3> SUFFICES ASSUME NEW q \in Rows, ~ StartedIn(AA, RR, f, q)
                 PROVE  \E c \in 0 .. q : DeblockCols(c) \in QQ
      OBVIOUS
    <3>1. PICK c \in 0 .. q : DeblockCols(c) \in Q
      BY <1>7, <1>8, <1>13 DEF AllIn
    <3>2. DeblockCols(c) \in QQ
      BY <3>1
    <3> QED
      BY <3>2
  <2> QED
    BY <1>7, <2>1, <2>2 DEF AllIn
<1> QED
  BY <1>7, <1>12, <1>13 DEF Whole, A, AA

\* The rows are deblocked, and their worker moves the cursor back.
LEMMA UnitRows ==
  ASSUME NEW Q, NEW R, NEW P, NEW L, NEW f, NEW g, NEW r \in Rows,
         Unit(Q, R, P, L, f), DeblockRows(r) \in R, f \in Frames,
         g = Deblocked(f, r + 1)
  PROVE  LET RR == R \ {DeblockRows(r)}
             PP == P \cup {DeblockRows(r)}
         IN  /\ Unit(Q, RR, PP, L, g) /\ ~ f.finished /\ g \in Frames
             /\ Whole(Q, R, P, L, f) => Whole(Q, RR, PP, L, g)
<1> DEFINE t == DeblockRows(r)
           RR == R \ {t}
           PP == P \cup {t}
           A == Q \cup R \cup P \cup L
           AA == Q \cup RR \cup PP \cup L
<1>1. /\ ApartIn(Q, R, P, L) /\ StagesIn(A, f) /\ RowsIn(Q, R, P, L, f) /\ CountIn(L, f)
  BY DEF Unit
<1>2. t \in A /\ t \notin Q /\ t \notin P /\ t \notin L /\ t \in RowTasks
  BY <1>1 DEF ApartIn, RowTasks
<1>3. AA = A
  BY <1>2
<1>4. f.initDone /\ ~ f.finished
  BY <1>1, <1>2, TaskFacts DEF StagesIn, Frames
<1>5. /\ g.initDone = f.initDone /\ g.finished = f.finished /\ g.tiles = f.tiles
      /\ g.deblock = r + 1 /\ g.done = f.done /\ g.cdf = f.cdf /\ g.counter = f.counter
      /\ g.held = f.held /\ g.frame = f.frame /\ g \in Frames
  BY RowFacts DEF Frames, Deblocked
<1>6. f.deblock = r /\ r \in Nat /\ r \notin f.done
  BY <1>1, RowFacts DEF RowsIn
<1>7. ApartIn(Q, RR, PP, L)
  BY <1>1, <1>2 DEF ApartIn
<1>8. \A q \in Rows : /\ DeblockRows(q) \in RR <=> DeblockRows(q) \in R /\ q # r
                      /\ DeblockCols(q) \in RR <=> DeblockCols(q) \in R
                      /\ DeblockRows(q) \in PP <=> DeblockRows(q) \in P \/ q = r
  BY TaskFacts
<1> HIDE DEF RR, PP
<1>9. \A q \in Rows : StartedIn(A, RR, g, q) <=> StartedIn(A, R, f, q)
  BY ONLY <1>5, <1>8 DEF StartedIn
<1>10. RowsIn(Q, RR, PP, L, g)
  <2> HIDE DEF A, AA, t
  <2>1. \A c, q \in Rows : DeblockCols(c) \in Q /\ StartedIn(A, RR, g, q) => q < c
    BY ONLY <1>1, <1>9 DEF RowsIn, A
  <2>2. \A q \in Rows : StartedIn(A, RR, g, q) => q < g.tiles
    BY ONLY <1>1, <1>5, <1>9 DEF RowsIn, A
  <2>3. \A q \in Rows : ~ (DeblockCols(q) \in RR /\ DeblockRows(q) \in A)
    BY ONLY <1>1, <1>8 DEF RowsIn, A
  <2>4. \A q \in Rows : DeblockCols(q) \in RR \/ DeblockRows(q) \in Q => g.deblock <= q
    <3> SUFFICES ASSUME NEW q \in Rows, DeblockCols(q) \in RR \/ DeblockRows(q) \in Q
                 PROVE  r + 1 <= q
      BY <1>5
    <3>1. f.deblock <= q /\ q \in Nat
      BY <1>1, <1>8, RowFacts DEF RowsIn
    <3>2. q # r
      BY <1>1, <1>2, <1>8 DEF RowsIn, A, t
    <3> QED
      BY <3>1, <3>2, <1>6
  <2>5. \A q \in Rows : DeblockRows(q) \in RR => g.deblock = q
    BY ONLY <1>1, <1>6, <1>8 DEF RowsIn
  <2>6. \A q \in Rows : DeblockRows(q) \in PP => q < g.deblock /\ q \notin g.done
    <3> SUFFICES ASSUME NEW q \in Rows, DeblockRows(q) \in PP PROVE q < r + 1 /\ q \notin f.done
      BY <1>5
    <3>1. q = r \/ (q < f.deblock /\ q \notin f.done)
      BY <1>1, <1>8 DEF RowsIn
    <3> QED
      BY <3>1, <1>6, RowFacts
  <2>7. \A q \in Rows : DeblockRows(q) \in L => q < g.deblock /\ q \in g.done
    <3> SUFFICES ASSUME NEW q \in Rows, DeblockRows(q) \in L PROVE q < r + 1 /\ q \in f.done
      BY <1>5
    <3>1. q < f.deblock /\ q \in f.done
      BY <1>1 DEF RowsIn
    <3> QED
      BY <3>1, <1>6, RowFacts
  <2>8. \A q \in g.done : q < g.deblock
    <3>1. \A q \in f.done : q < f.deblock /\ q \in Rows
      BY <1>1 DEF RowsIn, Frames
    <3>2. g.done = f.done /\ g.deblock = r + 1 /\ f.deblock = r /\ r \in Nat
      BY <1>5, <1>6
    <3>3. \A q \in f.done : q \in Nat /\ q < r
      BY <3>1, <3>2, RowFacts
    <3>4. \A q \in f.done : q < r + 1
      BY ONLY <3>2, <3>3
    <3> QED
      BY ONLY <3>2, <3>4
  <2>9. g.deblock = r + 1 /\ DeblockRows(r) \in PP
    BY <1>5, <1>8
  <2> QED
    BY ONLY <1>1, <1>3, r \in Rows, <2>1, <2>2, <2>3, <2>4, <2>5, <2>6, <2>7, <2>8, <2>9 DEF RowsIn, AA, A
<1>11. StagesIn(AA, g) /\ CountIn(L, g)
  <2> HIDE DEF A, AA
  <2>1. StagesIn(AA, g)
    BY ONLY <1>1, <1>3, <1>4, <1>5 DEF StagesIn
  <2>2. CountIn(L, g)
    BY ONLY <1>1, <1>5 DEF CountIn
  <2> QED
    BY <2>1, <2>2
<1>12. ASSUME AllIn(Q, A, R, f) PROVE AllIn(Q, AA, RR, g)
  <2> HIDE DEF A, AA
  <2> QED
    BY ONLY <1>12, <1>3, <1>5, <1>9 DEF AllIn
<1> QED
  BY <1>4, <1>5, <1>7, <1>10, <1>11, <1>12 DEF Unit, Whole, RR, PP

\* The row is done.
LEMMA UnitPublish ==
  ASSUME NEW Q, NEW R, NEW P, NEW L, NEW f, NEW g, NEW r \in Rows,
         Unit(Q, R, P, L, f), DeblockRows(r) \in P, f \in Frames,
         g = Published(f, r)
  PROVE  LET PP == P \ {DeblockRows(r)}
             LL == L \cup {DeblockRows(r)}
         IN  /\ Unit(Q, R, PP, LL, g) /\ ~ f.finished /\ g \in Frames
             /\ Whole(Q, R, P, L, f) => Whole(Q, R, PP, LL, g)
<1> DEFINE t == DeblockRows(r)
           PP == P \ {t}
           LL == L \cup {t}
           A == Q \cup R \cup P \cup L
           AA == Q \cup R \cup PP \cup LL
<1>1. /\ ApartIn(Q, R, P, L) /\ StagesIn(A, f) /\ RowsIn(Q, R, P, L, f) /\ CountIn(L, f)
  BY DEF Unit
<1>2. t \in A /\ t \notin Q /\ t \notin R /\ t \notin L /\ t \in RowTasks
  BY <1>1 DEF ApartIn, RowTasks
<1>3. AA = A
  BY <1>2
<1>4. f.initDone /\ ~ f.finished
  BY <1>1, <1>2, TaskFacts DEF StagesIn, Frames
<1>5. /\ g.initDone = f.initDone /\ g.finished = f.finished /\ g.tiles = f.tiles
      /\ g.deblock = f.deblock /\ g.done = f.done \cup {r} /\ g.cdf = f.cdf
      /\ g.counter = f.counter /\ g.held = f.held /\ g.frame = f.frame /\ g \in Frames
  BY RowFacts DEF Frames, Published
<1>6. r < f.deblock /\ r \in Nat /\ r \notin f.done
  BY <1>1, RowFacts DEF RowsIn
<1>7. ApartIn(Q, R, PP, LL)
  BY <1>1, <1>2 DEF ApartIn
<1>8. \A q \in Rows : /\ DeblockRows(q) \in LL <=> DeblockRows(q) \in L \/ q = r
                      /\ DeblockRows(q) \in PP <=> DeblockRows(q) \in P /\ q # r
  BY TaskFacts
<1> HIDE DEF LL, PP
<1>9. \A q \in Rows : StartedIn(A, R, g, q) <=> StartedIn(A, R, f, q)
  BY ONLY <1>5, <1>2 DEF StartedIn, t
<1>10. RowsIn(Q, R, PP, LL, g)
  <2> HIDE DEF A, AA, t
  <2>1. \A c, q \in Rows : DeblockCols(c) \in Q /\ StartedIn(A, R, g, q) => q < c
    BY ONLY <1>1, <1>9 DEF RowsIn, A
  <2>2. \A q \in Rows : StartedIn(A, R, g, q) => q < g.tiles
    BY ONLY <1>1, <1>5, <1>9 DEF RowsIn, A
  <2>3. \A q \in Rows : ~ (DeblockCols(q) \in R /\ DeblockRows(q) \in A)
    BY ONLY <1>1 DEF RowsIn, A
  <2>4. \A q \in Rows : DeblockCols(q) \in R \/ DeblockRows(q) \in Q => g.deblock <= q
    BY ONLY <1>1, <1>5 DEF RowsIn
  <2>5. \A q \in Rows : DeblockRows(q) \in R => g.deblock = q
    BY ONLY <1>1, <1>5 DEF RowsIn
  <2>6. \A q \in Rows : DeblockRows(q) \in PP => q < g.deblock /\ q \notin g.done
    BY ONLY <1>1, <1>5, <1>8 DEF RowsIn
  <2>7. \A q \in Rows : DeblockRows(q) \in LL => q < g.deblock /\ q \in g.done
    BY ONLY <1>1, <1>5, <1>6, <1>8 DEF RowsIn
  <2>8. \A q \in g.done : q < g.deblock
    BY ONLY <1>1, <1>5, <1>6 DEF RowsIn
  <2>9. g.deblock > 0 => \E q \in Rows : g.deblock = q + 1 /\ (DeblockRows(q) \in PP \/ q \in g.done)
    BY ONLY <1>1, <1>5, <1>6, <1>8 DEF RowsIn
  <2> QED
    BY ONLY <1>3, <2>1, <2>2, <2>3, <2>4, <2>5, <2>6, <2>7, <2>8, <2>9, <1>1, <1>5 DEF RowsIn, AA, A
<1>11. StagesIn(AA, g) /\ CountIn(LL, g)
  <2> HIDE DEF A, AA
  <2>1. StagesIn(AA, g)
    BY ONLY <1>1, <1>3, <1>4, <1>5 DEF StagesIn
  <2>2. {q \in g.done : DeblockRows(q) \notin LL} = {q \in f.done : DeblockRows(q) \notin L}
    BY <1>5, <1>6, <1>8 DEF Frames
  <2>3. CountIn(LL, g)
    BY ONLY <1>1, <1>4, <1>5, <2>2 DEF CountIn
  <2> QED
    BY <2>1, <2>3
<1>12. ASSUME AllIn(Q, A, R, f) PROVE AllIn(Q, AA, R, g)
  <2> HIDE DEF A, AA
  <2> QED
    BY ONLY <1>12, <1>3, <1>5, <1>9 DEF AllIn
<1> QED
  BY <1>4, <1>5, <1>7, <1>10, <1>11, <1>12 DEF Unit, Whole, LL, PP

\* The worker leaves; the last one finishes the frame.
LEMMA UnitLeave ==
  ASSUME NEW Q, NEW R, NEW P, NEW L, NEW f, NEW g, NEW r \in Rows, NEW all \in BOOLEAN,
         Unit(Q, R, P, L, f), DeblockRows(r) \in L, f \in Frames,
         f.done = Rows => all,
         g = Count(f, all)
  PROVE  LET LL == L \ {DeblockRows(r)}
         IN  /\ Unit(Q, R, P, LL, g) /\ ~ f.finished /\ f.initDone /\ g \in Frames
             /\ g.finished => Q = {} /\ R = {} /\ P = {} /\ LL = {}
             /\ Whole(Q, R, P, L, f) => Whole(Q, R, P, LL, g)
<1> DEFINE t == DeblockRows(r)
           LL == L \ {t}
           A == Q \cup R \cup P \cup L
           AA == Q \cup R \cup P \cup LL
           left == {q \in f.done : DeblockRows(q) \notin L}
           left2 == {q \in f.done : DeblockRows(q) \notin LL}
<1>1. /\ ApartIn(Q, R, P, L) /\ StagesIn(A, f) /\ RowsIn(Q, R, P, L, f) /\ CountIn(L, f)
  BY DEF Unit
<1>2. t \in A /\ t \notin Q /\ t \notin R /\ t \notin P /\ t \in RowTasks
  BY <1>1 DEF ApartIn, RowTasks
<1>3. f.initDone /\ ~ f.finished
  BY <1>1, <1>2, TaskFacts DEF StagesIn, Frames
<1>4. r \in f.done /\ f.done \subseteq Rows
  BY <1>1 DEF RowsIn, Frames
<1>5. \A q \in Rows : DeblockRows(q) \in LL <=> DeblockRows(q) \in L /\ q # r
  BY TaskFacts
<1>6. left2 = left \cup {r} /\ r \notin left /\ left \subseteq Rows
  BY <1>4, <1>5
<1>7. /\ IsFiniteSet(Rows \ left) /\ r \in Rows \ left /\ Rows \ left2 = (Rows \ left) \ {r}
      /\ Cardinality(Rows \ left2) = Cardinality(Rows \ left) - 1
      /\ Cardinality(Rows \ left) \in Nat /\ Cardinality(Rows \ left) >= 1
  <2>1. IsFiniteSet(Rows \ left)
    BY RowFacts, FS_Subset
  <2>2. r \in Rows \ left /\ Rows \ left2 = (Rows \ left) \ {r}
    BY <1>6
  <2> HIDE DEF left, left2
  <2>3. Cardinality(Rows \ left2) = Cardinality(Rows \ left) - 1
    BY <2>1, <2>2, FS_RemoveElement
  <2>4. Cardinality(Rows \ left2) \in Nat /\ Cardinality(Rows \ left) \in Nat
    BY <2>1, <2>2, FS_Subset, FS_CardinalityType
  <2> QED
    BY <2>1, <2>2, <2>3, <2>4
<1>8. /\ f.counter = Cardinality(Rows \ left) + (IF f.tiles = Sbh THEN 0 ELSE 1)
      /\ f.held /\ f.frame # 0 /\ (f.tiles = Sbh => f.cdf)
  BY <1>1, <1>3 DEF CountIn
<1> HIDE DEF left, left2
<1>9. f.counter - 1 = Cardinality(Rows \ left2) + (IF f.tiles = Sbh THEN 0 ELSE 1)
  BY <1>7, <1>8
<1>10. f.counter \in Nat /\ f.counter >= 1 /\ f.counter - 1 \in 0 .. Sbh + 1
  BY <1>7, <1>8, RowFacts DEF Frames
<1>11. /\ g.initDone = f.initDone /\ g.finished = (f.counter = 1 /\ all) /\ g.tiles = f.tiles
       /\ g.deblock = f.deblock /\ g.done = f.done /\ g.cdf = f.cdf
       /\ g.counter = f.counter - 1 /\ g.held = f.held /\ g.frame = f.frame /\ g \in Frames
  BY <1>10 DEF Frames, Count
<1>12. f.counter = 1 => f.tiles = Sbh /\ left2 = Rows /\ f.done = Rows
  <2>1. SUFFICES ASSUME f.counter = 1 PROVE f.tiles = Sbh /\ left2 = Rows /\ f.done = Rows
    OBVIOUS
  <2>2. f.tiles = Sbh /\ Cardinality(Rows \ left2) = 0
    BY <2>1, <1>7, <1>8, <1>9
  <2>3. Rows \ left2 = {}
    BY <2>2, <1>7, FS_Subset, FS_EmptySet
  <2> QED
    BY <2>2, <2>3, <1>6, <1>4 DEF left, left2
<1>13. g.finished <=> f.counter = 1
  BY <1>11, <1>12
<1>14. ApartIn(Q, R, P, LL)
  BY <1>1 DEF ApartIn
<1>15. f.counter = 1 => AA = {}
  <2>1. SUFFICES ASSUME f.counter = 1, NEW u \in AA PROVE FALSE
    OBVIOUS
  <2>2. \A q \in Rows : q \in f.done /\ q < f.deblock /\ q < Sbh
    BY <1>12, <2>1, <1>1, RowFacts DEF RowsIn
  <2>3. \A q \in Rows : DeblockRows(q) \notin LL
    BY <1>12, <2>1 DEF left2
  <2>4. \A q \in Rows : DeblockRows(q) \notin P
    BY <2>2, <1>1 DEF RowsIn
  <2>5. f.deblock \in Nat
    BY RowFacts DEF Frames
  <2>6. \A q \in Rows : DeblockRows(q) \notin Q /\ DeblockCols(q) \notin R /\ DeblockRows(q) \notin R
    <3> SUFFICES ASSUME NEW q \in Rows PROVE ~ (f.deblock <= q) /\ f.deblock # q
      BY <1>1 DEF RowsIn
    <3> QED
      BY <2>2, <2>5, RowFacts
  <2>7. \A q \in Rows : DeblockCols(q) \notin Q
    <3> SUFFICES ASSUME NEW q \in Rows, DeblockCols(q) \in Q PROVE FALSE
      OBVIOUS
    <3>1. q < q
      BY <2>2, <1>1 DEF RowsIn, StartedIn
    <3> QED
      BY <3>1, RowFacts
  <2>8. \A q \in Rows : Tile(q) \notin A
    <3> SUFFICES ASSUME NEW q \in Rows, Tile(q) \in A PROVE FALSE
      OBVIOUS
    <3>1. q = Sbh
      BY <1>1, <1>12, <2>1 DEF StagesIn
    <3> QED
      BY <3>1, RowFacts
  <2>9. InitTask \notin A /\ InitCdf \notin A
    BY <1>1, <1>3 DEF StagesIn
  <2>10. u \in Tasks /\ u \in A /\ (u \in P \/ u \in LL => u \in RowTasks)
    BY <1>1, TaskFacts DEF ApartIn, RowTasks
  <2>11. u \notin P /\ u \notin LL
    BY <2>10, <2>3, <2>4 DEF RowTasks
  <2>12. u \in Q \/ u \in R
    BY <2>11
  <2> HIDE DEF A, AA
  <2> QED
    BY <2>12, <2>10, <2>6, <2>7, <2>8, <2>9, TaskFacts
<1>16. StagesIn(AA, g)
  <2>1. AA \subseteq A
    OBVIOUS
  <2> HIDE DEF A, AA
  <2> QED
    BY ONLY <1>1, <1>3, <1>11, <1>13, <1>15, <2>1 DEF StagesIn
<1>17. \A q \in Rows : StartedIn(AA, R, g, q) <=> StartedIn(A, R, f, q)
  <2>1. \A q \in Rows : DeblockRows(q) \in AA <=> DeblockRows(q) \in A /\ q # r
    BY <1>2, TaskFacts
  <2> HIDE DEF A, AA
  <2> QED
    BY ONLY <2>1, <1>4, <1>11 DEF StartedIn
<1>18. RowsIn(Q, R, P, LL, g)
  <2> HIDE DEF A, AA, t
  <2>1. \A c, q \in Rows : DeblockCols(c) \in Q /\ StartedIn(AA, R, g, q) => q < c
    BY ONLY <1>1, <1>17 DEF RowsIn, A
  <2>2. \A q \in Rows : StartedIn(AA, R, g, q) => q < g.tiles
    BY ONLY <1>1, <1>11, <1>17 DEF RowsIn, A
  <2>3. \A q \in Rows : ~ (DeblockCols(q) \in R /\ DeblockRows(q) \in AA)
    BY ONLY <1>1 DEF RowsIn, AA, LL
  <2>4. \A q \in Rows : DeblockRows(q) \in LL => q < g.deblock /\ q \in g.done
    BY ONLY <1>1, <1>5, <1>11 DEF RowsIn
  <2> HIDE DEF LL
  <2> QED
    BY ONLY <2>1, <2>2, <2>3, <2>4, <1>1, <1>11 DEF RowsIn, AA
<1>19. CountIn(LL, g)
  <2>1. ~ g.finished => f.counter - 1 >= 1
    BY <1>10, <1>13
  <2>2. {q \in g.done : DeblockRows(q) \notin LL} = left2
    BY <1>11 DEF left2
  <2>3. g.finished => g.done = Rows /\ g.cdf
    BY <1>8, <1>11, <1>12, <1>13
  <2> QED
    BY ONLY <2>1, <2>2, <2>3, <1>8, <1>9, <1>11 DEF CountIn
<1>20. ASSUME AllIn(Q, A, R, f) PROVE AllIn(Q, AA, R, g)
  <2>1. \A q \in Rows : Tile(q) \in A => Tile(q) \in AA
    BY TaskFacts
  <2>2. f.tiles < Sbh => f.tiles \in Rows
    BY RowFacts DEF Frames, Rows
  <2> HIDE DEF A, AA
  <2> QED
    BY ONLY <1>20, <2>1, <2>2, <1>3, <1>11, <1>17 DEF AllIn
<1>21. Unit(Q, R, P, LL, g)
  BY <1>14, <1>16, <1>18, <1>19 DEF Unit
<1>22. g.finished => Q = {} /\ R = {} /\ P = {} /\ LL = {}
  BY <1>13, <1>15
<1> QED
  BY <1>3, <1>11, <1>20, <1>21, <1>22 DEF Whole

\* A slot without a frame, or one whose frame was just submitted.
LEMMA UnitFresh ==
  ASSUME NEW f \in Frames, f.tiles = 0, f.deblock = 0, f.done = {}
  PROVE  /\ f.finished /\ f.initDone /\ f.frame = 0
              => Unit({}, {}, {}, {}, f) /\ Whole({}, {}, {}, {}, f)
         /\ ~ f.finished /\ ~ f.initDone /\ f.counter = 1 + Sbh /\ f.held /\ f.frame # 0
              => /\ Unit({InitTask}, {}, {}, {}, f) /\ Unit({}, {}, {}, {}, f)
                 /\ Whole({InitTask}, {}, {}, {}, f)
<1>1. \A Q, A : Q \subseteq {InitTask} /\ A = Q \cup {} \cup {} \cup {} =>
        /\ A = Q
        /\ ApartIn(Q, {}, {}, {})
        /\ \A r \in Rows : /\ ~ StartedIn(A, {}, f, r) /\ DeblockCols(r) \notin Q
                           /\ DeblockRows(r) \notin A
  BY TaskFacts DEF ApartIn, StartedIn
<1>2. \A Q : Q \subseteq {InitTask} => RowsIn(Q, {}, {}, {}, f)
  BY <1>1 DEF RowsIn
<1>3. f.finished /\ f.initDone /\ f.frame = 0 => StagesIn({}, f) /\ CountIn({}, f)
  BY RowFacts DEF StagesIn, CountIn
<1>4. \A Q : Q \subseteq {InitTask} /\ ~ f.finished /\ ~ f.initDone => StagesIn(Q, f)
  BY TaskFacts DEF StagesIn
<1>5. ~ f.finished /\ f.counter = 1 + Sbh /\ f.held /\ f.frame # 0 => CountIn({}, f)
  <2>1. Rows \ {r \in f.done : DeblockRows(r) \notin {}} = Rows
    OBVIOUS
  <2> QED
    BY <2>1, RowFacts DEF CountIn
<1>6. {InitTask} \cup {} \cup {} \cup {} = {InitTask} /\ {} \cup {} \cup {} \cup {} = {}
  OBVIOUS
<1> QED
  BY <1>1, <1>2, <1>3, <1>4, <1>5, <1>6 DEF Unit, Whole, AllIn

\* The picture of a finished frame is taken out.
TakenOut(f) == [f EXCEPT !.held = FALSE]
\* The frame is finished, and stays so.
LEMMA UnitTaken ==
  ASSUME NEW Q, NEW R, NEW P, NEW L, NEW f, NEW g,
         Unit(Q, R, P, L, f), f \in Frames, f.finished, g = TakenOut(f)
  PROVE  Unit(Q, R, P, L, g) /\ Whole(Q, R, P, L, g) /\ g \in Frames
<1>1. /\ g.initDone = f.initDone /\ g.finished = f.finished /\ g.tiles = f.tiles
      /\ g.deblock = f.deblock /\ g.done = f.done /\ g.cdf = f.cdf
      /\ g.counter = f.counter /\ g.frame = f.frame /\ g \in Frames
  BY DEF Frames, TakenOut
<1>2. StagesIn(Q \cup R \cup P \cup L, g)
  BY ONLY <1>1, Unit(Q, R, P, L, f) DEF Unit, StagesIn
<1>3. RowsIn(Q, R, P, L, g)
  BY ONLY <1>1, Unit(Q, R, P, L, f) DEF Unit, RowsIn, StartedIn
<1>4. CountIn(L, g)
  BY ONLY <1>1, f.finished, Unit(Q, R, P, L, f) DEF Unit, CountIn
<1> QED
  BY ONLY <1>1, <1>2, <1>3, <1>4, f.finished, Unit(Q, R, P, L, f) DEF Unit, Whole, AllIn

-----------------------------------------------------------------------------
(* The cursor. *)

Queues == [first : Slots, cur : 0 .. NFc, reset : 0 .. MAX, signaled : BOOLEAN,
           prev : [Slots -> Tasks \cup {NoTask, Gone}], list : [Slots -> SUBSET Tasks],
           pend : [Slots -> SUBSET Tasks]]

CursorOf(q) == q.first + q.cur

\* The remainder of what was divided.
LEMMA DivIs ==
  ASSUME NEW l \in Nat \ {0}, NEW n \in Nat, NEW x \in 0 .. l - 1
  PROVE  (l * n + x) % l = x
  OBVIOUS

\* A slot that lies a number of slots from another.
LEMMA ModIs ==
  ASSUME NEW a \in Slots, NEW k \in Slots
  PROVE  (a + k) % NFc = IF a + k < NFc THEN a + k ELSE a + k - NFc
<1>1. NFc \in Nat \ {0}
  BY SizeAssumption
<1>2. CASE a + k < NFc
  <2>1. a + k \in 0 .. NFc - 1 /\ NFc * 0 + (a + k) = a + k
    BY <1>1, <1>2 DEF Slots
  <2>2. (NFc * 0 + (a + k)) % NFc = a + k
    BY <1>1, <2>1, DivIs
  <2> QED
    BY <1>2, <2>1, <2>2
<1>3. CASE ~ (a + k < NFc)
  <2>1. a + k - NFc \in 0 .. NFc - 1 /\ NFc * 1 + (a + k - NFc) = a + k
    BY <1>1, <1>3 DEF Slots
  <2>2. (NFc * 1 + (a + k - NFc)) % NFc = a + k - NFc
    BY <1>1, <2>1, DivIs
  <2> QED
    BY <1>3, <2>1, <2>2
<1> QED
  BY <1>2, <1>3

\* The slots lie in a ring, from first on.
LEMMA RingFacts ==
  ASSUME NEW q, q \in Queues
  PROVE  /\ \A s \in Slots : /\ Ahead(q, s) \in Nat /\ s \in Nat
                             /\ q.first <= Ahead(q, s) /\ Ahead(q, s) < q.first + NFc
         /\ \A s, r \in Slots : Ahead(q, s) = Ahead(q, r) => s = r
         /\ \A k \in Slots : /\ (q.first + k) % NFc \in Slots
                             /\ Ahead(q, (q.first + k) % NFc) = q.first + k
         /\ \A s \in Slots : /\ Ahead(q, s) - q.first \in Slots
                             /\ (q.first + (Ahead(q, s) - q.first)) % NFc = s
         /\ q.cur < NFc => AtCursor(q) \in Slots /\ Ahead(q, AtCursor(q)) = CursorOf(q)
         /\ q.first \in Slots /\ q.first \in Nat /\ q.cur \in Nat /\ q.cur <= NFc /\ CursorOf(q) \in Nat
         /\ Ahead(q, q.first) = q.first
         /\ NFc \in Nat /\ NFc >= 2
<1>1. /\ q.first \in Slots /\ q.cur \in 0 .. NFc /\ NFc \in Nat /\ NFc >= 2
  BY SizeAssumption DEF Queues
<1>2. \A s \in Slots : /\ Ahead(q, s) \in Nat /\ s \in Nat
                       /\ q.first <= Ahead(q, s) /\ Ahead(q, s) < q.first + NFc
  BY <1>1 DEF Slots, Ahead
<1>3. \A s, r \in Slots : Ahead(q, s) = Ahead(q, r) => s = r
  BY <1>1 DEF Slots, Ahead
<1>4. ASSUME NEW k \in Slots
      PROVE  (q.first + k) % NFc \in Slots /\ Ahead(q, (q.first + k) % NFc) = q.first + k
  <2>1. (q.first + k) % NFc = IF q.first + k < NFc THEN q.first + k ELSE q.first + k - NFc
    BY <1>1, ModIs
  <2> QED
    BY <2>1, <1>1 DEF Slots, Ahead
<1>5. ASSUME NEW s \in Slots
      PROVE  Ahead(q, s) - q.first \in Slots /\ (q.first + (Ahead(q, s) - q.first)) % NFc = s
  <2>1. Ahead(q, s) - q.first \in Slots
    BY <1>1, <1>2 DEF Slots
  <2>2. /\ (q.first + (Ahead(q, s) - q.first)) % NFc \in Slots
        /\ Ahead(q, (q.first + (Ahead(q, s) - q.first)) % NFc) = q.first + (Ahead(q, s) - q.first)
    BY <2>1, <1>4
  <2>3. q.first + (Ahead(q, s) - q.first) = Ahead(q, s)
    BY <1>1, <1>2 DEF Slots
  <2> QED
    BY <2>1, <2>2, <2>3, <1>3
<1>6. q.cur < NFc => q.cur \in Slots
  BY <1>1 DEF Slots
<1>7. q.cur < NFc => AtCursor(q) \in Slots /\ Ahead(q, AtCursor(q)) = CursorOf(q)
  BY <1>4, <1>6 DEF AtCursor, CursorOf
<1>8. q.first \in Nat /\ q.cur \in Nat /\ q.cur <= NFc /\ CursorOf(q) \in Nat /\ Ahead(q, q.first) = q.first
  BY <1>1 DEF Slots, CursorOf, Ahead
<1> QED
  BY <1>1, <1>2, <1>3, <1>4, <1>5, <1>7, <1>8

\* A set of numbers that is not empty has a least element.
LEMMA MinFacts ==
  ASSUME NEW S, S \subseteq Nat, S # {}
  PROVE  Min(S) \in S /\ \A x \in S : Min(S) <= x
<1> DEFINE R == OpToRel(<, Nat)
<1>1. IsWellFoundedOn(R, Nat)
  BY NatLessThanWellFounded
<1>2. \E m \in S : \A k \in S : ~(<<k, m>> \in R)
  <2> HIDE DEF R
  <2> QED
    BY <1>1, WFMin
<1>3. PICK m \in S : \A k \in S : ~(<<k, m>> \in R)
  BY <1>2
<1>4. \A k \in S : ~(k < m)
  BY <1>3 DEF OpToRel
<1>5. \A k \in S : m <= k
  BY <1>4
<1> QED
  BY <1>5 DEF Min

\* The oldest of some frames.
LEMMA OldestFacts ==
  ASSUME NEW q, q \in Queues, NEW S, S \subseteq Slots, S # {}
  PROVE  Oldest(q, S) \in S /\ \A r \in S : Ahead(q, Oldest(q, S)) <= Ahead(q, r)
<1> DEFINE A == {Ahead(q, s) : s \in S}
<1>1. A \subseteq Nat /\ A # {}
  BY RingFacts
<1>2. Min(A) \in A /\ \A x \in A : Min(A) <= x
  <2> HIDE DEF A
  <2> QED
    BY <1>1, MinFacts
<1>3. \E s \in S : \A r \in S : Ahead(q, s) <= Ahead(q, r)
  BY <1>2
<1> QED
  BY <1>3 DEF Oldest

\* NextWithTask finds the first frame that has a task.
LEMMA NextFacts ==
  ASSUME NEW q, q \in Queues, NEW c \in 0 .. NFc
  PROVE  LET n == NextWithTask(q, c)
         IN  /\ n \in c .. NFc
             /\ \A s \in Slots : q.list[s] # {} /\ q.first + c <= Ahead(q, s) => q.first + n <= Ahead(q, s)
             /\ n < NFc => \E s \in Slots : q.list[s] # {} /\ Ahead(q, s) = q.first + n
<1> DEFINE K == {k \in c .. NFc - 1 : q.list[(q.first + k) % NFc] # {}}
           n == NextWithTask(q, c)
<1>1. NFc \in Nat /\ c \in Nat /\ c <= NFc
  BY SizeAssumption
<1>2. {NFc} \cup K \subseteq Nat
  BY <1>1
<1>3. n \in {NFc} \cup K /\ \A k \in {NFc} \cup K : n <= k
  BY <1>2, MinFacts DEF NextWithTask
<1>4. n \in c .. NFc
  BY <1>1, <1>3
<1>5. ASSUME NEW s \in Slots, q.list[s] # {}, q.first + c <= Ahead(q, s)
      PROVE  q.first + n <= Ahead(q, s)
  <2>1. /\ q.first + (Ahead(q, s) - q.first) = Ahead(q, s) /\ q.first \in Nat
        /\ Ahead(q, s) - q.first \in Slots /\ (q.first + (Ahead(q, s) - q.first)) % NFc = s
        /\ Ahead(q, s) \in Nat
    BY RingFacts
  <2>2. Ahead(q, s) - q.first \in c .. NFc - 1
    BY <2>1, <1>1, <1>5 DEF Slots
  <2>3. Ahead(q, s) - q.first \in K
    BY <2>1, <2>2, <1>5
  <2>4. n <= Ahead(q, s) - q.first
    BY <2>3, <1>3
  <2> QED
    BY <2>4, <2>1, <1>4
<1>6. ASSUME n < NFc PROVE \E s \in Slots : q.list[s] # {} /\ Ahead(q, s) = q.first + n
  <2>1. n \in K /\ n \in Slots
    BY <1>1, <1>3, <1>4, <1>6 DEF Slots
  <2>2. (q.first + n) % NFc \in Slots /\ Ahead(q, (q.first + n) % NFc) = q.first + n
    BY <2>1, RingFacts
  <2>3. q.list[(q.first + n) % NFc] # {}
    BY <2>1
  <2> QED
    BY <2>2, <2>3
<1> QED
  BY <1>4, <1>5, <1>6

Nowhere == [i \in Slots |-> NoTask]

\* The cursor stays, or it moves back to a task and no frame forgets one.  (s = MAX
\* stands for no frame.)
Stays(q, p, s) ==
  /\ p.cur = q.cur /\ p.prev = q.prev
  /\ s \in Slots => (q.cur = 0 /\ q.prev[q.first] = NoTask) \/ CursorOf(q) < Ahead(q, s)
Back(q, p, s) ==
  /\ p.prev = Nowhere
  /\ \A o \in Slots : q.list[o] # {} /\ Ahead(q, o) < CursorOf(p)
                         => /\ Ahead(q, o) < CursorOf(q)
                            /\ s \in Slots => Ahead(q, o) < Ahead(q, s)
  /\ s \in Slots /\ p.cur < NFc => \E o \in Slots : q.list[o] # {} /\ Ahead(q, o) = CursorOf(p)

\* What reset_task_cur does to a queue.
LEMMA ResetFacts ==
  ASSUME NEW q, q \in Queues, NEW s \in Slots \cup {MAX}
  PROVE  LET p == ResetTaskCur(q, s)
         IN  /\ p \in Queues /\ p.first = q.first /\ p.list = q.list /\ p.pend = q.pend
             /\ p.signaled = q.signaled
             /\ Stays(q, p, s) \/ Back(q, p, s)
             /\ ~ Moves(q, s) => Stays(q, p, s)
             /\ s = MAX => p.cur <= q.cur
<1> DEFINE p == ResetTaskCur(q, s)
           tg == Target(q, s)
<1>1. /\ q.first \in Nat /\ q.cur \in Nat /\ q.cur <= NFc /\ CursorOf(q) \in Nat /\ q.first < NFc
      /\ NFc \in Nat /\ NFc >= 2 /\ MAX \in Nat /\ MAX = 2 * NFc
  BY RingFacts DEF MAX, Slots
<1>2. MAX \notin Slots
  BY <1>1 DEF Slots
<1>3. Reset(q) \in Nat /\ (Reset(q) = MAX \/ q.first <= Reset(q)) /\ q.first <= Reset(q)
  <2>1. q.reset \in 0 .. MAX
    BY DEF Queues
  <2> QED
    BY <1>1, <2>1 DEF Reset
<1>4. ASSUME s \in Slots
      PROVE  /\ Min({Reset(q), Ahead(q, s)}) \in Nat /\ q.first <= Min({Reset(q), Ahead(q, s)})
             /\ Min({Reset(q), Ahead(q, s)}) <= Ahead(q, s)
             /\ Min({Reset(q), Ahead(q, s)}) \in {Reset(q), Ahead(q, s)}
  <2>1. Ahead(q, s) \in Nat /\ q.first <= Ahead(q, s)
    BY <1>4, RingFacts
  <2>2. {Reset(q), Ahead(q, s)} \subseteq Nat
    BY <2>1, <1>3
  <2>3. /\ Min({Reset(q), Ahead(q, s)}) \in {Reset(q), Ahead(q, s)}
        /\ \A x \in {Reset(q), Ahead(q, s)} : Min({Reset(q), Ahead(q, s)}) <= x
    BY <2>2, MinFacts
  <2> QED
    BY <2>1, <2>3, <1>3
<1>5. tg \in Nat /\ q.first <= tg
  BY <1>1, <1>2, <1>3, <1>4 DEF Target
<1>6. Moves(q, s) => tg <= CursorOf(q) /\ tg - q.first \in 0 .. NFc /\ tg - q.first <= q.cur
  BY <1>1, <1>5 DEF Moves, CursorOf
<1>7. CASE ~ Moves(q, s)
  <2>1. p = [q EXCEPT !.reset = MAX]
    BY <1>7 DEF ResetTaskCur
  <2>2. MAX \in 0 .. MAX
    BY <1>1
  <2>3. /\ p \in Queues /\ p.first = q.first /\ p.list = q.list /\ p.pend = q.pend
        /\ p.signaled = q.signaled /\ p.cur = q.cur /\ p.prev = q.prev
    BY <2>1, <2>2 DEF Queues
  <2>5. ASSUME s \in Slots
        PROVE  (q.cur = 0 /\ q.prev[q.first] = NoTask) \/ CursorOf(q) < Ahead(q, s)
    <3>1. SUFFICES ASSUME ~ (q.cur = 0 /\ q.prev[q.first] = NoTask) PROVE CursorOf(q) < Ahead(q, s)
      OBVIOUS
    <3>2. tg = Min({Reset(q), Ahead(q, s)})
      BY <3>1, <2>5, <1>2 DEF Target
    <3>3. tg <= Ahead(q, s) /\ ~ (tg <= CursorOf(q))
      BY <3>2, <1>4, <1>7, <2>5 DEF Moves, CursorOf
    <3>4. Ahead(q, s) \in Nat
      BY <2>5, RingFacts
    <3> QED
      BY <3>3, <3>4, <1>1, <1>5
  <2> QED
    BY <2>3, <2>5, <1>1, <1>7 DEF Stays
<1>8. CASE Moves(q, s) /\ s = MAX
  <2>1. p = [q EXCEPT !.reset = MAX, !.prev = Nowhere, !.cur = tg - q.first]
    BY <1>8 DEF ResetTaskCur, Nowhere
  <2>2. MAX \in 0 .. MAX
    BY <1>1
  <2>3. Nowhere \in [Slots -> Tasks \cup {NoTask, Gone}]
    BY DEF Nowhere
  <2>4. /\ p \in Queues /\ p.first = q.first /\ p.list = q.list /\ p.pend = q.pend
        /\ p.signaled = q.signaled /\ p.prev = Nowhere /\ p.cur = tg - q.first
    BY <2>1, <2>2, <2>3, <1>6, <1>8 DEF Queues
  <2>5. CursorOf(p) <= CursorOf(q) /\ CursorOf(p) \in Nat
    BY <2>4, <1>1, <1>5, <1>6, <1>8 DEF CursorOf
  <2>6. Back(q, p, s)
    <3>1. \A o \in Slots : Ahead(q, o) \in Nat
      BY RingFacts
    <3> QED
      BY <3>1, <2>4, <2>5, <1>1, <1>2, <1>8 DEF Back
  <2> QED
    BY <2>4, <2>6, <1>1, <1>6, <1>8
<1>9. CASE Moves(q, s) /\ s \in Slots
  <2> DEFINE n == NextWithTask(q, tg - q.first)
  <2>1. p = [q EXCEPT !.reset = MAX, !.prev = Nowhere, !.cur = n]
    BY <1>9, <1>2 DEF ResetTaskCur, Nowhere
  <2>2. MAX \in 0 .. MAX
    BY <1>1
  <2>3. Nowhere \in [Slots -> Tasks \cup {NoTask, Gone}]
    BY DEF Nowhere
  <2>4. /\ n \in tg - q.first .. NFc
        /\ \A o \in Slots : q.list[o] # {} /\ q.first + (tg - q.first) <= Ahead(q, o)
                              => q.first + n <= Ahead(q, o)
        /\ n < NFc => \E o \in Slots : q.list[o] # {} /\ Ahead(q, o) = q.first + n
    BY <1>6, <1>9, NextFacts
  <2> HIDE DEF n
  <2>5. n \in 0 .. NFc /\ q.first + (tg - q.first) = tg
    BY <2>4, <1>1, <1>5, <1>6, <1>9
  <2>6. /\ p \in Queues /\ p.first = q.first /\ p.list = q.list /\ p.pend = q.pend
        /\ p.signaled = q.signaled /\ p.prev = Nowhere /\ p.cur = n
    BY <2>1, <2>2, <2>3, <2>5 DEF Queues
  <2>7. CursorOf(p) = q.first + n
    BY <2>6 DEF CursorOf
  <2>8. ~ (q.cur = 0 /\ q.prev[q.first] = NoTask)
    BY <1>9, <1>1, <1>6 DEF Moves, Target, MAX, CursorOf
  <2>9. tg <= Ahead(q, s)
    BY <2>8, <1>2, <1>4, <1>9 DEF Target
  <2>10. ASSUME NEW o \in Slots, q.list[o] # {}, Ahead(q, o) < CursorOf(p)
         PROVE  Ahead(q, o) < CursorOf(q) /\ Ahead(q, o) < Ahead(q, s)
    <3>1. Ahead(q, o) \in Nat /\ Ahead(q, s) \in Nat
      BY <1>9, RingFacts
    <3>2. ~ (tg <= Ahead(q, o))
      BY <2>4, <2>5, <2>7, <2>10, <3>1, <1>1
    <3> QED
      BY <3>1, <3>2, <2>9, <1>1, <1>5, <1>6, <1>9
  <2>11. Back(q, p, s)
    BY <2>4, <2>6, <2>7, <2>10 DEF Back
  <2> QED
    BY <1>2, <1>9, <2>6, <2>11
<1> QED
  BY <1>7, <1>8, <1>9

(***************************************************************************)
(* What the search relies on, for a queue q and frames S.  sc: a worker    *)
(* goes through the frames.  post: the frames whose worker is about to     *)
(* move the cursor back.                                                   *)
(***************************************************************************)
ReadyOf(f, t) ==
  \/ \E r \in Rows : t = Tile(r) /\ f.tiles >= r
  \/ \E r \in Rows : t = DeblockCols(r) /\ f.tiles > r
  \/ \E r \in Rows : t = DeblockRows(r) /\ f.deblock >= r

More(q, S, m) == q.list[m] # {} \/ q.pend[m] # {} \/ ~ S[m].initDone

\* A frame that will move the cursor back to the frames behind it.
Anchor(q, S, m) ==
  /\ m \in Slots /\ ~ S[m].finished
  /\ Ahead(q, m) < CursorOf(q) \/ (Ahead(q, m) = CursorOf(q) /\ More(q, S, m))

\* A cur_prev is left only in frames that the cursor has not got to because of an anchor.
Skew(q, S, sc) ==
  \A s \in Slots : q.prev[s] # NoTask =>
    /\ S[s].finished => \E m \in Slots : Anchor(q, S, m) /\ Ahead(q, m) < Ahead(q, s)
    /\ ~ S[s].finished /\ CursorOf(q) < Ahead(q, s) => sc \/ \E m \in Slots : Anchor(q, S, m)

OverIn(q, s, t) ==
  Ahead(q, s) < CursorOf(q) \/ (q.prev[s] # NoTask /\ ~ Before(q.prev[s], t))

IsFirst(q, S, s) ==
  s \in Slots /\ ~ S[s].finished /\ \A r \in Slots : ~ S[r].finished => Ahead(q, s) <= Ahead(q, r)

\* A ready task of the oldest frame that the search is past will be found all the same.
Old(q, S, post) ==
  \A s \in Slots : IsFirst(q, S, s) =>
    /\ q.prev[s] = Gone => q.list[s] = {}
    /\ \A t \in q.list[s] : ReadyOf(S[s], t) /\ OverIn(q, s, t) => q.pend[s] # {} \/ s \in post

Listed(q, S) == \A s \in Slots : S[s].finished => q.list[s] = {} /\ q.pend[s] = {}

\* The marks of cur_prev are no tasks.
LEMMA NoneFacts ==
  NoTask # Gone /\ NoTask \notin Tasks /\ Gone \notin Tasks
<1>1. NoTask.type = 5 /\ NoTask.row = 0 /\ Gone.type = 5 /\ Gone.row = Sbh
  BY DEF NoTask, Gone
<1>2. \A t \in Tasks : t.type # 5
  BY TaskFacts
<1> QED
  BY <1>1, <1>2, RowFacts

\* More workers that will move the cursor back do no harm.
LEMMA OldMonotone ==
  ASSUME NEW q, NEW S, NEW post, NEW post2, Old(q, S, post), post \subseteq post2
  PROVE  Old(q, S, post2)
  BY DEF Old

\* The indexes of the frames are numbers, and first has the smallest.
LEMMA AheadNat ==
  ASSUME NEW q, q \in Queues
  PROVE  /\ CursorOf(q) \in Nat /\ q.first \in Nat /\ q.cur \in Nat
         /\ \A s \in Slots : Ahead(q, s) \in Nat /\ q.first <= Ahead(q, s)
         /\ \A s \in Slots : s # q.first => q.first < Ahead(q, s)
<1>1. \A s \in Slots : s # q.first => Ahead(q, s) # q.first
  BY RingFacts
<1> QED
  BY <1>1, RingFacts

\* The frames, s being g.
With(S, s, g) == [S EXCEPT ![s] = g]

\* Only one of the frames changes.
LEMMA WithFacts ==
  ASSUME NEW S, S \in [Slots -> Frames], NEW s \in Slots, NEW g \in Frames
  PROVE  LET T == With(S, s, g)
         IN  /\ T \in [Slots -> Frames] /\ T[s] = g
             /\ \A x \in Slots : x # s => T[x] = S[x]
  BY DEF With

\* Under ttd.lock a worker changes its frame and moves the cursor back to it.
LEMMA SearchReset ==
  ASSUME NEW q, q \in Queues, NEW S, S \in [Slots -> Frames], NEW post, NEW s \in Slots,
         Skew(q, S, FALSE), Old(q, S, post), Listed(q, S),
         NEW g \in Frames, ~ S[s].finished,
         g.finished => q.list[s] = {} /\ q.pend[s] = {} /\ S[s].initDone,
         ~ g.finished => g.initDone = S[s].initDone
  PROVE  LET p == ResetTaskCur(q, s)
             T == With(S, s, g)
         IN  Skew(p, T, FALSE) /\ Old(p, T, post \ {s})
<1> DEFINE p == ResetTaskCur(q, s)
           T == With(S, s, g)
<1>1. /\ p \in Queues /\ p.first = q.first /\ p.list = q.list /\ p.pend = q.pend
      /\ Stays(q, p, s) \/ Back(q, p, s)
  BY ResetFacts
<1>2. T[s] = g /\ \A r \in Slots : r # s => T[r] = S[r]
  BY WithFacts
<1> HIDE DEF p, T
<1>3. \A r \in Slots : Ahead(p, r) = Ahead(q, r)
  BY <1>1 DEF Ahead
<1>4. /\ CursorOf(q) \in Nat /\ CursorOf(p) \in Nat /\ q.first \in Nat /\ q.cur \in Nat
      /\ \A r \in Slots : Ahead(q, r) \in Nat /\ q.first <= Ahead(q, r)
      /\ \A r \in Slots : r # q.first => q.first < Ahead(q, r)
  BY <1>1, AheadNat
<1>5. CASE Stays(q, p, s)
  <2>1. p.cur = q.cur /\ p.prev = q.prev /\ CursorOf(p) = CursorOf(q)
    BY <1>1, <1>5 DEF Stays, CursorOf
  <2>2. (q.cur = 0 /\ q.prev[q.first] = NoTask) \/ CursorOf(q) < Ahead(q, s)
    BY <1>5 DEF Stays
  <2>3. CursorOf(q) <= Ahead(q, s)
    BY <2>2, <1>4 DEF CursorOf
  <2>4. g.finished => ~ Anchor(q, S, s)
    BY <2>3, <1>4 DEF Anchor, More
  <2>5. q.prev[s] # NoTask => CursorOf(q) < Ahead(q, s)
    BY <2>2, <1>4 DEF CursorOf
  <2>6. \A m \in Slots : Anchor(q, S, m) => Anchor(p, T, m)
    <3> SUFFICES ASSUME NEW m \in Slots, Anchor(q, S, m) PROVE Anchor(p, T, m)
      OBVIOUS
    <3>1. ~ T[m].finished
      BY <1>2, <2>4 DEF Anchor
    <3>2. More(q, S, m) => More(p, T, m)
      BY <1>1, <1>2, <3>1 DEF More
    <3> QED
      BY <3>1, <3>2, <2>1, <1>3 DEF Anchor
  <2>7. Skew(p, T, FALSE)
    <3> SUFFICES ASSUME NEW x \in Slots, q.prev[x] # NoTask
                 PROVE  /\ T[x].finished => \E m \in Slots : Anchor(p, T, m) /\ Ahead(p, m) < Ahead(p, x)
                        /\ ~ T[x].finished /\ CursorOf(p) < Ahead(p, x) => \E m \in Slots : Anchor(p, T, m)
      BY <2>1 DEF Skew
    <3>1. CASE x # s
      BY <3>1, <1>2, <1>3, <2>1, <2>6 DEF Skew
    <3>2. CASE x = s
      <4>1. PICK m \in Slots : Anchor(q, S, m)
        BY <3>2, <2>5 DEF Skew
      <4>2. Ahead(q, m) < Ahead(q, s)
        BY <4>1, <3>2, <2>5, <1>4 DEF Anchor
      <4> QED
        BY <3>2, <4>1, <4>2, <2>6, <1>3
    <3> QED
      BY <3>1, <3>2
  <2>8. Old(p, T, post \ {s})
    <3> SUFFICES ASSUME NEW x \in Slots, IsFirst(p, T, x)
                 PROVE  /\ q.prev[x] = Gone => q.list[x] = {}
                        /\ \A t \in q.list[x] : ReadyOf(T[x], t) /\ OverIn(q, x, t)
                                                  => q.pend[x] # {} \/ x \in post \ {s}
      BY <2>1, <1>1, <1>3 DEF Old, OverIn
    <3>1. CASE IsFirst(q, S, x) /\ x # s
      BY <3>1, <1>2 DEF Old
    <3>2. CASE IsFirst(q, S, x) /\ x = s
      <4>1. q.prev[x] = NoTask
        <5> SUFFICES ASSUME q.prev[x] # NoTask PROVE FALSE
          OBVIOUS
        <5>1. PICK m \in Slots : Anchor(q, S, m)
          BY <3>2, <2>5 DEF Skew
        <5> QED
          BY <5>1, <3>2, <2>5, <1>4 DEF Anchor, IsFirst
      <4> QED
        BY <3>2, <4>1, <2>3, <1>4, NoneFacts DEF OverIn
    <3>3. CASE ~ IsFirst(q, S, x)
      <4>1. PICK r \in Slots : ~ S[r].finished /\ ~ (Ahead(q, x) <= Ahead(q, r))
        BY <3>3, <1>2, <1>3 DEF IsFirst
      <4>2. r = s /\ g.finished /\ x # s /\ Ahead(q, s) < Ahead(q, x)
        BY <4>1, <1>2, <1>3, <1>4 DEF IsFirst
      <4>3. \A m \in Slots : ~ S[m].finished => Ahead(q, s) <= Ahead(q, m)
        <5> SUFFICES ASSUME NEW m \in Slots, ~ S[m].finished, m # s PROVE Ahead(q, s) <= Ahead(q, m)
          BY <1>4
        <5>1. Ahead(q, x) <= Ahead(q, m)
          BY <1>2, <1>3 DEF IsFirst
        <5> QED
          BY <5>1, <4>2, <1>4
      <4>4. q.prev[x] = NoTask
        <5> SUFFICES ASSUME q.prev[x] # NoTask PROVE FALSE
          OBVIOUS
        <5>1. ~ S[x].finished /\ CursorOf(q) < Ahead(q, x)
          BY <4>2, <1>2, <2>3, <1>4 DEF IsFirst
        <5>2. PICK m \in Slots : Anchor(q, S, m)
          BY <5>1 DEF Skew
        <5>3. Ahead(q, m) <= CursorOf(q) /\ Ahead(q, s) <= Ahead(q, m)
          BY <5>2, <4>3, <1>4 DEF Anchor
        <5>4. Ahead(q, m) = Ahead(q, s)
          BY <5>3, <2>3, <1>4
        <5>5. m = s
          BY <5>4, RingFacts
        <5> QED
          BY <5>2, <5>5, <2>4, <4>2
      <4> QED
        BY <4>2, <4>4, <2>3, <1>4, NoneFacts DEF OverIn
    <3> QED
      BY <3>1, <3>2, <3>3
  <2> QED
    BY <2>7, <2>8 DEF p, T
<1>6. CASE Back(q, p, s)
  <2>1. \A r \in Slots : p.prev[r] = NoTask
    BY <1>6 DEF Back, Nowhere
  <2>2. Skew(p, T, FALSE)
    BY <2>1 DEF Skew
  <2>3. Old(p, T, post \ {s})
    <3>1. SUFFICES ASSUME NEW x \in Slots, IsFirst(p, T, x), NEW t \in q.list[x],
                          ReadyOf(T[x], t), OverIn(p, x, t)
                   PROVE  q.pend[x] # {} \/ x \in post \ {s}
      BY <2>1, <1>1, NoneFacts DEF Old
    <3>2. Ahead(q, x) < CursorOf(q) /\ Ahead(q, x) < Ahead(q, s)
      BY <3>1, <2>1, <1>3, <1>6 DEF OverIn, Back
    <3>3. x # s
      BY <3>2, <1>4
    <3>4. IsFirst(q, S, x)
      BY <3>1, <3>2, <3>3, <1>2, <1>3, <1>4 DEF IsFirst
    <3> QED
      BY <3>1, <3>2, <3>3, <3>4, <1>2 DEF Old, OverIn
  <2> QED
    BY <2>2, <2>3 DEF p, T
<1> QED
  BY <1>1, <1>5, <1>6

\* A worker looks only at what was left in reset_task_cur.
LEMMA SearchLook ==
  ASSUME NEW q, q \in Queues, NEW S, S \in [Slots -> Frames], NEW post, NEW sc \in BOOLEAN,
         Skew(q, S, sc), Old(q, S, post), sc => q.cur = NFc
  PROVE  LET p == ResetTaskCur(q, MAX)
         IN  Skew(p, S, FALSE) /\ Old(p, S, post)
<1> DEFINE p == ResetTaskCur(q, MAX)
<1>1. /\ p \in Queues /\ p.first = q.first /\ p.list = q.list /\ p.pend = q.pend
      /\ Stays(q, p, MAX) \/ Back(q, p, MAX)
  BY ResetFacts
<1> HIDE DEF p
<1>3. \A r \in Slots : Ahead(p, r) = Ahead(q, r)
  BY <1>1 DEF Ahead
<1>4. /\ CursorOf(q) \in Nat /\ CursorOf(p) \in Nat /\ q.first \in Nat /\ q.cur \in Nat
      /\ \A r \in Slots : Ahead(q, r) \in Nat /\ q.first <= Ahead(q, r)
  BY <1>1, AheadNat
<1>5. CASE Stays(q, p, MAX)
  <2>1. p.cur = q.cur /\ p.prev = q.prev /\ CursorOf(p) = CursorOf(q)
    BY <1>1, <1>5 DEF Stays, CursorOf
  <2>2. \A m \in Slots : Anchor(p, S, m) <=> Anchor(q, S, m)
    BY <2>1, <1>1, <1>3 DEF Anchor, More
  <2>3. ASSUME sc, NEW r \in Slots PROVE ~ (CursorOf(q) < Ahead(q, r))
    <3>1. Ahead(q, r) < q.first + NFc
      BY RingFacts
    <3> QED
      BY <3>1, <2>3, <1>4 DEF CursorOf
  <2>4. Skew(p, S, FALSE)
    BY <2>1, <2>2, <2>3, <1>3 DEF Skew
  <2>5. Old(p, S, post)
    BY <2>1, <1>1, <1>3 DEF Old, OverIn, IsFirst
  <2> QED
    BY <2>4, <2>5 DEF p
<1>6. CASE Back(q, p, MAX)
  <2>1. \A r \in Slots : p.prev[r] = NoTask
    BY <1>6 DEF Back, Nowhere
  <2>2. Skew(p, S, FALSE)
    BY <2>1 DEF Skew
  <2>3. Old(p, S, post)
    <3>1. SUFFICES ASSUME NEW x \in Slots, IsFirst(p, S, x), NEW t \in q.list[x],
                          ReadyOf(S[x], t), OverIn(p, x, t)
                   PROVE  q.pend[x] # {} \/ x \in post
      BY <2>1, <1>1, NoneFacts DEF Old
    <3>2. Ahead(q, x) < CursorOf(q)
      BY <3>1, <2>1, <1>3, <1>6 DEF OverIn, Back
    <3>3. IsFirst(q, S, x)
      BY <3>1, <1>3 DEF IsFirst
    <3> QED
      BY <3>1, <3>2, <3>3 DEF Old, OverIn
  <2> QED
    BY <2>2, <2>3 DEF p
<1> QED
  BY <1>1, <1>5, <1>6

\* merge_pending without the move of the cursor.
LEMMA MergedFacts ==
  ASSUME NEW q, q \in Queues
  PROVE  LET M == Merged(q)
         IN  /\ M \in Queues /\ M.first = q.first /\ M.cur = q.cur /\ M.prev = q.prev
             /\ M.signaled = q.signaled /\ M.reset = q.reset
             /\ \A s \in Slots : /\ M.pend[s] = {}
                                 /\ flush => M.list[s] = q.list[s]
                                 /\ ~ flush => M.list[s] = q.list[s] \cup q.pend[s]
  BY DEF Queues, Merged

\* merge_pending: what it leaves, ...
LEMMA MergeFacts ==
  ASSUME NEW q, q \in Queues
  PROVE  LET p == MergePending(q)
         IN  /\ p \in Queues /\ p.first = q.first /\ p.signaled = q.signaled
             /\ \A s \in Slots : /\ p.pend[s] = {}
                                 /\ flush => p.list[s] = q.list[s]
                                 /\ ~ flush => p.list[s] = q.list[s] \cup q.pend[s]
<1> DEFINE p == MergePending(q)
           M == Merged(q)
           P == {s \in Slots : q.pend[s] # {}}
<1>1. /\ M \in Queues /\ M.first = q.first /\ M.signaled = q.signaled
      /\ \A s \in Slots : /\ M.pend[s] = {}
                          /\ flush => M.list[s] = q.list[s]
                          /\ ~ flush => M.list[s] = q.list[s] \cup q.pend[s]
  BY MergedFacts
<1>2. CASE P = {}
  <2>1. p = q
    BY <1>2 DEF MergePending
  <2>2. \A s \in Slots : q.pend[s] = {}
    BY <1>2
  <2> QED
    BY <2>1, <2>2
<1>3. CASE P # {} /\ flush
  BY <1>1, <1>3 DEF MergePending
<1>4. CASE P # {} /\ ~ flush
  <2>1. p = ResetTaskCur(M, Oldest(q, P))
    BY <1>4 DEF MergePending
  <2>2. Oldest(q, P) \in Slots
    BY <1>4, OldestFacts
  <2> HIDE DEF M
  <2>3. /\ p \in Queues /\ p.first = M.first /\ p.list = M.list /\ p.pend = M.pend
        /\ p.signaled = M.signaled
    BY <1>1, <2>1, <2>2, ResetFacts
  <2> QED
    BY <1>1, <1>4, <2>3
<1> QED
  BY <1>2, <1>3, <1>4

\* ..., and that no task is lost by it.
LEMMA SearchMerge ==
  ASSUME NEW q, q \in Queues, NEW S, S \in [Slots -> Frames], NEW post,
         Skew(q, S, FALSE), Old(q, S, post), Listed(q, S), ~ flush
  PROVE  LET p == MergePending(q)
         IN  Skew(p, S, FALSE) /\ Old(p, S, post) /\ Listed(p, S)
<1> DEFINE p == MergePending(q)
           M == Merged(q)
           P == {s \in Slots : q.pend[s] # {}}
           o == Oldest(q, P)
<1>1. /\ M \in Queues /\ M.first = q.first /\ M.cur = q.cur /\ M.prev = q.prev
      /\ \A s \in Slots : M.pend[s] = {} /\ M.list[s] = q.list[s] \cup q.pend[s]
  BY MergedFacts
<1>2. CASE P = {}
  <2>1. p = q
    BY <1>2 DEF MergePending
  <2> QED
    BY <2>1
<1>3. CASE P # {}
  <2>1. p = ResetTaskCur(M, o)
    BY <1>3 DEF MergePending
  <2>2. /\ o \in Slots /\ q.pend[o] # {}
        /\ \A r \in Slots : q.pend[r] # {} => Ahead(q, o) <= Ahead(q, r)
    <3> HIDE DEF P
    <3>1. P \subseteq Slots
      BY DEF P
    <3>2. o \in P /\ \A r \in P : Ahead(q, o) <= Ahead(q, r)
      BY <1>3, <3>1, OldestFacts
    <3> QED
      BY <3>2 DEF P
  <2> HIDE DEF M, o, p
  <2>3. /\ p \in Queues /\ p.first = M.first /\ p.list = M.list /\ p.pend = M.pend
        /\ Stays(M, p, o) \/ Back(M, p, o)
    BY <1>1, <2>1, <2>2, ResetFacts
  <2>4. \A r \in Slots : Ahead(p, r) = Ahead(q, r) /\ Ahead(M, r) = Ahead(q, r)
    BY <1>1, <2>3 DEF Ahead
  <2>5. /\ CursorOf(q) \in Nat /\ CursorOf(p) \in Nat /\ q.first \in Nat /\ q.cur \in Nat
        /\ \A r \in Slots : Ahead(q, r) \in Nat /\ q.first <= Ahead(q, r)
        /\ \A r \in Slots : r # q.first => q.first < Ahead(q, r)
        /\ CursorOf(M) = CursorOf(q)
    BY <1>1, <2>3, AheadNat DEF CursorOf
  <2>6. Listed(p, S)
    BY <1>1, <2>3 DEF Listed
  <2>7. \A x \in Slots : q.pend[x] # {} => ~ S[x].finished
    BY DEF Listed
  <2>8. CASE Stays(M, p, o)
    <3>1. /\ p.cur = q.cur /\ p.prev = q.prev /\ CursorOf(p) = CursorOf(q)
          /\ (q.cur = 0 /\ q.prev[q.first] = NoTask) \/ CursorOf(q) < Ahead(q, o)
      BY <1>1, <2>2, <2>3, <2>4, <2>5, <2>8 DEF Stays, CursorOf
    <3>2. CursorOf(q) <= Ahead(q, o)
      BY <2>2, <2>5, <3>1 DEF CursorOf
    <3>3. \A m \in Slots : Anchor(q, S, m) => Anchor(p, S, m)
      <4>1. \A m \in Slots : More(q, S, m) => More(p, S, m)
        BY <1>1, <2>3 DEF More
      <4> QED
        BY <4>1, <2>4, <3>1 DEF Anchor
    <3>4. Skew(p, S, FALSE)
      BY <2>4, <3>1, <3>3 DEF Skew
    <3>5. Old(p, S, post)
      <4> SUFFICES ASSUME NEW x \in Slots, IsFirst(q, S, x)
                   PROVE  /\ q.prev[x] = Gone => p.list[x] = {}
                          /\ \A t \in p.list[x] : ReadyOf(S[x], t) /\ OverIn(q, x, t)
                                                    => p.pend[x] # {} \/ x \in post
        BY <2>4, <3>1 DEF Old, OverIn, IsFirst
      <4>1. CASE q.pend[x] = {}
        BY <4>1, <1>1, <2>3 DEF Old
      <4>2. CASE q.pend[x] # {}
        <5>1. ~ S[o].finished /\ Ahead(q, x) <= Ahead(q, o) /\ Ahead(q, o) <= Ahead(q, x)
          BY <2>2, <2>7, <4>2 DEF IsFirst
        <5>2. x = o
          <6>1. Ahead(q, x) = Ahead(q, o)
            BY <5>1, <2>2, <2>5
          <6> QED
            BY <6>1, <2>2, RingFacts
        <5>3. q.prev[x] = NoTask
          <6> SUFFICES ASSUME q.prev[x] # NoTask PROVE FALSE
            OBVIOUS
          <6>1. CursorOf(q) < Ahead(q, x)
            BY <5>2, <3>1, <2>5, <2>2 DEF CursorOf
          <6>2. PICK m \in Slots : Anchor(q, S, m)
            BY <6>1, <2>7, <4>2 DEF Skew
          <6> QED
            BY <6>1, <6>2, <2>5 DEF Anchor, IsFirst
        <5> QED
          BY <5>2, <5>3, <3>2, <2>5, NoneFacts DEF OverIn
      <4> QED
        BY <4>1, <4>2
    <3> QED
      BY <2>6, <3>4, <3>5 DEF p
  <2>9. CASE Back(M, p, o)
    <3>1. \A r \in Slots : p.prev[r] = NoTask
      BY <2>9 DEF Back, Nowhere
    <3>2. Skew(p, S, FALSE)
      BY <3>1 DEF Skew
    <3>3. Old(p, S, post)
      <4>1. SUFFICES ASSUME NEW x \in Slots, IsFirst(p, S, x), NEW t \in p.list[x],
                            ReadyOf(S[x], t), OverIn(p, x, t)
                     PROVE  x \in post
        BY <3>1, NoneFacts DEF Old
      <4>2. Ahead(q, x) < CursorOf(q) /\ Ahead(q, x) < Ahead(q, o)
        BY <4>1, <3>1, <2>2, <2>3, <2>4, <2>5, <2>9 DEF OverIn, Back
      <4>3. q.pend[x] = {} /\ t \in q.list[x]
        BY <4>1, <4>2, <2>2, <2>3, <2>5, <1>1
      <4>4. IsFirst(q, S, x)
        BY <4>1, <2>4 DEF IsFirst
      <4> QED
        BY <4>1, <4>2, <4>3, <4>4 DEF Old, OverIn
    <3> QED
      BY <2>6, <3>2, <3>3 DEF p
  <2> QED
    BY <2>3, <2>8, <2>9
<1> QED
  BY <1>2, <1>3

\* The search takes the first task of a frame.
LEMMA SearchFound ==
  ASSUME NEW q, q \in Queues, NEW S, S \in [Slots -> Frames], NEW post, NEW s \in Slots, NEW t \in Tasks,
         Skew(q, S, FALSE), Old(q, S, post), q.list[s] = {t}, ~ S[s].finished, ~ S[s].initDone,
         NEW p, p \in Queues, p.first = q.first, p.cur = q.cur, p.pend = q.pend,
         p.list[s] = {}, p.prev[s] # NoTask => q.prev[s] # NoTask,
         \A x \in Slots : x # s => p.list[x] = q.list[x] /\ p.prev[x] = q.prev[x]
  PROVE  Skew(p, S, FALSE) /\ Old(p, S, post)
<1>1. /\ p.list[s] = {} /\ \A x \in Slots : x # s => p.list[x] = q.list[x] /\ p.prev[x] = q.prev[x]
      /\ p.prev[s] # NoTask => q.prev[s] # NoTask
  OBVIOUS
<1>2. CursorOf(p) = CursorOf(q) /\ \A r \in Slots : Ahead(p, r) = Ahead(q, r)
  BY DEF CursorOf, Ahead
<1>3. \A m \in Slots : More(q, S, m) => More(p, S, m)
  BY <1>1 DEF More
<1>4. \A m \in Slots : Anchor(q, S, m) => Anchor(p, S, m)
  BY <1>2, <1>3 DEF Anchor
<1>5. Skew(p, S, FALSE)
  BY <1>1, <1>2, <1>4 DEF Skew
<1>6. Old(p, S, post)
  <2> SUFFICES ASSUME NEW x \in Slots, IsFirst(q, S, x), x # s
               PROVE  /\ p.prev[x] = Gone => p.list[x] = {}
                      /\ \A u \in p.list[x] : ReadyOf(S[x], u) /\ OverIn(p, x, u)
                                                => p.pend[x] # {} \/ x \in post
    BY <1>1, <1>2 DEF Old, IsFirst
  <2> QED
    BY <1>1, <1>2 DEF Old, OverIn
<1> QED
  BY <1>5, <1>6

\* A worker queues what follows its task.
LEMMA SearchPend ==
  ASSUME NEW q, q \in Queues, NEW S, S \in [Slots -> Frames], NEW post, NEW s \in Slots, NEW sc,
         Skew(q, S, sc), Old(q, S, post), NEW g \in Frames, ~ S[s].finished, ~ g.finished,
         NEW ts, ts # {}
  PROVE  LET p == AddPending(q, s, ts)
             T == With(S, s, g)
         IN  Skew(p, T, sc) /\ Old(p, T, post)
<1> DEFINE p == AddPending(q, s, ts)
           T == With(S, s, g)
<1>1. /\ p.first = q.first /\ p.cur = q.cur /\ p.list = q.list /\ p.prev = q.prev
      /\ p.pend[s] # {} /\ \A x \in Slots : x # s => p.pend[x] = q.pend[x]
  BY DEF Queues, AddPending
<1>2. CursorOf(p) = CursorOf(q) /\ \A r \in Slots : Ahead(p, r) = Ahead(q, r)
  BY <1>1 DEF CursorOf, Ahead
<1>3. T[s] = g /\ \A x \in Slots : /\ x # s => T[x] = S[x]
                                   /\ T[x].finished <=> S[x].finished
  BY WithFacts DEF Frames
<1> HIDE DEF p, T
<1>4. \A m \in Slots : More(q, S, m) => More(p, T, m)
  BY <1>1, <1>3 DEF More
<1>5. \A m \in Slots : Anchor(q, S, m) => Anchor(p, T, m)
  BY <1>2, <1>3, <1>4 DEF Anchor
<1>6. Skew(p, T, sc)
  BY <1>1, <1>2, <1>3, <1>5 DEF Skew
<1>7. Old(p, T, post)
  <2> SUFFICES ASSUME NEW x \in Slots, IsFirst(q, S, x)
               PROVE  /\ p.prev[x] = Gone => p.list[x] = {}
                      /\ \A u \in p.list[x] : ReadyOf(T[x], u) /\ OverIn(p, x, u)
                                                => p.pend[x] # {} \/ x \in post
    BY <1>2, <1>3 DEF Old, IsFirst
  <2>1. CASE x = s
    BY <2>1, <1>1 DEF Old
  <2>2. CASE x # s
    BY <2>2, <1>1, <1>2, <1>3 DEF Old, OverIn
  <2> QED
    BY <2>1, <2>2
<1> QED
  BY <1>6, <1>7 DEF p, T

\* A frame changes whose worker is about to move the cursor back.
LEMMA SearchSlot ==
  ASSUME NEW q, q \in Queues, NEW S, S \in [Slots -> Frames], NEW post, NEW s \in Slots, NEW sc,
         Skew(q, S, sc), Old(q, S, post), NEW g \in Frames, ~ S[s].finished, ~ g.finished,
         g.initDone = S[s].initDone, NEW post2, s \in post2, post \subseteq post2
  PROVE  LET T == With(S, s, g)
         IN  Skew(q, T, sc) /\ Old(q, T, post2)
<1> DEFINE T == With(S, s, g)
<1>1. T[s] = g /\ \A x \in Slots : /\ x # s => T[x] = S[x]
                                   /\ T[x].finished <=> S[x].finished
                                   /\ T[x].initDone <=> S[x].initDone
  BY WithFacts DEF Frames
<1> HIDE DEF T
<1>2. \A m \in Slots : Anchor(q, S, m) => Anchor(q, T, m)
  BY <1>1 DEF Anchor, More
<1>3. Skew(q, T, sc)
  BY <1>1, <1>2 DEF Skew
<1>4. Old(q, T, post2)
  <2> SUFFICES ASSUME NEW x \in Slots, IsFirst(q, S, x)
               PROVE  /\ q.prev[x] = Gone => q.list[x] = {}
                      /\ \A u \in q.list[x] : ReadyOf(T[x], u) /\ OverIn(q, x, u)
                                                => q.pend[x] # {} \/ x \in post2
    BY <1>1 DEF Old, IsFirst
  <2>1. CASE x = s
    BY <2>1 DEF Old
  <2>2. CASE x # s
    BY <2>2, <1>1 DEF Old
  <2> QED
    BY <2>1, <2>2
<1> QED
  BY <1>3, <1>4 DEF T

\* The tasks of a list are in one order.
LEMMA BeforeFacts ==
  /\ \A t \in Tasks : ~ Before(t, t)
  /\ \A t, u \in Tasks : t = u \/ Before(t, u) \/ Before(u, t)
  /\ \A t, u, v \in Tasks : Before(t, u) /\ Before(u, v) => Before(t, v)
  /\ \A t, u \in Tasks : Before(t, u) => ~ Before(u, t)
<1>1. \A t \in Tasks : t.row \in Nat /\ t.type \in Nat
  <2>1. InitTask.row = 0 /\ InitCdf.row = 0
    BY DEF InitTask, InitCdf
  <2> QED
    BY <2>1, TaskFacts, RowFacts
<1>2. \A t, u \in Tasks : t.row = u.row /\ t.type = u.type => t = u
  <2> SUFFICES ASSUME NEW t \in Tasks, NEW u \in Tasks, t.row = u.row, t.type = u.type PROVE t = u
    OBVIOUS
  <2>1. CASE t = InitTask \/ t = InitCdf
    BY <2>1, TaskFacts
  <2>2. CASE \E r \in Rows : t = Tile(r) \/ t = DeblockCols(r) \/ t = DeblockRows(r)
    <3>1. PICK r \in Rows : t = Tile(r) \/ t = DeblockCols(r) \/ t = DeblockRows(r)
      BY <2>2
    <3>2. PICK c \in Rows : u = Tile(c) \/ u = DeblockCols(c) \/ u = DeblockRows(c)
      BY <3>1, TaskFacts
    <3> QED
      BY <3>1, <3>2, TaskFacts
  <2> QED
    BY <2>1, <2>2, TaskFacts
<1> QED
  BY <1>1, <1>2 DEF Before

\* One of some tasks is the last.
LEMMA LastFacts ==
  ASSUME NEW ts, ts \subseteq Tasks, ts # {}
  PROVE  LET l == CHOOSE t \in ts : \A u \in ts : u = t \/ Before(u, t)
         IN  l \in ts /\ \A u \in ts : u = l \/ Before(u, l)
<1> DEFINE key(t) == 5 * Sbh - (5 * t.row + t.type)
           K == {key(t) : t \in ts}
<1>1. \A t \in Tasks : t.row \in Nat /\ t.type \in 0 .. 4 /\ t.row < Sbh
  <2>1. InitTask.row = 0 /\ InitCdf.row = 0
    BY DEF InitTask, InitCdf
  <2> QED
    BY <2>1, TaskFacts, RowFacts
<1>2. K \subseteq Nat /\ K # {}
  <2>1. \A t \in Tasks : key(t) \in Nat
    BY <1>1, RowFacts
  <2> QED
    BY <2>1
<1>3. Min(K) \in K /\ \A x \in K : Min(K) <= x
  <2> HIDE DEF K
  <2> QED
    BY <1>2, MinFacts
<1>4. PICK t \in ts : \A u \in ts : key(t) <= key(u)
  BY <1>3
<1>5. \A u \in ts : u = t \/ Before(u, t)
  <2> SUFFICES ASSUME NEW u \in ts, Before(t, u) PROVE FALSE
    BY BeforeFacts
  <2>1. key(t) <= key(u)
    BY <1>4
  <2> QED
    BY <2>1, <1>1, RowFacts DEF Before
<1> QED
  BY <1>5

\* What the search of a frame leaves as cur_prev.
LEMMA OverFacts ==
  ASSUME NEW q, q \in Queues, NEW s \in Slots, NEW ts, ts \subseteq Tasks
  PROVE  LET p == Over(q, s, ts)
         IN  /\ p \in Queues /\ p.first = q.first /\ p.cur = q.cur /\ p.list = q.list
             /\ p.pend = q.pend /\ p.reset = q.reset /\ p.signaled = q.signaled
             /\ \A x \in Slots : x # s => p.prev[x] = q.prev[x]
             /\ ts = {} => p.prev[s] = q.prev[s]
             /\ ts # {} => p.prev[s] \in ts
<1> DEFINE l == CHOOSE t \in ts : \A u \in ts : u = t \/ Before(u, t)
           p == Over(q, s, ts)
<1>1. ts # {} => l \in ts
  BY LastFacts
<1> HIDE DEF l
<1>2. p = [q EXCEPT !.prev[s] = IF ts = {} THEN @ ELSE l]
  BY DEF Over, l
<1>3. (IF ts = {} THEN q.prev[s] ELSE l) \in Tasks \cup {NoTask, Gone}
  BY <1>1 DEF Queues
<1>4. p.prev = [q.prev EXCEPT ![s] = IF ts = {} THEN q.prev[s] ELSE l]
  BY <1>2 DEF Queues
<1>5. p \in Queues
  BY <1>2, <1>3 DEF Queues
<1>6. /\ p.first = q.first /\ p.cur = q.cur /\ p.list = q.list
      /\ p.pend = q.pend /\ p.reset = q.reset /\ p.signaled = q.signaled
  BY <1>2 DEF Queues
<1>7. \A x \in Slots : x # s => p.prev[x] = q.prev[x]
  BY <1>4 DEF Queues
<1>8. p.prev[s] = IF ts = {} THEN q.prev[s] ELSE l
  BY <1>4 DEF Queues
<1> QED
  BY <1>1, <1>5, <1>6, <1>7, <1>8

\* The frame at the cursor is looked at: what was pending there is in its list.
LEMMA MergeFrameFacts ==
  ASSUME NEW q, q \in Queues, NEW c \in Slots
  PROVE  LET p == MergeFrame(q, c)
         IN  /\ p \in Queues /\ p.first = q.first /\ p.signaled = q.signaled
             /\ p.pend[c] = {} /\ (flush => p.list[c] = q.list[c] /\ p.cur = q.cur)
             /\ ~ flush => p.list[c] = q.list[c] \cup q.pend[c]
             /\ \A x \in Slots : x # c => p.list[x] = q.list[x] /\ p.pend[x] = q.pend[x]
             /\ q.cur < NFc /\ c = AtCursor(q) => CursorOf(p) <= CursorOf(q)
<1> DEFINE p == MergeFrame(q, c)
           N == [q EXCEPT !.pend[c] = {}]
           M == [N EXCEPT !.list[c] = @ \cup q.pend[c]]
<1>1. /\ N \in Queues /\ N.first = q.first /\ N.cur = q.cur /\ N.list = q.list
      /\ N.prev = q.prev /\ N.signaled = q.signaled
      /\ N.pend[c] = {} /\ \A x \in Slots : x # c => N.pend[x] = q.pend[x]
  BY DEF Queues
<1>2. /\ M \in Queues /\ M.first = q.first /\ M.cur = q.cur /\ M.prev = q.prev
      /\ M.signaled = q.signaled /\ M.pend = N.pend
      /\ M.list[c] = q.list[c] \cup q.pend[c] /\ \A x \in Slots : x # c => M.list[x] = q.list[x]
  BY <1>1 DEF Queues
<1> HIDE DEF M, N
<1>3. CASE q.pend[c] = {}
  <2>1. p = q /\ q.list[c] \cup q.pend[c] = q.list[c]
    BY <1>3 DEF MergeFrame
  <2>2. CursorOf(q) <= CursorOf(q)
    BY AheadNat
  <2> HIDE DEF p
  <2> QED
    BY <2>1, <2>2, <1>3 DEF p
<1>4. CASE q.pend[c] # {} /\ flush
  <2>1. p = N
    BY <1>4 DEF MergeFrame, Insert, N
  <2>2. CursorOf(N) = CursorOf(q) /\ CursorOf(q) \in Nat
    BY <1>1, AheadNat DEF CursorOf
  <2> QED
    BY <2>1, <2>2, <1>1, <1>4
<1>5. CASE q.pend[c] # {} /\ ~ flush
  <2>1. p = ResetTaskCur(M, c)
    BY <1>5 DEF MergeFrame, Insert, M, N
  <2> HIDE DEF p
  <2>2. /\ p \in Queues /\ p.first = M.first /\ p.list = M.list /\ p.pend = M.pend
        /\ p.signaled = M.signaled
        /\ Stays(M, p, c) \/ Back(M, p, c)
    BY <1>2, <2>1, ResetFacts
  <2>3. M.list[c] # {}
    BY <1>2, <1>5
  <2>4. ASSUME q.cur < NFc, c = AtCursor(q) PROVE CursorOf(p) <= CursorOf(q)
    <3>1. CursorOf(M) = CursorOf(q) /\ CursorOf(q) \in Nat /\ CursorOf(p) \in Nat
      BY <1>2, <2>2, AheadNat DEF CursorOf
    <3>2. Ahead(M, c) = CursorOf(q)
      BY <2>4, <1>2, RingFacts DEF Ahead
    <3> QED
      BY <3>1, <3>2, <2>2, <2>3, <1>2 DEF Stays, Back, CursorOf
  <2>5. /\ p \in Queues /\ p.first = q.first /\ p.signaled = q.signaled
        /\ p.pend[c] = {} /\ p.list[c] = q.list[c] \cup q.pend[c]
    BY <2>2, <1>1, <1>2
  <2>6. \A x \in Slots : x # c => p.list[x] = q.list[x] /\ p.pend[x] = q.pend[x]
    BY <2>2, <1>1, <1>2
  <2> QED
    BY <2>4, <2>5, <2>6, <1>5 DEF p
<1> QED
  BY <1>3, <1>4, <1>5

\* What the search comes to is pending no more, and the rest is as it was.
LEMMA SearchOpen ==
  ASSUME NEW q, q \in Queues, NEW S, S \in [Slots -> Frames], NEW post, NEW c \in Slots,
         Skew(q, S, TRUE), Old(q, S, post), Listed(q, S), ~ flush, q.cur < NFc, c = AtCursor(q)
  PROVE  LET p == MergeFrame(q, c)
         IN  /\ Old(p, S, post) /\ Listed(p, S) /\ Skew(p, S, TRUE)
             /\ CursorOf(p) = Ahead(q, c) \/ \E o \in Slots : p.list[o] # {} /\ Ahead(q, o) = CursorOf(p)
<1> DEFINE p == MergeFrame(q, c)
           N == [q EXCEPT !.pend[c] = {}]
           M == [N EXCEPT !.list[c] = @ \cup q.pend[c]]
<1>1. /\ M \in Queues /\ M.first = q.first /\ M.cur = q.cur /\ M.prev = q.prev
      /\ M.pend[c] = {} /\ \A x \in Slots : x # c => M.pend[x] = q.pend[x]
      /\ M.list[c] = q.list[c] \cup q.pend[c] /\ \A x \in Slots : x # c => M.list[x] = q.list[x]
  BY DEF Queues
<1>2. /\ CursorOf(q) \in Nat /\ q.first \in Nat /\ q.cur \in Nat
      /\ \A r \in Slots : Ahead(q, r) \in Nat /\ q.first <= Ahead(q, r)
      /\ \A r \in Slots : r # q.first => q.first < Ahead(q, r)
      /\ CursorOf(M) = CursorOf(q) /\ \A r \in Slots : Ahead(M, r) = Ahead(q, r)
  BY <1>1, AheadNat DEF CursorOf, Ahead
<1>3. Ahead(q, c) = CursorOf(q)
  BY RingFacts
<1>4. CASE q.pend[c] = {}
  <2>1. p = q
    BY <1>4 DEF MergeFrame
  <2>2. Skew(p, S, TRUE) /\ CursorOf(p) = Ahead(q, c)
    BY <2>1, <1>3 DEF Skew
  <2> QED
    BY <2>1, <2>2
<1>5. CASE q.pend[c] # {}
  <2>1. p = ResetTaskCur(M, c)
    BY <1>5 DEF MergeFrame, Insert
  <2> HIDE DEF M, N, p
  <2>2. /\ p \in Queues /\ p.first = M.first /\ p.list = M.list /\ p.pend = M.pend
        /\ Stays(M, p, c) \/ Back(M, p, c)
    BY <1>1, <2>1, ResetFacts
  <2>3. CursorOf(p) \in Nat /\ \A r \in Slots : Ahead(p, r) = Ahead(q, r)
    BY <1>1, <2>2, AheadNat DEF Ahead
  <2>4. ~ S[c].finished
    BY <1>5 DEF Listed
  <2>5. Listed(p, S)
    BY <1>1, <2>2, <2>4 DEF Listed
  <2>6. CASE Stays(M, p, c)
    <3>1. p.cur = q.cur /\ p.prev = q.prev /\ CursorOf(p) = CursorOf(q)
      BY <1>1, <2>2, <2>6 DEF Stays, CursorOf
    <3>2. q.cur = 0 /\ q.prev[q.first] = NoTask
      BY <1>1, <1>2, <1>3, <2>6 DEF Stays
    <3>3. c = q.first /\ q.prev[c] = NoTask
      BY <3>2, <1>2, <1>3 DEF CursorOf
    <3>4. \A m \in Slots : More(q, S, m) => More(p, S, m)
      BY <1>1, <1>5, <2>2 DEF More
    <3>5. \A m \in Slots : Anchor(q, S, m) => Anchor(p, S, m)
      BY <3>1, <3>4, <2>3 DEF Anchor
    <3>6. Skew(p, S, TRUE)
      BY <3>1, <3>5, <2>3 DEF Skew
    <3>7. Old(p, S, post)
      <4> SUFFICES ASSUME NEW x \in Slots, IsFirst(q, S, x)
                   PROVE  /\ q.prev[x] = Gone => p.list[x] = {}
                          /\ \A t \in p.list[x] : ReadyOf(S[x], t) /\ OverIn(q, x, t)
                                                    => p.pend[x] # {} \/ x \in post
        BY <2>3, <3>1 DEF Old, OverIn, IsFirst
      <4>1. CASE x = c
        BY <4>1, <3>3, <1>2, <1>3, NoneFacts DEF OverIn
      <4>2. CASE x # c
        BY <4>2, <1>1, <2>2 DEF Old
      <4> QED
        BY <4>1, <4>2
    <3> QED
      BY <2>5, <3>1, <3>6, <3>7, <1>3 DEF p
  <2>7. CASE Back(M, p, c)
    <3>1. \A r \in Slots : p.prev[r] = NoTask
      BY <2>7 DEF Back, Nowhere
    <3>2. Skew(p, S, TRUE)
      BY <3>1 DEF Skew
    <3>3. M.list[c] # {}
      BY <1>1, <1>5
    <3>4. CursorOf(p) <= Ahead(q, c)
      BY <3>3, <2>7, <1>2, <2>3 DEF Back
    <3>5. p.cur < NFc
      <4>1. Ahead(q, c) < q.first + NFc
        BY RingFacts
      <4>2. p.cur \in Nat /\ p.first = q.first
        BY <1>1, <2>2, AheadNat
      <4> QED
        BY <4>1, <4>2, <3>4, <1>2, SizeAssumption DEF CursorOf
    <3>6. \E o \in Slots : p.list[o] # {} /\ Ahead(q, o) = CursorOf(p)
      BY <3>5, <2>7, <1>2, <2>2 DEF Back
    <3>7. Old(p, S, post)
      <4>1. SUFFICES ASSUME NEW x \in Slots, IsFirst(p, S, x), NEW t \in p.list[x],
                            ReadyOf(S[x], t), OverIn(p, x, t)
                     PROVE  p.pend[x] # {} \/ x \in post
        BY <3>1, NoneFacts DEF Old
      <4>2. M.list[x] # {} /\ Ahead(q, x) < CursorOf(p)
        BY <4>1, <3>1, <2>2, <2>3 DEF OverIn
      <4>3. Ahead(q, x) < CursorOf(q) /\ Ahead(q, x) < Ahead(q, c)
        BY <4>2, <1>2, <2>7 DEF Back
      <4>4. x # c
        BY <4>3, <1>2
      <4>5. IsFirst(q, S, x)
        BY <4>1, <2>3 DEF IsFirst
      <4> QED
        BY <4>1, <4>3, <4>4, <4>5, <1>1, <2>2 DEF Old, OverIn
    <3> QED
      BY <2>5, <3>2, <3>6, <3>7 DEF p
  <2> QED
    BY <2>2, <2>6, <2>7
<1> QED
  BY <1>4, <1>5

\* What the search sees of a frame.
LEMMA AfterFacts ==
  ASSUME NEW q, q \in Queues, NEW s \in Slots, NEW ts \in After(q, s)
  PROVE  /\ ts \subseteq q.list[s] /\ ts \subseteq Tasks
         /\ q.prev[s] = NoTask => ts = q.list[s]
         /\ q.prev[s] # NoTask /\ q.prev[s] # Gone => ts = {u \in q.list[s] : Before(q.prev[s], u)}
  BY DEF After, Queues

\* The search goes on to the next frame.
Beyond(q, s, ts) == [Over(q, s, ts) EXCEPT !.cur = @ + 1]

\* p is q with something done to c; none of E is ready if c is the oldest frame.
SameBut(q, p, c) == \A x \in Slots : x # c => p.list[x] = q.list[x] /\ p.pend[x] = q.pend[x]
NoneReady(q, S, c, E) == IsFirst(q, S, c) => \A t \in E : ~ ReadyOf(S[c], t)

\* No task that is ready is behind the search when it goes past a frame, ...
LEMMA SearchPass ==
  ASSUME NEW q, q \in Queues, NEW S, S \in [Slots -> Frames], NEW post, NEW c \in Slots,
         q.cur < NFc, c = AtCursor(q), Old(q, S, post),
         NEW p, p \in Queues, p.first = q.first, CursorOf(p) <= Ahead(q, c),
         SameBut(q, p, c), Skew(p, S, TRUE), Old(p, S, post), Listed(p, S),
         NEW ts \in After(p, c), NoneReady(q, S, c, ts)
  PROVE  LET n == Beyond(p, c, ts)
         IN  Skew(n, S, TRUE) /\ Old(n, S, post)
<1>20. /\ \A x \in Slots : x # c => p.list[x] = q.list[x] /\ p.pend[x] = q.pend[x]
       /\ IsFirst(q, S, c) => \A t \in ts : ~ ReadyOf(S[c], t)
  BY DEF SameBut, NoneReady
<1> DEFINE n == Beyond(p, c, ts)
           v == Over(p, c, ts)
<1>1. /\ ts \subseteq p.list[c] /\ ts \subseteq Tasks
      /\ p.prev[c] = NoTask => ts = p.list[c]
      /\ p.prev[c] # NoTask /\ p.prev[c] # Gone => ts = {u \in p.list[c] : Before(p.prev[c], u)}
  BY AfterFacts
<1>2. /\ v \in Queues /\ v.first = p.first /\ v.cur = p.cur /\ v.list = p.list
      /\ v.pend = p.pend /\ v.signaled = p.signaled
      /\ \A x \in Slots : x # c => v.prev[x] = p.prev[x]
      /\ ts = {} => v.prev[c] = p.prev[c]
      /\ ts # {} => v.prev[c] \in ts
  BY <1>1, OverFacts
<1>3. /\ CursorOf(q) \in Nat /\ CursorOf(p) \in Nat /\ q.first \in Nat /\ q.cur \in Nat /\ p.cur \in Nat
      /\ \A r \in Slots : /\ Ahead(q, r) \in Nat /\ q.first <= Ahead(q, r)
                          /\ Ahead(p, r) = Ahead(q, r) /\ Ahead(q, r) < q.first + NFc
      /\ Ahead(q, c) = CursorOf(q)
  BY RingFacts DEF Ahead
<1>4. p.cur + 1 \in 0 .. NFc
  <2>1. p.first + p.cur <= Ahead(q, c)
    BY DEF CursorOf
  <2>2. Ahead(q, c) < q.first + NFc
    BY <1>3
  <2> QED
    BY <2>1, <2>2, <1>3, SizeAssumption
<1> HIDE DEF v
<1>5. /\ n \in Queues /\ n.first = q.first /\ n.cur = p.cur + 1 /\ n.list = p.list /\ n.pend = p.pend
      /\ n.prev = v.prev
      /\ n.signaled = p.signaled
  BY <1>2, <1>4 DEF Queues, v, Beyond
<1> HIDE DEF n
<1>6. CursorOf(n) = CursorOf(p) + 1 /\ \A r \in Slots : Ahead(n, r) = Ahead(q, r)
  BY <1>3, <1>5 DEF CursorOf, Ahead
<1>7. \A m \in Slots : Anchor(p, S, m) => Anchor(n, S, m)
  BY <1>3, <1>6 DEF Anchor
<1>8. Skew(n, S, TRUE)
  <2> SUFFICES ASSUME NEW x \in Slots, n.prev[x] # NoTask, S[x].finished
               PROVE  \E m \in Slots : Anchor(n, S, m) /\ Ahead(n, m) < Ahead(n, x)
    BY DEF Skew
  <2>1. x = c => ts = {}
    BY <1>1 DEF Listed
  <2>2. p.prev[x] # NoTask
    BY <2>1, <1>2, <1>5
  <2>3. \E m \in Slots : Anchor(p, S, m) /\ Ahead(p, m) < Ahead(p, x)
    BY <2>2 DEF Skew
  <2> QED
    BY <2>3, <1>3, <1>6, <1>7
<1>9. Old(n, S, post)
  <2> SUFFICES ASSUME NEW x \in Slots, IsFirst(q, S, x)
               PROVE  /\ n.prev[x] = Gone => n.list[x] = {}
                      /\ \A t \in n.list[x] : ReadyOf(S[x], t) /\ OverIn(n, x, t)
                                                => n.pend[x] # {} \/ x \in post
    BY <1>6 DEF Old, IsFirst
  <2>1. IsFirst(p, S, x)
    BY <1>3 DEF IsFirst
  <2>2. CASE x = c
    <3>1. n.prev[x] = Gone => n.list[x] = {}
      BY <2>1, <2>2, <1>1, <1>2, <1>5, NoneFacts DEF Old
    <3>2. ASSUME NEW t \in n.list[x], ReadyOf(S[x], t)
          PROVE  n.pend[x] # {} \/ x \in post
      <4>1. t \in p.list[c] /\ t \notin ts
        BY <1>20, <3>2, <2>2, <1>5
      <4>2. p.prev[c] # NoTask /\ p.prev[c] # Gone /\ ~ Before(p.prev[c], t)
        BY <1>20, <4>1, <1>1, <2>1, <2>2 DEF Old
      <4>3. p.pend[c] # {} \/ c \in post
        BY <1>20, <4>1, <4>2, <3>2, <2>1, <2>2 DEF Old, OverIn
      <4> QED
        BY <4>3, <2>2, <1>5
    <3> QED
      BY <3>1, <3>2
  <2>3. CASE x # c
    <3>1. n.prev[x] = p.prev[x] /\ n.list[x] = p.list[x] /\ n.pend[x] = p.pend[x]
          /\ n.list[x] = q.list[x] /\ n.pend[x] = q.pend[x]
      BY <1>20, <2>3, <1>2, <1>5
    <3>2. n.prev[x] = Gone => n.list[x] = {}
      BY <3>1, <2>1 DEF Old
    <3>3. ASSUME NEW t \in n.list[x], ReadyOf(S[x], t), OverIn(n, x, t)
          PROVE  n.pend[x] # {} \/ x \in post
      <4>1. CASE OverIn(p, x, t)
        BY <4>1, <3>1, <3>3, <2>1 DEF Old
      <4>2. CASE ~ OverIn(p, x, t)
        <5>1. Ahead(q, x) < CursorOf(n) /\ ~ (Ahead(q, x) < CursorOf(p))
          BY <4>2, <3>1, <3>3, <1>3, <1>6 DEF OverIn
        <5>2. Ahead(q, x) <= Ahead(q, c)
          BY <5>1, <1>3, <1>6
        <5>3. Ahead(q, x) # Ahead(q, c)
          BY <2>3, RingFacts
        <5>4. OverIn(q, x, t)
          BY <5>2, <5>3, <1>3 DEF OverIn
        <5> QED
          BY <5>4, <3>1, <3>3 DEF Old
      <4> QED
        BY <4>1, <4>2
    <3> QED
      BY <3>2, <3>3
  <2> QED
    BY <2>2, <2>3
<1> QED
  BY <1>8, <1>9 DEF n

\* The cursor moved back, and not to a task of a frame that it has passed.
Sooner(q, p) ==
  /\ p.prev = Nowhere
  /\ \A x \in Slots : p.list[x] # {} /\ Ahead(q, x) < CursorOf(p) => Ahead(q, x) < CursorOf(q)

\* What the search finds is taken out, and the next column of deblocking put in.
LEMMA InsertFacts ==
  ASSUME NEW q, q \in Queues, NEW c \in Slots, NEW ns, ns \subseteq Tasks, ns # {}
  PROVE  LET p == Insert(q, c, ns)
         IN  /\ p \in Queues /\ p.first = q.first /\ p.pend = q.pend
             /\ p.signaled = q.signaled
             /\ \A x \in Slots : x # c => p.list[x] = q.list[x]
             /\ flush => p = q
             /\ ~ flush => p.list[c] = q.list[c] \cup ns
             /\ CursorOf(q) <= Ahead(q, c) => CursorOf(p) <= Ahead(q, c)
             /\ (p.cur = q.cur /\ p.prev = q.prev) \/ Sooner(q, p)
<1> DEFINE p == Insert(q, c, ns)
           M == [q EXCEPT !.list[c] = @ \cup ns]
<1>1. /\ M \in Queues /\ M.first = q.first /\ M.cur = q.cur /\ M.prev = q.prev /\ M.pend = q.pend
      /\ M.signaled = q.signaled
      /\ M.list[c] = q.list[c] \cup ns /\ \A x \in Slots : x # c => M.list[x] = q.list[x]
  BY DEF Queues
<1>2. CASE flush
  <2>1. p = q
    BY <1>2 DEF Insert
  <2> HIDE DEF p
  <2> QED
    BY <2>1, <1>2 DEF p
<1>3. CASE ~ flush
  <2>1. p = ResetTaskCur(M, c)
    BY <1>3 DEF Insert
  <2> HIDE DEF p, M
  <2>2. /\ p \in Queues /\ p.first = M.first /\ p.list = M.list /\ p.pend = M.pend
        /\ p.signaled = M.signaled
        /\ Stays(M, p, c) \/ Back(M, p, c)
    BY <1>1, <2>1, ResetFacts
  <2>3. /\ CursorOf(M) = CursorOf(q) /\ \A x \in Slots : Ahead(M, x) = Ahead(q, x)
        /\ CursorOf(q) \in Nat /\ CursorOf(p) \in Nat /\ \A x \in Slots : Ahead(q, x) \in Nat
    BY <1>1, <2>2, AheadNat DEF CursorOf, Ahead
  <2>4. M.list[c] # {}
    BY <1>1
  <2>5. CursorOf(q) <= Ahead(q, c) => CursorOf(p) <= Ahead(q, c)
    BY <2>2, <2>3, <2>4, <1>1 DEF Stays, Back, CursorOf
  <2>6. (p.cur = q.cur /\ p.prev = q.prev) \/ Sooner(q, p)
    <3>1. Stays(M, p, c) => p.cur = q.cur /\ p.prev = q.prev
      BY <1>1 DEF Stays
    <3>2. Back(M, p, c) => Sooner(q, p)
      BY <2>2, <2>3 DEF Back, Sooner
    <3> QED
      BY <2>2, <3>1, <3>2
  <2>7. /\ p \in Queues /\ p.first = q.first /\ p.pend = q.pend
        /\ \A x \in Slots : x # c => p.list[x] = q.list[x]
        /\ p.list[c] = q.list[c] \cup ns
    BY <2>2, <1>1
  <2>8. p.signaled = q.signaled
    BY <2>2, <1>1
  <2> QED
    BY <2>5, <2>6, <2>7, <2>8, <1>3 DEF p
<1> QED
  BY <1>2, <1>3

\* The queue that Found leaves.
Taken(q, s, t) ==
  [q EXCEPT !.list[s] = @ \ {t},
            !.prev[s] = IF @ = t THEN Gone ELSE @,
            !.cur = IF t.type > InitCdf.type /\ q.list[s] = {t} THEN @ + 1 ELSE @,
            !.signaled = TRUE]

\* What is left in the lists, and where the cursor is.
LEMMA TakenFacts ==
  ASSUME NEW q, q \in Queues, NEW s \in Slots, NEW t \in Tasks,
         t.type > InitCdf.type => CursorOf(q) <= Ahead(q, s)
  PROVE  LET p == Taken(q, s, t)
         IN  /\ p \in Queues /\ p.first = q.first /\ p.pend = q.pend
             /\ p.list[s] = q.list[s] \ {t} /\ \A x \in Slots : x # s => p.list[x] = q.list[x]
             /\ p.prev[s] = (IF q.prev[s] = t THEN Gone ELSE q.prev[s])
             /\ \A x \in Slots : x # s => p.prev[x] = q.prev[x]
             /\ p.cur = (IF t.type > InitCdf.type /\ q.list[s] = {t} THEN q.cur + 1 ELSE q.cur)
<1> DEFINE d == t.type > InitCdf.type /\ q.list[s] = {t}
           n == IF d THEN q.cur + 1 ELSE q.cur
           e == IF q.prev[s] = t THEN Gone ELSE q.prev[s]
<1>1. n \in 0 .. NFc
  <2>1. /\ q.first + q.cur = CursorOf(q) /\ Ahead(q, s) < q.first + NFc /\ q.first \in Nat /\ q.cur \in Nat
        /\ q.cur <= NFc /\ Ahead(q, s) \in Nat
    BY RingFacts DEF CursorOf
  <2> QED
    BY <2>1, SizeAssumption
<1>2. e \in Tasks \cup {NoTask, Gone}
  BY DEF Queues
<1>3. Taken(q, s, t) = [q EXCEPT !.list[s] = @ \ {t}, !.prev[s] = e, !.cur = n, !.signaled = TRUE]
  BY DEF Taken
<1> HIDE DEF n, e
<1> DEFINE m == [q EXCEPT !.list[s] = @ \ {t}, !.prev[s] = e, !.cur = n, !.signaled = TRUE]
<1>4. m \in Queues
  BY <1>1, <1>2 DEF Queues
<1>5. /\ m.first = q.first /\ m.pend = q.pend /\ m.cur = n
      /\ m.list = [q.list EXCEPT ![s] = @ \ {t}]
      /\ m.prev = [q.prev EXCEPT ![s] = e]
  BY DEF Queues
<1>6. /\ m.list[s] = q.list[s] \ {t}
      /\ \A x \in Slots : x # s => m.list[x] = q.list[x]
  BY <1>5 DEF Queues
<1>8. m.prev[s] = e /\ \A x \in Slots : x # s => m.prev[x] = q.prev[x]
  BY <1>5 DEF Queues
<1>7. Taken(q, s, t) = m
  BY <1>3
<1> HIDE DEF m
<1> QED
  BY <1>4, <1>5, <1>6, <1>7, <1>8 DEF n, e

\* The tasks of ts before t, and the queue that Take takes t out of.
UpTo(ts, t) == {u \in ts : Before(u, t)}
Opened(q, c, E, ns) == IF ns = {} THEN Over(q, c, E) ELSE Insert(Over(q, c, E), c, ns)

AllAfter(t, ns) == \A u \in ns : Before(t, u)
Reaches(q, p, c) ==
  CursorOf(p) = Ahead(q, c) \/ \E o \in Slots : p.list[o] # {} /\ Ahead(q, o) = CursorOf(p)

\* ..., and none is when it takes one.
LEMMA SearchTake ==
  ASSUME NEW q, q \in Queues, NEW S, S \in [Slots -> Frames], NEW post, NEW c \in Slots,
         q.cur < NFc, c = AtCursor(q), Old(q, S, post), ~ flush,
         NEW p, p \in Queues, p.first = q.first, CursorOf(p) <= Ahead(q, c),
         SameBut(q, p, c), Skew(p, S, TRUE), Old(p, S, post), Listed(p, S), Reaches(q, p, c),
         NEW ts \in After(p, c), NEW t \in ts, t.type > InitCdf.type,
         NoneReady(q, S, c, UpTo(ts, t)), NEW ns \in SUBSET Tasks, AllAfter(t, ns)
  PROVE  LET n == Taken(Opened(p, c, UpTo(ts, t), ns), c, t)
         IN  Skew(n, S, FALSE) /\ Old(n, S, post)
<1>20. /\ \A x \in Slots : x # c => p.list[x] = q.list[x] /\ p.pend[x] = q.pend[x]
       /\ CursorOf(p) = Ahead(q, c) \/ \E o \in Slots : p.list[o] # {} /\ Ahead(q, o) = CursorOf(p)
       /\ \A u \in ns : Before(t, u)
       /\ IsFirst(q, S, c) => \A u \in ts : Before(u, t) => ~ ReadyOf(S[c], u)
  BY DEF SameBut, Reaches, AllAfter, NoneReady, UpTo
<1> DEFINE E == UpTo(ts, t)
           v == Over(p, c, E)
           w == Opened(p, c, E, ns)
           n == Taken(w, c, t)
<1>1. /\ ts \subseteq p.list[c] /\ ts \subseteq Tasks /\ t \in Tasks
      /\ p.prev[c] = NoTask => ts = p.list[c]
      /\ p.prev[c] # NoTask /\ p.prev[c] # Gone => ts = {u \in p.list[c] : Before(p.prev[c], u)}
  BY AfterFacts
<1>2. /\ v \in Queues /\ v.first = p.first /\ v.cur = p.cur /\ v.list = p.list
      /\ v.pend = p.pend /\ v.signaled = p.signaled
      /\ \A x \in Slots : x # c => v.prev[x] = p.prev[x]
      /\ E = {} => v.prev[c] = p.prev[c]
      /\ E # {} => v.prev[c] \in E
  <2>1. E \subseteq Tasks
    BY <1>1 DEF UpTo
  <2>2. v = Over(p, c, E)
    OBVIOUS
  <2> DEFINE o == Over(p, c, E)
  <2>3. /\ o \in Queues /\ o.first = p.first /\ o.cur = p.cur /\ o.list = p.list
        /\ o.pend = p.pend /\ o.signaled = p.signaled
        /\ \A x \in Slots : x # c => o.prev[x] = p.prev[x]
        /\ E = {} => o.prev[c] = p.prev[c]
        /\ E # {} => o.prev[c] \in E
    <3> HIDE DEF E
    <3> QED
      BY ONLY <2>1, OverFacts, p \in Queues, c \in Slots
  <2> HIDE DEF o, E, v, w, n
  <2> QED
    BY <2>2, <2>3 DEF o
<1>0. w = IF ns = {} THEN v ELSE Insert(v, c, ns)
  BY DEF Opened
<1> HIDE DEF v, w, n
<1>3. /\ CursorOf(q) \in Nat /\ CursorOf(p) \in Nat /\ q.first \in Nat /\ p.cur \in Nat
      /\ \A r \in Slots : /\ Ahead(q, r) \in Nat /\ q.first <= Ahead(q, r)
                          /\ Ahead(p, r) = Ahead(q, r) /\ Ahead(v, r) = Ahead(q, r)
      /\ Ahead(q, c) = CursorOf(q) /\ CursorOf(v) = CursorOf(p)
  BY <1>2, RingFacts DEF Ahead, CursorOf
<1>4. /\ w \in Queues /\ w.first = p.first /\ w.pend = p.pend
      /\ w.list[c] = p.list[c] \cup ns /\ \A x \in Slots : x # c => w.list[x] = p.list[x]
      /\ CursorOf(w) <= Ahead(q, c)
      /\ (w.cur = p.cur /\ w.prev = v.prev) \/ (ns # {} /\ Sooner(p, w))
  <2>1. CASE ns = {}
    <3>1. w = v
      BY <1>0, <2>1
    <3> QED
      BY <3>1, <2>1, <1>2, <1>3
  <2>2. CASE ns # {}
    <3> DEFINE i == Insert(v, c, ns)
    <3>1. w = i
      BY <1>0, <2>2
    <3>2. /\ i \in Queues /\ i.first = v.first /\ i.pend = v.pend
          /\ \A x \in Slots : x # c => i.list[x] = v.list[x]
          /\ i.list[c] = v.list[c] \cup ns
          /\ CursorOf(v) <= Ahead(v, c) => CursorOf(i) <= Ahead(v, c)
          /\ (i.cur = v.cur /\ i.prev = v.prev) \/ Sooner(v, i)
      BY ONLY <2>2, <1>2, InsertFacts, c \in Slots, ns \subseteq Tasks, ~ flush
    <3> HIDE DEF i
    <3>3. Sooner(v, i) => Sooner(p, i)
      BY <1>2, <1>3 DEF Sooner
    <3> QED
      BY <3>1, <3>2, <3>3, <2>2, <1>2, <1>3
  <2> QED
    BY <2>1, <2>2
<1> HIDE DEF E
<1>5. /\ CursorOf(w) \in Nat /\ w.cur \in Nat
      /\ \A r \in Slots : Ahead(w, r) = Ahead(q, r)
  BY <1>4, AheadNat DEF Ahead
<1>6. t \in w.list[c] /\ t # NoTask /\ NoTask # Gone
  BY <1>1, <1>4, NoneFacts
<1>7. /\ n \in Queues /\ n.first = q.first /\ n.pend = p.pend
      /\ n.list[c] = w.list[c] \ {t} /\ \A x \in Slots : x # c => n.list[x] = p.list[x]
      /\ \A x \in Slots : x # c => n.prev[x] = w.prev[x]
      /\ n.prev[c] = IF w.prev[c] = t THEN Gone ELSE w.prev[c]
      /\ n.cur = IF w.list[c] = {t} THEN w.cur + 1 ELSE w.cur
  <2>1. /\ n \in Queues /\ n.first = w.first /\ n.pend = w.pend
        /\ n.list[c] = w.list[c] \ {t} /\ \A x \in Slots : x # c => n.list[x] = w.list[x]
        /\ n.prev[c] = (IF w.prev[c] = t THEN Gone ELSE w.prev[c])
        /\ \A x \in Slots : x # c => n.prev[x] = w.prev[x]
        /\ n.cur = (IF t.type > InitCdf.type /\ w.list[c] = {t} THEN w.cur + 1 ELSE w.cur)
    <3>1. w \in Queues /\ t \in Tasks /\ CursorOf(w) <= Ahead(w, c)
      BY <1>1, <1>4, <1>5
    <3>2. n = Taken(w, c, t)
      BY DEF n
    <3>3. t.type > InitCdf.type => CursorOf(w) <= Ahead(w, c)
      BY <3>1
    <3> QED
      BY ONLY <3>1, <3>2, <3>3, TakenFacts, c \in Slots
  <2> QED
    BY <2>1, <1>4 DEF Queues
<1>8. /\ \A r \in Slots : Ahead(n, r) = Ahead(q, r)
      /\ CursorOf(n) = IF w.list[c] = {t} THEN CursorOf(w) + 1 ELSE CursorOf(w)
      /\ CursorOf(n) \in Nat
  <2>1. \A r \in Slots : Ahead(n, r) = Ahead(q, r)
    BY <1>7 DEF Ahead
  <2>2. CursorOf(n) \in Nat
    BY <1>7, AheadNat
  <2>5. CursorOf(n) = n.first + n.cur /\ CursorOf(w) = n.first + w.cur /\ n.first \in Nat
    BY <1>3, <1>4, <1>7 DEF CursorOf
  <2>3. CASE w.list[c] = {t}
    BY <2>1, <2>5, <2>3, <1>5, <1>7
  <2>4. CASE w.list[c] # {t}
    BY <2>1, <2>5, <2>4, <1>5, <1>7
  <2> QED
    BY <2>1, <2>2, <2>3, <2>4
<1>9. ~ S[c].finished
  BY <1>1 DEF Listed
<1>10. E # {} => Before(v.prev[c], t)
  BY <1>2 DEF E, UpTo
<1>11. v.prev[c] # t
  <2>1. CASE E = {}
    BY <2>1, <1>1, <1>2, BeforeFacts, NoneFacts
  <2>2. CASE E # {}
    BY <2>2, <1>1, <1>10, BeforeFacts
  <2> QED
    BY <2>1, <2>2
<1>12. CASE ns # {} /\ Sooner(p, w)
  <2>1. \A x \in Slots : n.prev[x] = NoTask
    BY <1>6, <1>7, <1>12 DEF Nowhere, Sooner
  <2>2. Skew(n, S, FALSE)
    BY <2>1 DEF Skew
  <2>3. w.list[c] # {t}
    <3>1. PICK u \in ns : TRUE
      BY <1>12
    <3>2. u \in w.list[c] /\ u \in Tasks /\ Before(t, u)
      BY <1>20, <3>1, <1>4
    <3>3. u # t
      BY <3>2, <1>1, BeforeFacts
    <3> QED
      BY <3>2, <3>3
  <2>4. CursorOf(n) = CursorOf(w)
    BY <2>3, <1>8
  <2>5. Old(n, S, post)
    <3>1. SUFFICES ASSUME NEW x \in Slots, IsFirst(q, S, x), NEW u \in n.list[x],
                          ReadyOf(S[x], u), Ahead(q, x) < CursorOf(w)
                   PROVE  n.pend[x] # {} \/ x \in post
      BY <2>1, <2>4, <1>6, <1>8 DEF Old, OverIn, IsFirst
    <3>2. Ahead(q, x) < Ahead(q, c) /\ x # c
      BY ONLY <3>1, <1>3, <1>4, <1>5, x \in Slots, c \in Slots
    <3>3. u \in q.list[x] /\ OverIn(q, x, u)
      BY <1>20, <3>1, <3>2, <1>3, <1>7 DEF OverIn
    <3> QED
      BY <1>20, <3>1, <3>2, <3>3, <1>7 DEF Old
  <2> QED
    BY <2>2, <2>5 DEF n, w, E
<1>13. CASE w.cur = p.cur /\ w.prev = v.prev
  <2>1. CursorOf(w) = CursorOf(p) /\ n.prev[c] = v.prev[c]
    BY <1>4, <1>7, <1>11, <1>13 DEF CursorOf
  <2>2. \A x \in Slots : x # c => n.prev[x] = p.prev[x]
    BY ONLY <1>2, <1>7, <1>13
  <2>3. \A m \in Slots : Anchor(p, S, m) => Anchor(n, S, m)
    <3> SUFFICES ASSUME NEW m \in Slots, Anchor(p, S, m) PROVE Anchor(n, S, m)
      OBVIOUS
    <3>0. /\ m \in Slots /\ ~ S[m].finished /\ Ahead(n, m) = Ahead(p, m) /\ Ahead(n, m) \in Nat
          /\ Ahead(p, m) <= CursorOf(p) /\ CursorOf(p) <= CursorOf(n) /\ CursorOf(p) \in Nat
          /\ w.list[c] = {t} => CursorOf(n) = CursorOf(p) + 1
      <4>1. m \in Slots /\ ~ S[m].finished /\ Ahead(p, m) <= CursorOf(p)
        BY <1>3 DEF Anchor
      <4>2. Ahead(n, m) = Ahead(p, m) /\ Ahead(n, m) \in Nat
        BY <4>1, <1>3, <1>8
      <4>3. CursorOf(n) = IF w.list[c] = {t} THEN CursorOf(p) + 1 ELSE CursorOf(p)
        BY <2>1, <1>8
      <4> QED
        BY <4>1, <4>2, <4>3, <1>3
    <3>1. CASE w.list[c] = {t} \/ Ahead(q, m) < CursorOf(p)
      <4>1. Ahead(n, m) < CursorOf(n)
        <5>1. Ahead(p, m) = Ahead(q, m)
          BY <1>3
        <5> QED
          BY ONLY <3>0, <3>1, <5>1, <1>3, <1>8
      <4> QED
        BY <3>0, <4>1 DEF Anchor
    <3>2. CASE w.list[c] # {t} /\ ~ (Ahead(q, m) < CursorOf(p))
      <4>1. Ahead(q, m) = CursorOf(p) /\ More(p, S, m) /\ ~ S[m].finished
        BY <3>2, <1>3 DEF Anchor
      <4>2. More(n, S, m)
        BY <4>1, <3>2, <1>6, <1>7 DEF More
      <4> QED
        BY <4>1, <4>2, <3>2, <2>1, <1>8 DEF Anchor
    <3> QED
      BY <3>1, <3>2
  <2>4. \E m \in Slots : Anchor(n, S, m)
    <3>1. PICK o \in Slots : p.list[o] # {} /\ Ahead(q, o) = CursorOf(p)
      BY <1>20, <1>1
    <3>2. ~ S[o].finished
      BY <3>1 DEF Listed
    <3>3. Anchor(p, S, o)
      BY <3>1, <3>2, <1>3 DEF Anchor, More
    <3> QED
      BY <3>3, <2>3
  <2>5. Skew(n, S, FALSE)
    <3> SUFFICES ASSUME NEW x \in Slots, n.prev[x] # NoTask, S[x].finished
                 PROVE  \E m \in Slots : Anchor(n, S, m) /\ Ahead(n, m) < Ahead(n, x)
      BY <2>4 DEF Skew
    <3>1. p.prev[x] # NoTask
      BY <1>9, <2>2
    <3>2. \E m \in Slots : Anchor(p, S, m) /\ Ahead(p, m) < Ahead(p, x)
      BY <3>1 DEF Skew
    <3> QED
      BY <3>2, <2>3, <1>3, <1>8
  <2>6. Old(n, S, post)
    <3> SUFFICES ASSUME NEW x \in Slots, IsFirst(q, S, x)
                 PROVE  /\ n.prev[x] = Gone => n.list[x] = {}
                        /\ \A u \in n.list[x] : ReadyOf(S[x], u) /\ OverIn(n, x, u)
                                                  => n.pend[x] # {} \/ x \in post
      BY <1>8 DEF Old, IsFirst
    <3>1. IsFirst(p, S, x)
      BY <1>3 DEF IsFirst
    <3>2. CASE x = c
      <4>1. p.prev[c] # Gone
        BY <3>1, <3>2, <1>1 DEF Old
      <4>2. n.prev[c] # Gone
        BY <4>1, <2>1, <1>1, <1>2, NoneFacts DEF E, UpTo
      <4>3. ASSUME NEW u \in n.list[c], ReadyOf(S[c], u), OverIn(n, c, u)
            PROVE  n.pend[c] # {} \/ c \in post
        <5>1. w.list[c] # {t}
          BY <4>3, <1>7
        <5>2. v.prev[c] # NoTask /\ ~ Before(v.prev[c], u)
          BY <5>1, <4>3, <1>3, <1>4, <1>5, <1>8, <2>1 DEF OverIn
        <5>3. u \in Tasks /\ u # t /\ (u \in p.list[c] \/ u \in ns)
          BY <4>3, <1>4, <1>7 DEF Queues
        <5>4. E # {} => ~ Before(t, u)
          BY <5>2, <5>3, <1>1, <1>2, <1>10, BeforeFacts DEF E, UpTo
        <5>5. p.prev[c] # NoTask => Before(p.prev[c], t) /\ p.prev[c] \in Tasks
          BY <4>1, <1>1 DEF Queues
        <5>6. E = {} /\ p.prev[c] # NoTask => ~ Before(t, u)
          BY <5>2, <5>3, <5>5, <1>1, <1>2, BeforeFacts
        <5>7. ~ Before(t, u)
          BY <5>2, <5>4, <5>6, <1>2
        <5>8. u \in p.list[c] /\ Before(u, t)
          BY <1>20, <5>3, <5>7, <1>1, BeforeFacts
        <5>9. u \notin ts
          BY <1>20, <5>8, <4>3, <3>2
        <5>10. p.prev[c] # NoTask /\ ~ Before(p.prev[c], u)
          BY <5>8, <5>9, <4>1, <1>1
        <5>11. p.pend[c] # {} \/ c \in post
          BY <5>8, <5>10, <4>3, <3>1, <3>2 DEF Old, OverIn
        <5> QED
          BY <5>11, <1>7
      <4> QED
        BY <3>2, <4>2, <4>3
    <3>3. CASE x # c
      <4>1. Ahead(q, x) <= Ahead(q, c)
        BY <1>9 DEF IsFirst
      <4>2. Ahead(q, x) # Ahead(q, c)
        BY <3>3, RingFacts
      <4>3. \A u : OverIn(q, x, u)
        BY <4>1, <4>2, <1>3 DEF OverIn
      <4>4. n.list[x] = q.list[x] /\ n.pend[x] = q.pend[x] /\ n.prev[x] = p.prev[x] /\ n.list[x] = p.list[x]
        BY <1>20, <3>3, <1>7, <2>2
      <4>5. \A u \in n.list[x] : ReadyOf(S[x], u) => n.pend[x] # {} \/ x \in post
        BY <4>3, <4>4 DEF Old
      <4> QED
        BY <4>4, <4>5, <3>1 DEF Old
    <3> QED
      BY <3>2, <3>3
  <2> QED
    BY <2>5, <2>6 DEF n, w, E
<1> QED
  BY <1>4, <1>12, <1>13

\* A slot without a frame in progress is given something else.
LEMMA SearchFinished ==
  ASSUME NEW q, q \in Queues, NEW S, S \in [Slots -> Frames], NEW post, NEW s \in Slots, NEW sc,
         Skew(q, S, sc), Old(q, S, post), S[s].finished, NEW g \in Frames, g.finished
  PROVE  LET T == With(S, s, g)
         IN  Skew(q, T, sc) /\ Old(q, T, post)
<1> DEFINE T == With(S, s, g)
<1>0. T[s] = g /\ \A x \in Slots : x # s => T[x] = S[x]
  BY WithFacts
<1> HIDE DEF T
<1>1. \A x \in Slots : (T[x].finished <=> S[x].finished) /\ (~ S[x].finished => T[x] = S[x])
  <2> SUFFICES ASSUME NEW x \in Slots
               PROVE  (T[x].finished <=> S[x].finished) /\ (~ S[x].finished => T[x] = S[x])
    OBVIOUS
  <2> QED
    BY <1>0
<1> HIDE DEF T
<1>2. \A m \in Slots : Anchor(q, S, m) <=> Anchor(q, T, m)
  BY <1>1 DEF Anchor, More
<1>3. \A x \in Slots : IsFirst(q, T, x) <=> IsFirst(q, S, x)
  BY <1>1 DEF IsFirst
<1>4. Skew(q, T, sc)
  <2> SUFFICES ASSUME NEW x \in Slots, q.prev[x] # NoTask
               PROVE  /\ T[x].finished => \E m \in Slots : Anchor(q, T, m) /\ Ahead(q, m) < Ahead(q, x)
                      /\ ~ T[x].finished /\ CursorOf(q) < Ahead(q, x) => sc \/ \E m \in Slots : Anchor(q, T, m)
    BY DEF Skew
  <2> QED
    BY <1>1, <1>2 DEF Skew
<1>5. Old(q, T, post)
  <2> SUFFICES ASSUME NEW x \in Slots, IsFirst(q, T, x)
               PROVE  /\ q.prev[x] = Gone => q.list[x] = {}
                      /\ \A t \in q.list[x] : ReadyOf(T[x], t) /\ OverIn(q, x, t) => q.pend[x] # {} \/ x \in post
    BY DEF Old
  <2>1. IsFirst(q, S, x) /\ T[x] = S[x]
    BY <1>1, <1>3 DEF IsFirst
  <2> QED
    BY <2>1 DEF Old
<1> QED
  BY <1>4, <1>5 DEF T

\* c.task_thread.first moves on.
LEMMA AdvanceFacts ==
  ASSUME NEW q, q \in Queues
  PROVE  LET p == AdvanceFirst(q)
         IN  /\ p \in Queues /\ p.list = q.list /\ p.pend = q.pend /\ p.prev = q.prev
             /\ p.signaled = q.signaled
             /\ p.first = (IF q.first + 1 = NFc THEN 0 ELSE q.first + 1)
             /\ p.cur = (IF q.cur # 0 /\ q.cur < NFc THEN q.cur - 1 ELSE q.cur)
<1>1. /\ q.first \in Slots /\ q.cur \in 0 .. NFc /\ NFc \in Nat /\ NFc >= 2
  BY SizeAssumption DEF Queues
<1> DEFINE f == (q.first + 1) % NFc
           k == IF q.cur # 0 /\ q.cur < NFc THEN q.cur - 1 ELSE q.cur
           e == IF q.reset = q.first THEN MAX ELSE q.reset
<1>2. f = (IF q.first + 1 = NFc THEN 0 ELSE q.first + 1) /\ f \in Slots
  <2>1. 1 \in Slots
    BY <1>1 DEF Slots
  <2>2. f = IF q.first + 1 < NFc THEN q.first + 1 ELSE q.first + 1 - NFc
    BY <1>1, <2>1, ModIs
  <2> HIDE DEF f
  <2> QED
    BY <1>1, <2>2 DEF Slots
<1>3. k \in 0 .. NFc
  BY <1>1
<1>4. e \in 0 .. MAX
  BY <1>1 DEF Queues, MAX
<1>5. AdvanceFirst(q) = [q EXCEPT !.first = f, !.reset = e, !.cur = k]
  BY DEF AdvanceFirst
<1>6. k = (IF q.cur # 0 /\ q.cur < NFc THEN q.cur - 1 ELSE q.cur)
  OBVIOUS
<1> HIDE DEF f, k, e
<1> DEFINE p == AdvanceFirst(q)
<1>7. /\ p \in Queues /\ p.list = q.list /\ p.pend = q.pend /\ p.prev = q.prev
      /\ p.signaled = q.signaled /\ p.first = f /\ p.cur = k
  BY <1>2, <1>3, <1>4, <1>5 DEF Queues
<1> HIDE DEF p
<1>8. /\ p.first = (IF q.first + 1 = NFc THEN 0 ELSE q.first + 1)
      /\ p.cur = (IF q.cur # 0 /\ q.cur < NFc THEN q.cur - 1 ELSE q.cur)
  BY <1>2, <1>6, <1>7
<1> QED
  BY <1>7, <1>8 DEF p

\* The frames keep their order, but for the one given up: it is last now.
LEMMA AdvanceRing ==
  ASSUME NEW q, q \in Queues
  PROVE  LET p == AdvanceFirst(q)
         IN  /\ \A x \in Slots : Ahead(p, x) - p.first =
                  IF x = q.first THEN NFc - 1 ELSE Ahead(q, x) - q.first - 1
             /\ \A x, y \in Slots : x # q.first /\ y # q.first
                  => (Ahead(p, x) < Ahead(p, y) <=> Ahead(q, x) < Ahead(q, y))
             /\ \A x \in Slots : x # q.first => Ahead(p, x) < Ahead(p, q.first)
             /\ \A x \in Slots : x # q.first =>
                  /\ Ahead(q, x) < CursorOf(q) => Ahead(p, x) < CursorOf(p)
                  /\ Ahead(p, x) < CursorOf(p) => Ahead(q, x) < CursorOf(q)
                  /\ CursorOf(p) < Ahead(p, x) => CursorOf(q) < Ahead(q, x)
<1> DEFINE p == AdvanceFirst(q)
           d == IF q.first + 1 = NFc THEN NFc ELSE 0
<1>1. /\ p \in Queues
      /\ p.first = (IF q.first + 1 = NFc THEN 0 ELSE q.first + 1)
      /\ p.cur = (IF q.cur # 0 /\ q.cur < NFc THEN q.cur - 1 ELSE q.cur)
  BY AdvanceFacts
<1> HIDE DEF p
<1>2. /\ q.first \in Slots /\ q.cur \in 0 .. NFc /\ NFc \in Nat /\ NFc >= 2
  BY SizeAssumption DEF Queues
<1>3. d \in Nat /\ p.first = q.first + 1 - d /\ p.first \in Nat /\ p.cur \in Nat
  BY <1>1, <1>2 DEF Slots
<1>4. /\ CursorOf(q) = q.first + q.cur
      /\ CursorOf(p) = CursorOf(q) - d + (IF q.cur # 0 /\ q.cur < NFc THEN 0 ELSE 1)
  BY <1>1, <1>2, <1>3 DEF CursorOf, Slots
<1>5. /\ \A x \in Slots : x # q.first => Ahead(p, x) = Ahead(q, x) - d
      /\ Ahead(p, q.first) = q.first + NFc - d
  BY <1>1, <1>2 DEF Ahead, Slots
<1>6. \A x \in Slots : Ahead(q, x) \in Nat /\ q.first <= Ahead(q, x) /\ Ahead(q, x) < q.first + NFc
  BY RingFacts
<1>7. \A x \in Slots : x # q.first => q.first < Ahead(q, x)
  BY AheadNat
<1> HIDE DEF d
<1>8. \A x \in Slots : Ahead(p, x) - p.first =
                  IF x = q.first THEN NFc - 1 ELSE Ahead(q, x) - q.first - 1
  BY <1>2, <1>3, <1>5, <1>6 DEF Slots
<1>9. \A x, y \in Slots : x # q.first /\ y # q.first
        => (Ahead(p, x) < Ahead(p, y) <=> Ahead(q, x) < Ahead(q, y))
  BY <1>3, <1>5, <1>6
<1>10. \A x \in Slots : x # q.first => Ahead(p, x) < Ahead(p, q.first)
  BY <1>2, <1>3, <1>5, <1>6 DEF Slots
<1>11. \A x \in Slots : x # q.first =>
                  /\ Ahead(q, x) < CursorOf(q) => Ahead(p, x) < CursorOf(p)
                  /\ Ahead(p, x) < CursorOf(p) => Ahead(q, x) < CursorOf(q)
                  /\ CursorOf(p) < Ahead(p, x) => CursorOf(q) < Ahead(q, x)
  <2> SUFFICES ASSUME NEW x \in Slots, x # q.first
               PROVE  /\ Ahead(q, x) < CursorOf(q) => Ahead(p, x) < CursorOf(p)
                      /\ Ahead(p, x) < CursorOf(p) => Ahead(q, x) < CursorOf(q)
                      /\ CursorOf(p) < Ahead(p, x) => CursorOf(q) < Ahead(q, x)
    OBVIOUS
  <2>1. /\ Ahead(p, x) = Ahead(q, x) - d /\ Ahead(q, x) \in Nat
        /\ q.first < Ahead(q, x) /\ Ahead(q, x) < q.first + NFc
    BY <1>5, <1>6, <1>7
  <2> DEFINE a == Ahead(q, x)
             b == Ahead(p, x)
             u == CursorOf(q)
             v == CursorOf(p)
  <2>2. /\ b = a - d /\ a \in Nat /\ q.first < a /\ a < q.first + NFc /\ q.first \in Nat
        /\ q.cur \in Nat /\ q.cur <= NFc
        /\ d \in Nat /\ u = q.first + q.cur
        /\ v = u - d + (IF q.cur # 0 /\ q.cur < NFc THEN 0 ELSE 1)
    BY <2>1, <1>2, <1>3, <1>4 DEF Slots
  <2> HIDE DEF a, b, u, v
  <2>3. (a < u => b < v) /\ (b < v => a < u) /\ (v < b => u < a)
    BY <2>2, <1>2
  <2> QED
    BY <2>3 DEF a, b, u, v
<1> QED
  BY <1>8, <1>9, <1>10, <1>11 DEF p

\* ..., and no task is lost by it.
LEMMA SearchAdvance ==
  ASSUME NEW q, q \in Queues, NEW S, S \in [Slots -> Frames], NEW post, NEW sc,
         Skew(q, S, sc), Old(q, S, post), Listed(q, S), S[q.first].finished
  PROVE  LET p == AdvanceFirst(q)
         IN  Skew(p, S, sc) /\ Old(p, S, post) /\ Listed(p, S)
<1> DEFINE p == AdvanceFirst(q)
<1>1. /\ p \in Queues /\ p.list = q.list /\ p.pend = q.pend /\ p.prev = q.prev
  BY AdvanceFacts
<1>2. /\ \A x, y \in Slots : x # q.first /\ y # q.first
                  => (Ahead(p, x) < Ahead(p, y) <=> Ahead(q, x) < Ahead(q, y))
      /\ \A x \in Slots : x # q.first => Ahead(p, x) < Ahead(p, q.first)
      /\ \A x \in Slots : x # q.first =>
                  /\ Ahead(q, x) < CursorOf(q) => Ahead(p, x) < CursorOf(p)
                  /\ Ahead(p, x) < CursorOf(p) => Ahead(q, x) < CursorOf(q)
                  /\ CursorOf(p) < Ahead(p, x) => CursorOf(q) < Ahead(q, x)
  BY AdvanceRing
<1> HIDE DEF p
<1>3. /\ q.first \in Slots /\ Ahead(q, q.first) = q.first /\ q.first \in Nat
      /\ \A x \in Slots : Ahead(q, x) \in Nat /\ q.first <= Ahead(q, x)
      /\ CursorOf(q) \in Nat
  BY RingFacts
<1>4. /\ CursorOf(p) \in Nat /\ \A x \in Slots : Ahead(p, x) \in Nat
  BY <1>1, RingFacts
<1>5. q.prev[q.first] = NoTask
  <2> SUFFICES ASSUME q.prev[q.first] # NoTask PROVE FALSE
    OBVIOUS
  <2>1. PICK m \in Slots : Ahead(q, m) < Ahead(q, q.first)
    BY <1>3 DEF Skew
  <2> QED
    BY <2>1, <1>3
<1>6. \A x \in Slots : ~ S[x].finished => x # q.first
  OBVIOUS
<1>7. \A m \in Slots : Anchor(q, S, m) => Anchor(p, S, m)
  <2> SUFFICES ASSUME NEW m \in Slots, Anchor(q, S, m) PROVE Anchor(p, S, m)
    OBVIOUS
  <2>1. ~ S[m].finished /\ m # q.first
    BY DEF Anchor
  <2>2. More(q, S, m) => More(p, S, m)
    BY <1>1 DEF More
  <2>3. Ahead(q, m) < CursorOf(q) => Ahead(p, m) < CursorOf(p)
    BY <2>1, <1>2
  <2>4. CursorOf(p) < Ahead(p, m) => CursorOf(q) < Ahead(q, m)
    BY <2>1, <1>2
  <2>5. Ahead(q, m) = CursorOf(q) => Ahead(p, m) < CursorOf(p) \/ Ahead(p, m) = CursorOf(p)
    BY <2>4, <1>3, <1>4
  <2> QED
    BY <2>1, <2>2, <2>3, <2>5 DEF Anchor
<1>8. \A x \in Slots : IsFirst(p, S, x) => IsFirst(q, S, x)
  <2> SUFFICES ASSUME NEW x \in Slots, IsFirst(p, S, x), NEW r \in Slots, ~ S[r].finished
               PROVE  Ahead(q, x) <= Ahead(q, r)
    BY DEF IsFirst
  <2>1. x # q.first /\ r # q.first /\ Ahead(p, x) <= Ahead(p, r)
    BY DEF IsFirst
  <2>2. ~ (Ahead(p, r) < Ahead(p, x))
    BY <2>1, <1>4
  <2>3. ~ (Ahead(q, r) < Ahead(q, x))
    BY <2>1, <2>2, <1>2
  <2> QED
    BY <2>3, <1>3
<1>9. Skew(p, S, sc)
  <2> SUFFICES ASSUME NEW x \in Slots, p.prev[x] # NoTask
               PROVE  /\ S[x].finished => \E m \in Slots : Anchor(p, S, m) /\ Ahead(p, m) < Ahead(p, x)
                      /\ ~ S[x].finished /\ CursorOf(p) < Ahead(p, x) => sc \/ \E m \in Slots : Anchor(p, S, m)
    BY DEF Skew
  <2>1. q.prev[x] # NoTask /\ x # q.first
    BY <1>1, <1>5
  <2>2. ASSUME S[x].finished PROVE \E m \in Slots : Anchor(p, S, m) /\ Ahead(p, m) < Ahead(p, x)
    <3>1. PICK m \in Slots : Anchor(q, S, m) /\ Ahead(q, m) < Ahead(q, x)
      BY <2>1, <2>2 DEF Skew
    <3>2. m # q.first
      BY <3>1 DEF Anchor
    <3> QED
      BY <3>1, <3>2, <2>1, <1>2, <1>7
  <2>3. ASSUME ~ S[x].finished, CursorOf(p) < Ahead(p, x) PROVE sc \/ \E m \in Slots : Anchor(p, S, m)
    <3>1. CursorOf(q) < Ahead(q, x)
      BY <2>1, <2>3, <1>2
    <3>2. sc \/ \E m \in Slots : Anchor(q, S, m)
      BY <2>1, <2>3, <3>1 DEF Skew
    <3> QED
      BY <3>2, <1>7
  <2> QED
    BY <2>2, <2>3
<1>10. Old(p, S, post)
  <2> SUFFICES ASSUME NEW x \in Slots, IsFirst(p, S, x)
               PROVE  /\ p.prev[x] = Gone => p.list[x] = {}
                      /\ \A t \in p.list[x] : ReadyOf(S[x], t) /\ OverIn(p, x, t) => p.pend[x] # {} \/ x \in post
    BY DEF Old
  <2>1. IsFirst(q, S, x) /\ x # q.first
    BY <1>8 DEF IsFirst
  <2>2. \A t : OverIn(p, x, t) => OverIn(q, x, t)
    BY <2>1, <1>1, <1>2 DEF OverIn
  <2> QED
    BY <2>1, <2>2, <1>1 DEF Old
<1>11. Listed(p, S)
  BY <1>1 DEF Listed
<1> QED
  BY <1>9, <1>10, <1>11 DEF p

\* A frame is submitted, behind all that are in progress.
LEMMA SearchNew ==
  ASSUME NEW q, q \in Queues, NEW S, S \in [Slots -> Frames], NEW post, NEW s \in Slots, NEW sc,
         Skew(q, S, sc), Old(q, S, post), S[s].finished, q.list[s] = {}, ~ flush,
         \A r \in Slots : ~ S[r].finished => Ahead(q, r) < Ahead(q, s),
         NEW g \in Frames, ~ g.finished
  PROVE  LET p == Insert(q, s, {InitTask})
             T == With(S, s, g)
         IN  Skew(p, T, sc) /\ Old(p, T, post)
<1> DEFINE p == Insert(q, s, {InitTask})
           T == With(S, s, g)
<1>1. /\ T[s] = g /\ \A x \in Slots : x # s => T[x] = S[x]
  BY WithFacts
<1> HIDE DEF T
<1> DEFINE i == Insert(q, s, {InitTask})
<1>2. {InitTask} \subseteq Tasks /\ {InitTask} # {}
  BY TaskFacts
<1>3. /\ i \in Queues /\ i.first = q.first /\ i.pend = q.pend
      /\ \A x \in Slots : x # s => i.list[x] = q.list[x]
      /\ i.list[s] = q.list[s] \cup {InitTask}
      /\ (i.cur = q.cur /\ i.prev = q.prev) \/ Sooner(q, i)
  BY <1>2, InsertFacts
<1>4. p = i
  OBVIOUS
<1> HIDE DEF i, p
<1>5. /\ p \in Queues /\ p.first = q.first /\ p.pend = q.pend
      /\ \A x \in Slots : x # s => p.list[x] = q.list[x]
      /\ p.list[s] = {InitTask}
      /\ (p.cur = q.cur /\ p.prev = q.prev) \/ Sooner(q, p)
  BY <1>3, <1>4
<1>6. \A x \in Slots : Ahead(p, x) = Ahead(q, x) /\ Ahead(q, x) \in Nat
  BY <1>5, AheadNat DEF Ahead
<1>7. CursorOf(q) \in Nat /\ CursorOf(p) \in Nat
  BY <1>5, AheadNat
<1>8. ASSUME p.cur = q.cur, p.prev = q.prev, NEW m \in Slots, Anchor(q, S, m) PROVE Anchor(p, T, m)
  <2>1. m # s /\ ~ S[m].finished
    BY <1>8 DEF Anchor
  <2>2. More(q, S, m) => More(p, T, m)
    BY <2>1, <1>1, <1>5 DEF More
  <2>3. CursorOf(p) = CursorOf(q)
    BY <1>5, <1>8 DEF CursorOf
  <2> QED
    BY <2>1, <2>2, <2>3, <1>1, <1>6, <1>8 DEF Anchor
<1>9. Skew(p, T, sc)
  <2>1. CASE Sooner(q, p)
    BY <2>1 DEF Sooner, Nowhere, Skew
  <2>2. CASE p.cur = q.cur /\ p.prev = q.prev
    <3> SUFFICES ASSUME NEW x \in Slots, p.prev[x] # NoTask
                 PROVE  /\ T[x].finished => \E m \in Slots : Anchor(p, T, m) /\ Ahead(p, m) < Ahead(p, x)
                        /\ ~ T[x].finished /\ CursorOf(p) < Ahead(p, x) => sc \/ \E m \in Slots : Anchor(p, T, m)
      BY DEF Skew
    <3>1. q.prev[x] # NoTask /\ CursorOf(p) = CursorOf(q)
      BY <2>2, <1>5 DEF CursorOf
    <3>2. S[x].finished => \E m \in Slots : Anchor(p, T, m) /\ Ahead(p, m) < Ahead(p, x)
      <4> SUFFICES ASSUME S[x].finished PROVE \E m \in Slots : Anchor(p, T, m) /\ Ahead(p, m) < Ahead(p, x)
        OBVIOUS
      <4>1. PICK m \in Slots : Anchor(q, S, m) /\ Ahead(q, m) < Ahead(q, x)
        BY <3>1 DEF Skew
      <4> QED
        BY <4>1, <2>2, <1>6, <1>8
    <3>3. ~ S[x].finished /\ CursorOf(q) < Ahead(q, x) => sc \/ \E m \in Slots : Anchor(p, T, m)
      <4> SUFFICES ASSUME ~ S[x].finished, CursorOf(q) < Ahead(q, x), ~ sc
                   PROVE  \E m \in Slots : Anchor(p, T, m)
        OBVIOUS
      <4>1. PICK m \in Slots : Anchor(q, S, m)
        BY <3>1 DEF Skew
      <4> QED
        BY <4>1, <2>2, <1>8
    <3>4. CASE x = s
      BY <3>2, <3>4, <1>1
    <3>5. CASE x # s
      BY <3>1, <3>2, <3>3, <3>5, <1>1, <1>6
    <3> QED
      BY <3>4, <3>5
  <2> QED
    BY <2>1, <2>2, <1>5
<1>10. Old(p, T, post)
  <2> SUFFICES ASSUME NEW x \in Slots, IsFirst(p, T, x)
               PROVE  /\ p.prev[x] = Gone => p.list[x] = {}
                      /\ \A t \in p.list[x] : ReadyOf(T[x], t) /\ OverIn(p, x, t) => p.pend[x] # {} \/ x \in post
    BY DEF Old
  <2>1. CASE x = s
    <3>1. \A r \in Slots : S[r].finished
      <4> SUFFICES ASSUME NEW r \in Slots, ~ S[r].finished PROVE FALSE
        OBVIOUS
      <4>1. r # s /\ ~ T[r].finished /\ Ahead(q, r) < Ahead(q, s)
        BY <1>1
      <4>2. Ahead(p, s) <= Ahead(p, r)
        BY <4>1, <2>1 DEF IsFirst
      <4>3. /\ Ahead(p, s) = Ahead(q, s) /\ Ahead(p, r) = Ahead(q, r)
            /\ Ahead(q, s) \in Nat /\ Ahead(q, r) \in Nat
        BY <1>6
      <4> QED
        BY <4>1, <4>2, <4>3
    <3>2. \A m \in Slots : ~ Anchor(q, S, m)
      BY <3>1 DEF Anchor
    <3>3. q.prev[s] = NoTask
      BY <3>1, <3>2 DEF Skew
    <3>4. p.prev[s] = NoTask
      BY <3>3, <1>5 DEF Sooner, Nowhere
    <3>5. ~ ReadyOf(g, InitTask)
      BY TaskFacts DEF ReadyOf
    <3> QED
      BY <3>4, <3>5, <2>1, <1>1, <1>5, NoneFacts
  <2>2. CASE x # s
    <3>1. T[x] = S[x] /\ p.list[x] = q.list[x] /\ p.pend[x] = q.pend[x]
      BY <2>2, <1>1, <1>5
    <3>2. IsFirst(q, S, x)
      <4>1. ~ S[x].finished
        BY <3>1 DEF IsFirst
      <4> SUFFICES ASSUME NEW r \in Slots, ~ S[r].finished PROVE Ahead(q, x) <= Ahead(q, r)
        BY <4>1 DEF IsFirst
      <4>2. r # s
        OBVIOUS
      <4>3. ~ T[r].finished
        BY <4>2, <1>1
      <4> QED
        BY <4>3, <1>6 DEF IsFirst
    <3>3. CASE p.cur = q.cur /\ p.prev = q.prev
      <4>1. \A t : OverIn(p, x, t) => OverIn(q, x, t)
        BY <3>3, <1>5, <1>6 DEF OverIn, CursorOf
      <4> QED
        BY <3>1, <3>2, <3>3, <4>1 DEF Old
    <3>4. CASE Sooner(q, p)
      <4>1. p.prev[x] = NoTask
        BY <3>4 DEF Sooner, Nowhere
      <4>2. ASSUME NEW t \in p.list[x], OverIn(p, x, t) PROVE OverIn(q, x, t)
        BY <3>4, <4>1, <4>2, <1>6 DEF Sooner, OverIn
      <4> QED
        BY <3>1, <3>2, <4>1, <4>2, NoneFacts DEF Old
    <3> QED
      BY <3>3, <3>4, <1>5
  <2> QED
    BY <2>1, <2>2
<1> QED
  BY <1>9, <1>10 DEF p, T

(***************************************************************************)
(* The workers.  The tasks of those at a place of C with slot s:           *)
(***************************************************************************)
Posting == {"async", "swap", "signal", "publish"}
Hands == {"run", "leave"} \cup Posting
Post == Posting \cup {"leave"}

In(A, J, C, s) == {J[w].task : w \in {v \in Workers : A[v] \in C /\ J[v].slot = s}}

\* No two workers have one task.
Sole(A, J) ==
  \A v, w \in Workers :
    A[v] \in Hands /\ A[w] \in Hands /\ J[v].slot = J[w].slot /\ J[v].task = J[w].task => v = w

Jobs == [slot : Slots, task : Tasks \cup {NoTask}, idx : 0 .. MAX, first : Slots]

\* What the others hold stays as it is when w does a step.
Others(A, J, B, K, w) ==
  \A v \in Workers \ {w} :
    /\ B[v] = A[v] \/ (A[v] = "wait" /\ B[v] = "woken")
    /\ K[v].slot = J[v].slot /\ K[v].task = J[v].task

\* Who holds a task.
LEMMA InIs ==
  ASSUME NEW A, NEW J, NEW C, NEW s, NEW t
  PROVE  t \in In(A, J, C, s) <=> \E v \in Workers : A[v] \in C /\ J[v].slot = s /\ J[v].task = t
  BY DEF In

\* The tasks that are held when one worker does a step.
LEMMA InStep ==
  ASSUME NEW A, NEW J, NEW B, NEW K, NEW w \in Workers, NEW C, C \subseteq Hands,
         Sole(A, J), Others(A, J, B, K, w), NEW x
  PROVE  In(B, K, C, x) = (In(A, J, C, x) \ (IF A[w] \in C /\ J[w].slot = x THEN {J[w].task} ELSE {}))
                          \cup (IF B[w] \in C /\ K[w].slot = x THEN {K[w].task} ELSE {})
<1> DEFINE D == IF A[w] \in C /\ J[w].slot = x THEN {J[w].task} ELSE {}
           N == IF B[w] \in C /\ K[w].slot = x THEN {K[w].task} ELSE {}
<1>1. \A v \in Workers \ {w} : /\ B[v] \in C <=> A[v] \in C
                               /\ K[v].slot = J[v].slot /\ K[v].task = J[v].task
  <2>1. "wait" \notin C /\ "woken" \notin C
    BY DEF Hands, Posting
  <2> QED
    BY <2>1 DEF Others
<1>2. ASSUME NEW t PROVE t \in D <=> A[w] \in C /\ J[w].slot = x /\ J[w].task = t
  OBVIOUS
<1>3. ASSUME NEW t PROVE t \in N <=> B[w] \in C /\ K[w].slot = x /\ K[w].task = t
  OBVIOUS
<1> HIDE DEF D, N
<1>4. ASSUME NEW t PROVE t \in In(B, K, C, x) <=> t \in (In(A, J, C, x) \ D) \cup N
  <2>1. ASSUME t \in In(B, K, C, x) PROVE t \in (In(A, J, C, x) \ D) \cup N
    <3>1. PICK v \in Workers : B[v] \in C /\ K[v].slot = x /\ K[v].task = t
      BY <2>1, InIs
    <3>2. CASE v = w
      BY <3>1, <3>2, <1>3
    <3>3. CASE v # w
      <4>1. A[v] \in C /\ J[v].slot = x /\ J[v].task = t
        BY <3>1, <3>3, <1>1
      <4>2. t \notin D
        BY <3>3, <4>1, <1>2 DEF Sole
      <4> QED
        BY <4>1, <4>2, InIs
    <3> QED
      BY <3>2, <3>3
  <2>2. ASSUME t \in N PROVE t \in In(B, K, C, x)
    BY <2>2, <1>3, InIs
  <2>3. ASSUME t \in In(A, J, C, x), t \notin D PROVE t \in In(B, K, C, x)
    <3>1. PICK v \in Workers : A[v] \in C /\ J[v].slot = x /\ J[v].task = t
      BY <2>3, InIs
    <3>2. v # w
      BY <3>1, <2>3, <1>2
    <3>3. B[v] \in C /\ K[v].slot = x /\ K[v].task = t
      BY <3>1, <3>2, <1>1
    <3> QED
      BY <3>3, InIs
  <2> QED
    BY <2>1, <2>2, <2>3
<1> QED
  BY <1>4 DEF D, N

\* A worker comes to a task, or leaves one, or goes on with another one.
LEMMA SoleStep ==
  ASSUME NEW A, NEW J, NEW B, NEW K, NEW w \in Workers,
         Sole(A, J), Others(A, J, B, K, w),
         B[w] \in Hands =>
            \/ A[w] \in Hands /\ K[w].slot = J[w].slot /\ K[w].task = J[w].task
            \/ \A v \in Workers \ {w} : ~ (A[v] \in Hands /\ J[v].slot = K[w].slot /\ J[v].task = K[w].task)
  PROVE  Sole(B, K)
<1>1. \A v \in Workers \ {w} : /\ B[v] \in Hands <=> A[v] \in Hands
                               /\ K[v].slot = J[v].slot /\ K[v].task = J[v].task
  <2>1. "wait" \notin Hands /\ "woken" \notin Hands
    BY DEF Hands, Posting
  <2> QED
    BY <2>1 DEF Others
<1>2. ASSUME NEW v \in Workers \ {w}, B[w] \in Hands, B[v] \in Hands, K[v].slot = K[w].slot, K[v].task = K[w].task
      PROVE  FALSE
  <2>1. A[v] \in Hands /\ J[v].slot = K[w].slot /\ J[v].task = K[w].task
    BY <1>1, <1>2
  <2>2. A[w] \in Hands /\ K[w].slot = J[w].slot /\ K[w].task = J[w].task
    BY <1>2, <2>1
  <2> QED
    BY <2>1, <2>2 DEF Sole
<1> SUFFICES ASSUME NEW u \in Workers, NEW v \in Workers, B[u] \in Hands, B[v] \in Hands,
                    K[u].slot = K[v].slot, K[u].task = K[v].task
             PROVE  u = v
  BY DEF Sole
<1>3. CASE u = w
  BY <1>2, <1>3
<1>4. CASE v = w
  BY <1>2, <1>4
<1>5. CASE u # w /\ v # w
  BY <1>1, <1>5 DEF Sole
<1> QED
  BY <1>3, <1>4, <1>5

(***************************************************************************)
(* The frames in a state: a queue q, the places A, the jobs J, the slots S *)
(* and whether a flush is on.                                              *)
(***************************************************************************)
QueueOf(q, s) == q.list[s] \cup q.pend[s]

UnitAt(q, A, J, S, s) ==
  Unit(QueueOf(q, s), In(A, J, {"run"}, s), In(A, J, Posting, s), In(A, J, {"leave"}, s), S[s])
WholeAt(q, A, J, S, s) ==
  Whole(QueueOf(q, s), In(A, J, {"run"}, s), In(A, J, Posting, s), In(A, J, {"leave"}, s), S[s])

UnitsOf(q, A, J, S, fl) ==
  /\ Sole(A, J)
  /\ \A s \in Slots : /\ q.list[s] \cap q.pend[s] = {}
                      /\ UnitAt(q, A, J, S, s)
                      /\ ~ fl => WholeAt(q, A, J, S, s)

\* The tasks in hands.
LEMMA HandFacts ==
  ASSUME NEW q, NEW A, NEW J, NEW S, NEW fl, UnitsOf(q, A, J, S, fl), NEW w \in Workers,
         A[w] \in Hands, J[w].slot \in Slots
  PROVE  LET s == J[w].slot
             t == J[w].task
         IN  /\ t \in Tasks /\ t \notin QueueOf(q, s)
             /\ A[w] = "run" => t \in In(A, J, {"run"}, s)
             /\ A[w] \in Posting => t \in In(A, J, Posting, s) /\ t \in RowTasks
             /\ A[w] = "leave" => t \in In(A, J, {"leave"}, s) /\ t \in RowTasks
<1> DEFINE s == J[w].slot
           t == J[w].task
<1>1. /\ A[w] = "run" => t \in In(A, J, {"run"}, s)
      /\ A[w] \in Posting => t \in In(A, J, Posting, s)
      /\ A[w] = "leave" => t \in In(A, J, {"leave"}, s)
  BY InIs
<1>2. ApartIn(QueueOf(q, s), In(A, J, {"run"}, s), In(A, J, Posting, s), In(A, J, {"leave"}, s))
  BY DEF UnitsOf, UnitAt, Unit
<1>3. A[w] = "run" \/ A[w] \in Posting \/ A[w] = "leave"
  BY DEF Hands
<1>4. RowTasks \subseteq Tasks
  BY TaskFacts DEF RowTasks
<1> HIDE DEF s, t
<1>5. t \in Tasks /\ t \notin QueueOf(q, s)
  BY <1>1, <1>2, <1>3, <1>4 DEF ApartIn
<1>6. (A[w] \in Posting => t \in RowTasks) /\ (A[w] = "leave" => t \in RowTasks)
  BY <1>1, <1>2 DEF ApartIn
<1> QED
  BY <1>1, <1>5, <1>6 DEF s, t

\* A task that is queued, or is in no hand, is in no hand.
LEMMA FreeFacts ==
  ASSUME NEW q, NEW A, NEW J, NEW S, NEW fl, UnitsOf(q, A, J, S, fl), NEW s \in Slots, NEW t,
         \/ t \in QueueOf(q, s)
         \/ /\ t \notin In(A, J, {"run"}, s) /\ t \notin In(A, J, Posting, s)
            /\ t \notin In(A, J, {"leave"}, s),
         NEW v \in Workers
  PROVE  ~ (A[v] \in Hands /\ J[v].slot = s /\ J[v].task = t)
<1> SUFFICES ASSUME A[v] \in Hands, J[v].slot = s, J[v].task = t PROVE FALSE
  OBVIOUS
<1>1. A[v] = "run" \/ A[v] \in Posting \/ A[v] = "leave"
  BY DEF Hands
<1>2. \/ t \in In(A, J, {"run"}, s)
      \/ t \in In(A, J, Posting, s)
      \/ t \in In(A, J, {"leave"}, s)
  BY <1>1, InIs
<1>3. t \notin QueueOf(q, s)
  BY HandFacts
<1> QED
  BY <1>2, <1>3

\* A step of a worker that touches one frame.
LEMMA UnitsStep ==
  ASSUME NEW q, NEW A, NEW J, NEW S, NEW fl, UnitsOf(q, A, J, S, fl),
         NEW p, NEW B, NEW K, NEW T, NEW gl, fl => gl,
         NEW w \in Workers, Others(A, J, B, K, w), NEW s \in Slots,
         A[w] \in Hands => J[w].slot = s,
         B[w] \in Hands => K[w].slot = s,
         \A x \in Slots \ {s} : /\ QueueOf(p, x) = QueueOf(q, x) /\ p.list[x] \cap p.pend[x] = {}
                                /\ T[x] = S[x],
         p.list[s] \cap p.pend[s] = {},
         UnitAt(p, B, K, T, s), ~ gl => WholeAt(p, B, K, T, s),
         Sole(B, K)
  PROVE  UnitsOf(p, B, K, T, gl)
<1> SUFFICES ASSUME NEW x \in Slots, x # s
             PROVE  UnitAt(p, B, K, T, x) /\ (~ gl => WholeAt(p, B, K, T, x))
  BY DEF UnitsOf
<1>1. Sole(A, J)
  BY DEF UnitsOf
<1>2. ASSUME NEW C, C \subseteq Hands PROVE In(B, K, C, x) = In(A, J, C, x)
  <2>1. ~ (A[w] \in C /\ J[w].slot = x) /\ ~ (B[w] \in C /\ K[w].slot = x)
    BY <1>2
  <2>2. In(B, K, C, x) = (In(A, J, C, x) \ (IF A[w] \in C /\ J[w].slot = x THEN {J[w].task} ELSE {}))
                          \cup (IF B[w] \in C /\ K[w].slot = x THEN {K[w].task} ELSE {})
    BY <1>1, <1>2, InStep
  <2> QED
    BY <2>1, <2>2
<1>3. /\ In(B, K, {"run"}, x) = In(A, J, {"run"}, x)
      /\ In(B, K, Posting, x) = In(A, J, Posting, x)
      /\ In(B, K, {"leave"}, x) = In(A, J, {"leave"}, x)
  BY <1>2 DEF Hands
<1> QED
  BY <1>3 DEF UnitsOf, UnitAt, WholeAt

\* The places change, and no worker comes to a task or leaves one.
LEMMA UnitsIdle ==
  ASSUME NEW q, NEW A, NEW J, NEW S, NEW fl, UnitsOf(q, A, J, S, fl),
         NEW p, NEW B, NEW K, NEW gl, fl => gl, \A s \in Slots : p.list[s] \cap p.pend[s] = {},
         \A s \in Slots : QueueOf(p, s) = QueueOf(q, s) \/ (gl /\ QueueOf(p, s) \subseteq QueueOf(q, s)),
         \A v \in Workers : /\ B[v] \in Hands <=> A[v] \in Hands
                            /\ A[v] \in Hands => /\ B[v] = A[v] \/ (A[v] \in Posting /\ B[v] \in Posting)
                                                 /\ K[v].slot = J[v].slot /\ K[v].task = J[v].task
  PROVE  UnitsOf(p, B, K, S, gl)
<1>1. Sole(B, K)
  BY DEF UnitsOf, Sole
<1>2. ASSUME NEW s, NEW C, C \in {{"run"}, Posting, {"leave"}} PROVE In(B, K, C, s) = In(A, J, C, s)
  <2>1. \A v \in Workers : B[v] \in C <=> A[v] \in C
    BY <1>2 DEF Hands, Posting
  <2>2. \A v \in Workers : A[v] \in C => K[v].slot = J[v].slot /\ K[v].task = J[v].task
    BY <1>2 DEF Hands
  <2>3. ASSUME NEW t PROVE t \in In(B, K, C, s) <=> t \in In(A, J, C, s)
    <3>1. (\E v \in Workers : B[v] \in C /\ K[v].slot = s /\ K[v].task = t)
            <=> (\E v \in Workers : A[v] \in C /\ J[v].slot = s /\ J[v].task = t)
      BY <2>1, <2>2
    <3> QED
      BY <3>1, InIs
  <2>4. \A t : t \in In(B, K, C, s) <=> t \in In(A, J, C, s)
    BY <2>3
  <2> QED
    BY <2>4
<1>3. \A s : /\ In(B, K, {"run"}, s) = In(A, J, {"run"}, s)
             /\ In(B, K, Posting, s) = In(A, J, Posting, s)
             /\ In(B, K, {"leave"}, s) = In(A, J, {"leave"}, s)
  BY <1>2
<1>4. ASSUME NEW s \in Slots PROVE UnitAt(p, B, K, S, s) /\ (~ gl => WholeAt(p, B, K, S, s))
  <2>1. UnitAt(q, A, J, S, s) /\ (~ fl => WholeAt(q, A, J, S, s))
    BY DEF UnitsOf
  <2>2. CASE QueueOf(p, s) = QueueOf(q, s)
    BY <2>1, <2>2, <1>3 DEF UnitAt, WholeAt
  <2>3. CASE gl /\ QueueOf(p, s) \subseteq QueueOf(q, s)
    BY <2>1, <2>3, <1>3, UnitDrop DEF UnitAt
  <2> QED
    BY <2>2, <2>3
<1> QED
  BY <1>1, <1>4 DEF UnitsOf

(***************************************************************************)
(* The invariant.                                                          *)
(***************************************************************************)
Mains == [in : {"idle", "drain", "flush"}, next : Slots, left : 0 .. NFc, drained : BOOLEAN,
          newest : Nat]
Kinds == {"intra", "inter", "existing", "rejected"}
CallsIn == [frames : Nat, kinds : SUBSET Kinds, flushes : Nat, drains : Nat, whole : BOOLEAN]

ShapeOK ==
  /\ tq \in Queues
  /\ lock \in SUBSET Workers /\ at \in [Workers -> Places] /\ job \in [Workers -> Jobs]
  /\ slot \in [Slots -> Frames]
  /\ main \in Mains /\ (main.in = "drain" => main.left >= 1)
  /\ flush \in BOOLEAN /\ (flush <=> main.in = "flush")
  /\ calls \in CallsIn

\* Who searches holds the lock, and nobody else but those who are about to.
LockOK ==
  /\ \A v, w \in lock : v = w
  /\ \A w \in Workers : at[w] \in {"scan", "park"} => w \in lock
  /\ \A w \in lock : at[w] \in {"outer", "scan", "park"}

UnitsOK == UnitsOf(tq, at, job, slot, flush)

PostOf(A, J) == {J[w].slot : w \in {v \in Workers : A[v] \in Post}}
Scanning(A) == \E w \in Workers : A[w] = "scan"

SearchOK == ~ flush => Skew(tq, slot, Scanning(at)) /\ Old(tq, slot, PostOf(at, job))

\* While there is something to do a worker is awake and will look at it.
SleepOK ==
  /\ \A s \in Slots : ~ flush /\ InitReady(tq, s) => \E w \in Workers : at[w] \notin {"wait", "scan", "park"}
  /\ \A s \in Slots : ~ flush /\ tq.pend[s] # {} => \E w \in Workers : at[w] = "outer"
  /\ tq.signaled => \E w \in Workers : at[w] # "wait"
  /\ \A w \in Workers : at[w] = "park" => tq.cur = NFc
  /\ ~ flush /\ (\A w \in Workers : at[w] = "wait") => tq.cur = NFc

(***************************************************************************)
(* The steps.                                                              *)
(***************************************************************************)
Goes(w, p) ==
  /\ at' \in [Workers -> Places] /\ at'[w] = p
  /\ \A v \in Workers \ {w} : at'[v] = at[v] \/ (at[v] = "wait" /\ at'[v] = "woken")

\* A worker goes on, ...
LEMMA GoFacts ==
  ASSUME at \in [Workers -> Places], NEW w \in Workers, NEW p \in Places, Go(w, p)
  PROVE  Goes(w, p) /\ \A v \in Workers \ {w} : at'[v] = at[v]
  BY DEF Go, Goes

\* ..., and wakes another, ...
LEMMA NotifyFacts ==
  ASSUME at \in [Workers -> Places], NEW w \in Workers, NEW p \in Places, at[w] # "wait",
         GoAndNotify(w, p)
  PROVE  Goes(w, p)
<1>1. CASE Sleeping = {}
  BY <1>1 DEF GoAndNotify, Goes
<1>2. CASE Sleeping # {}
  <2>1. PICK v \in Sleeping : at' = [at EXCEPT ![w] = p, ![v] = "woken"]
    BY <1>2 DEF GoAndNotify
  <2>2. v \in Workers /\ at[v] = "wait" /\ v # w /\ "woken" \in Places
    BY DEF Sleeping, Places
  <2> QED
    BY <2>1, <2>2 DEF Goes
<1> QED
  BY <1>1, <1>2

\* ..., or does so unless somebody was signaled already.
LEMMA SignalFacts ==
  ASSUME at \in [Workers -> Places], NEW w \in Workers, NEW p \in Places, at[w] # "wait",
         NEW q, Signal(w, p, q)
  PROVE  Goes(w, p) /\ tq' = [q EXCEPT !.signaled = TRUE]
<1>1. tq' = [q EXCEPT !.signaled = TRUE]
  BY DEF Signal
<1>2. Go(w, p) \/ GoAndNotify(w, p)
  BY DEF Signal
<1> QED
  BY <1>1, <1>2, GoFacts, NotifyFacts

\* The search for Init and InitCdf.
LEMMA FirstInitFacts ==
  ASSUME NEW q, q \in Queues
  PROVE  /\ FirstInit(q) < NFc => /\ (q.first + FirstInit(q)) % NFc \in Slots
                                  /\ InitReady(q, (q.first + FirstInit(q)) % NFc)
         /\ ~ (FirstInit(q) < NFc) => \A s \in Slots : ~ InitReady(q, s)
<1> DEFINE F == {k \in Slots : InitReady(q, (q.first + k) % NFc)}
           S == {NFc} \cup F
<1>1. /\ NFc \in Nat /\ Slots \subseteq Nat /\ q.first \in Slots
      /\ \A k \in Slots : k < NFc
  BY SizeAssumption DEF Slots, Queues
<1>2. S \subseteq Nat /\ S # {}
  BY <1>1
<1>3. FirstInit(q) = Min(S)
  BY DEF FirstInit
<1> HIDE DEF S
<1>4. FirstInit(q) \in S /\ \A x \in S : FirstInit(q) <= x
  BY <1>2, <1>3, MinFacts
<1>5. ASSUME FirstInit(q) < NFc
      PROVE  /\ (q.first + FirstInit(q)) % NFc \in Slots
             /\ InitReady(q, (q.first + FirstInit(q)) % NFc)
  <2>1. FirstInit(q) \in F
    BY <1>1, <1>4, <1>5 DEF S
  <2> QED
    BY <2>1, RingFacts
<1>6. ASSUME ~ (FirstInit(q) < NFc), NEW s \in Slots, InitReady(q, s) PROVE FALSE
  <2>1. PICK k \in Slots : k = Ahead(q, s) - q.first /\ (q.first + k) % NFc = s
    BY RingFacts
  <2>2. k \in S
    BY <1>6, <2>1 DEF S
  <2>3. FirstInit(q) \in Nat
    BY <1>2, <1>4
  <2> QED
    BY <1>1, <1>4, <1>6, <2>2, <2>3
<1> QED
  BY <1>5, <1>6

\* What a worker does at the start of its loop: it parks, goes on to the frames, or has found
\* an Init or InitCdf.
LEMMA OuterFacts ==
  ASSUME ShapeOK, NEW w \in Workers, Outer(w)
  PROVE  /\ at[w] = "outer" /\ Locks(w) /\ UNCHANGED <<slot, main, flush, calls>>
         /\ \/ flush /\ tq' = Park(w) /\ lock' = {} /\ Goes(w, "wait") /\ job' = job
            \/ /\ ~ flush /\ tq' = MergePending(tq) /\ lock' = {w} /\ Goes(w, "scan") /\ job' = job
               /\ \A s \in Slots : ~ InitReady(MergePending(tq), s)
            \/ /\ ~ flush /\ lock' = {} /\ Goes(w, "run")
               /\ \E s \in Slots : \E t \in {InitTask, InitCdf} :
                    /\ t \in MergePending(tq).list[s] /\ ~ slot[s].initDone
                    /\ tq' = Taken(MergePending(tq), s, t)
                    /\ job' = [job EXCEPT ![w].slot = s, ![w].task = t]
<1>1. /\ at[w] = "outer" /\ Locks(w) /\ UNCHANGED <<slot, main, flush, calls>>
      /\ \/ flush /\ tq' = Park(w) /\ lock' = {} /\ Go(w, "wait") /\ job' = job
         \/ ~ flush /\ SearchInit(w, MergePending(tq))
  BY DEF Outer
<1> DEFINE q == MergePending(tq)
<1>2. q \in Queues
  BY MergeFacts DEF ShapeOK
<1>3. at \in [Workers -> Places] /\ "wait" \in Places /\ "scan" \in Places /\ "run" \in Places
  BY DEF ShapeOK, Places
<1> HIDE DEF q
<1>4. CASE flush /\ tq' = Park(w) /\ lock' = {} /\ Go(w, "wait") /\ job' = job
  BY <1>1, <1>3, <1>4, GoFacts
<1>5. CASE ~ flush /\ SearchInit(w, q)
  <2>1. CASE FirstInit(q) < NFc
    <3> DEFINE s == (q.first + FirstInit(q)) % NFc
    <3>1. Found(w, q, s, Head(q, s))
      BY <1>5, <2>1 DEF SearchInit
    <3>2. s \in Slots /\ InitReady(q, s)
      BY <1>2, <2>1, FirstInitFacts
    <3> HIDE DEF s
    <3> DEFINE t == Head(q, s)
    <3>3. t \in {InitTask, InitCdf} /\ t \in q.list[s] /\ ~ slot[s].initDone
      BY <3>2 DEF Head, InitReady
    <3> HIDE DEF t
    <3>4. /\ tq' = Taken(q, s, t) /\ job' = [job EXCEPT ![w].slot = s, ![w].task = t]
          /\ GoAndNotify(w, "run") /\ lock' = {}
      BY <3>1 DEF Found, Taken, t
    <3>5. Goes(w, "run")
      BY <3>4, <1>1, <1>3, NotifyFacts
    <3> QED
      BY <1>1, <1>5, <3>2, <3>3, <3>4, <3>5 DEF q
  <2>2. CASE ~ (FirstInit(q) < NFc)
    <3>1. tq' = q /\ lock' = {w} /\ Go(w, "scan") /\ job' = job
      BY <1>5, <2>2 DEF SearchInit
    <3>2. Goes(w, "scan")
      BY <3>1, <1>3, GoFacts
    <3>3. \A s \in Slots : ~ InitReady(q, s)
      BY <1>2, <2>2, FirstInitFacts
    <3> QED
      BY <1>1, <1>5, <3>1, <3>2, <3>3 DEF q
  <2> QED
    BY <2>1, <2>2
<1> QED
  BY <1>1, <1>4, <1>5 DEF q

\* The column that is queued as one is taken.
NextCols(t) ==
  IF t.type = DeblockCols(0).type /\ t.row + 1 < Sbh THEN {DeblockCols(t.row + 1)} ELSE {}

\* What a worker does in a frame: it goes past it, or takes its first ready task.
LEMMA ScanFacts ==
  ASSUME ShapeOK, NEW w \in Workers, Scan(w)
  PROVE  LET c == AtCursor(tq)
             q == MergeFrame(tq, c)
         IN  /\ at[w] = "scan" /\ tq.cur < NFc /\ UNCHANGED <<slot, main, flush, calls>>
             /\ c \in Slots /\ Ahead(tq, c) = CursorOf(tq)
             /\ \E ts \in After(q, c) :
                  \/ /\ \A t \in ts : ~ Ready(c, t)
                     /\ tq' = Beyond(q, c, ts)
                     /\ lock' = {w} /\ job' = job /\ at' = at
                  \/ \E t \in ts :
                       /\ Ready(c, t) /\ \A u \in ts : Before(u, t) => ~ Ready(c, u)
                       /\ tq' = Taken(Opened(q, c, UpTo(ts, t), NextCols(t)), c, t)
                       /\ lock' = {} /\ job' = [job EXCEPT ![w].slot = c, ![w].task = t]
                       /\ Goes(w, "run")
<1> DEFINE c == AtCursor(tq)
           q == MergeFrame(tq, c)
<1>1. at[w] = "scan" /\ tq.cur < NFc /\ SearchFrame(w, q, c) /\ UNCHANGED <<slot, main, flush, calls>>
  BY DEF Scan
<1>2. c \in Slots /\ Ahead(tq, c) = CursorOf(tq)
  BY <1>1, RingFacts DEF ShapeOK
<1>3. at \in [Workers -> Places] /\ "run" \in Places
  BY DEF ShapeOK, Places
<1> HIDE DEF c, q
<1>4. PICK ts \in After(q, c) :
        \/ (\A t \in ts : ~ Ready(c, t)) /\ Pass(w, q, c, ts)
        \/ \E t \in ts : /\ Ready(c, t) /\ \A u \in ts : Before(u, t) => ~ Ready(c, u)
                         /\ Take(w, Over(q, c, {u \in ts : Before(u, t)}), c, t)
  BY <1>1 DEF SearchFrame
<1>5. CASE (\A t \in ts : ~ Ready(c, t)) /\ Pass(w, q, c, ts)
  <2>1. /\ tq' = Beyond(q, c, ts)
        /\ lock' = {w} /\ job' = job /\ at' = at
    BY <1>5 DEF Pass, Beyond
  <2> QED
    BY <1>1, <1>2, <1>5, <2>1 DEF c, q
<1>6. CASE \E t \in ts : /\ Ready(c, t) /\ \A u \in ts : Before(u, t) => ~ Ready(c, u)
                         /\ Take(w, Over(q, c, {u \in ts : Before(u, t)}), c, t)
  <2>1. PICK t \in ts : /\ Ready(c, t) /\ \A u \in ts : Before(u, t) => ~ Ready(c, u)
                        /\ Take(w, Over(q, c, {u \in ts : Before(u, t)}), c, t)
    BY <1>6
  <2> DEFINE v == Over(q, c, UpTo(ts, t))
             x == Opened(q, c, UpTo(ts, t), NextCols(t))
  <2>2. Take(w, v, c, t)
    BY <2>1 DEF UpTo
  <2>6. x = IF NextCols(t) = {} THEN v ELSE Insert(v, c, NextCols(t))
    BY DEF Opened
  <2> HIDE DEF v, x
  <2>3. Found(w, x, c, t)
    BY <2>2, <2>6 DEF Take, NextCols
  <2>4. /\ tq' = Taken(x, c, t) /\ job' = [job EXCEPT ![w].slot = c, ![w].task = t]
        /\ GoAndNotify(w, "run") /\ lock' = {}
    BY <2>3 DEF Found, Taken
  <2>5. Goes(w, "run")
    BY <2>4, <1>1, <1>3, NotifyFacts
  <2> QED
    BY <1>1, <1>2, <2>1, <2>4, <2>5 DEF c, q, x
<1> QED
  BY <1>4, <1>5, <1>6

\* Who is about to move the cursor back, and who searches, after a step of w.
LEMMA PostStep ==
  ASSUME NEW A, NEW J, NEW B, NEW K, NEW w \in Workers, Others(A, J, B, K, w)
  PROVE  /\ PostOf(A, J) \ {J[w].slot} \subseteq PostOf(B, K)
         /\ A[w] \notin Post \/ (B[w] \in Post /\ K[w].slot = J[w].slot)
              => PostOf(A, J) \subseteq PostOf(B, K)
         /\ B[w] \in Post => K[w].slot \in PostOf(B, K)
         /\ A[w] # "scan" => (Scanning(A) => Scanning(B))
         /\ B[w] = "scan" => Scanning(B)
<1>1. \A v \in Workers \ {w} : A[v] \in Post => B[v] \in Post /\ K[v].slot = J[v].slot
  BY DEF Others, Post, Posting
<1>2. \A v \in Workers \ {w} : A[v] = "scan" => B[v] = "scan"
  BY DEF Others
<1>3. PostOf(A, J) \ {J[w].slot} \subseteq PostOf(B, K)
  BY <1>1 DEF PostOf
<1>4. ASSUME A[w] \notin Post \/ (B[w] \in Post /\ K[w].slot = J[w].slot)
      PROVE  PostOf(A, J) \subseteq PostOf(B, K)
  <2> SUFFICES ASSUME NEW v \in Workers, A[v] \in Post PROVE J[v].slot \in PostOf(B, K)
    BY DEF PostOf
  <2>1. B[v] \in Post /\ K[v].slot = J[v].slot
    BY <1>1, <1>4
  <2> QED
    BY <2>1 DEF PostOf
<1>5. B[w] \in Post => K[w].slot \in PostOf(B, K)
  BY DEF PostOf
<1>6. A[w] # "scan" => (Scanning(A) => Scanning(B))
  BY <1>2 DEF Scanning
<1>7. B[w] = "scan" => Scanning(B)
  BY DEF Scanning
<1> QED
  BY <1>3, <1>4, <1>5, <1>6, <1>7

\* A search that goes on explains more.
LEMMA SkewMonotone ==
  ASSUME NEW q, NEW S, NEW a, NEW b, Skew(q, S, a), a => b
  PROVE  Skew(q, S, b)
  BY DEF Skew

\* Neither reset_task_cur nor cond_signaled say anything of the search.
LEMMA SearchQuiet ==
  ASSUME NEW q, NEW p, p.first = q.first, p.cur = q.cur, p.prev = q.prev, p.list = q.list,
         p.pend = q.pend, NEW S, NEW post, NEW sc
  PROVE  /\ Skew(q, S, sc) => Skew(p, S, sc)
         /\ Old(q, S, post) => Old(p, S, post)
<1>1. \A x \in Slots : Ahead(p, x) = Ahead(q, x)
  BY DEF Ahead
<1>2. CursorOf(p) = CursorOf(q)
  BY DEF CursorOf
<1>3. \A m \in Slots : Anchor(q, S, m) => Anchor(p, S, m)
  BY <1>1, <1>2 DEF Anchor, More
<1>4. \A x \in Slots : IsFirst(p, S, x) => IsFirst(q, S, x)
  BY <1>1 DEF IsFirst
<1>5. \A x \in Slots : \A t : OverIn(p, x, t) => OverIn(q, x, t)
  BY <1>1, <1>2 DEF OverIn
<1>6. ASSUME Skew(q, S, sc) PROVE Skew(p, S, sc)
  BY <1>6, <1>1, <1>2, <1>3 DEF Skew
<1>7. ASSUME Old(q, S, post) PROVE Old(p, S, post)
  BY <1>7, <1>4, <1>5 DEF Old
<1> QED
  BY <1>6, <1>7

\* No task of a finished frame is left.
LEMMA ListedOf ==
  ASSUME NEW q, NEW A, NEW J, NEW S, NEW fl, UnitsOf(q, A, J, S, fl)
  PROVE  Listed(q, S)
<1> SUFFICES ASSUME NEW s \in Slots, S[s].finished PROVE q.list[s] = {} /\ q.pend[s] = {}
  BY DEF Listed
<1>1. QueueOf(q, s) = {}
  BY DEF UnitsOf, UnitAt, Unit, StagesIn
<1> QED
  BY <1>1 DEF QueueOf

\* The others keep what they hold.
LEMMA GoesOthers ==
  ASSUME NEW w \in Workers, NEW p, Goes(w, p),
         \A v \in Workers \ {w} : job'[v].slot = job[v].slot /\ job'[v].task = job[v].task
  PROVE  Others(at, job, at', job', w)
  BY DEF Goes, Others

\* Only who holds the lock goes through the frames.
LEMMA NoScan ==
  ASSUME LockOK, NEW w \in Workers, lock \subseteq {w}, at[w] # "scan"
  PROVE  ~ Scanning(at)
  BY DEF LockOK, Scanning

\* A worker takes a task.
LEMMA UnitsTake ==
  ASSUME NEW q, NEW A, NEW J, NEW S, NEW fl, UnitsOf(q, A, J, S, fl), S \in [Slots -> Frames],
         NEW p, NEW B, NEW K, NEW w \in Workers, Others(A, J, B, K, w), NEW s \in Slots, NEW t \in Tasks,
         A[w] \notin Hands, B[w] = "run", K[w].slot = s, K[w].task = t,
         t \in QueueOf(q, s), NEW N, N \subseteq Tasks,
         \A x \in Slots \ {s} : QueueOf(p, x) = QueueOf(q, x) /\ p.list[x] \cap p.pend[x] = {},
         p.list[s] \cap p.pend[s] = {}, QueueOf(p, s) = (QueueOf(q, s) \ {t}) \cup N,
         \A r \in Rows : t = DeblockRows(r) => S[s].deblock >= r,
         \A r \in Rows : t = DeblockCols(r) => S[s].tiles > r,
         N # {} => \E r \in Rows : t = DeblockCols(r) /\ r + 1 < Sbh /\ N = {DeblockCols(r + 1)},
         \A r \in Rows : ~ fl /\ t = DeblockCols(r) /\ r + 1 < Sbh => N = {DeblockCols(r + 1)}
  PROVE  UnitsOf(p, B, K, S, fl)
<1>1. Sole(A, J) /\ UnitAt(q, A, J, S, s) /\ (~ fl => WholeAt(q, A, J, S, s))
  BY DEF UnitsOf
<1>2. ASSUME NEW C, C \subseteq Hands
      PROVE  In(B, K, C, s) = (In(A, J, C, s) \ {}) \cup (IF B[w] \in C /\ K[w].slot = s THEN {K[w].task} ELSE {})
  <2>1. In(B, K, C, s) = (In(A, J, C, s) \ (IF A[w] \in C /\ J[w].slot = s THEN {J[w].task} ELSE {}))
                          \cup (IF B[w] \in C /\ K[w].slot = s THEN {K[w].task} ELSE {})
    BY <1>1, <1>2, InStep
  <2>2. ~ (A[w] \in C)
    BY <1>2
  <2> QED
    BY <2>1, <2>2
<1>3. "run" \notin Posting /\ {"run"} \subseteq Hands /\ Posting \subseteq Hands /\ {"leave"} \subseteq Hands
  BY DEF Hands, Posting
<1>4. /\ In(B, K, {"run"}, s) = In(A, J, {"run"}, s) \cup {t}
      /\ In(B, K, Posting, s) = In(A, J, Posting, s)
      /\ In(B, K, {"leave"}, s) = In(A, J, {"leave"}, s)
  <2>1. In(B, K, {"run"}, s) = In(A, J, {"run"}, s) \cup {t}
    BY <1>2, <1>3
  <2>2. In(B, K, Posting, s) = In(A, J, Posting, s)
    <3>1. In(B, K, Posting, s) = (In(A, J, Posting, s) \ {})
             \cup (IF B[w] \in Posting /\ K[w].slot = s THEN {K[w].task} ELSE {})
      BY <1>2, <1>3
    <3>2. B[w] \notin Posting
      BY <1>3
    <3> QED
      BY <3>1, <3>2
  <2>3. In(B, K, {"leave"}, s) = In(A, J, {"leave"}, s)
    <3>1. In(B, K, {"leave"}, s) = (In(A, J, {"leave"}, s) \ {})
             \cup (IF B[w] \in {"leave"} /\ K[w].slot = s THEN {K[w].task} ELSE {})
      BY <1>2, <1>3
    <3>2. B[w] \notin {"leave"}
      BY <1>3
    <3> QED
      BY <3>1, <3>2
  <2> QED
    BY <2>1, <2>2, <2>3
<1>5. S[s] \in Frames
  OBVIOUS
<1>6. S[s].tiles \in Nat /\ S[s].deblock \in Nat /\ S[s].done \subseteq Rows
  BY <1>5, RowFacts DEF Frames
<1> DEFINE Q == QueueOf(q, s)
           R == In(A, J, {"run"}, s)
           P == In(A, J, Posting, s)
           L == In(A, J, {"leave"}, s)
           f == S[s]
<1>12. Unit(Q, R, P, L, f) /\ (~ fl => Whole(Q, R, P, L, f)) /\ t \in Q
  BY <1>1 DEF UnitAt, WholeAt
<1>13. /\ UnitAt(p, B, K, S, s) <=> Unit((Q \ {t}) \cup N, R \cup {t}, P, L, f)
       /\ WholeAt(p, B, K, S, s) <=> Whole((Q \ {t}) \cup N, R \cup {t}, P, L, f)
  BY <1>4 DEF UnitAt, WholeAt
<1>14. /\ f.tiles \in Nat /\ f.deblock \in Nat /\ f.done \subseteq Rows
       /\ \A r \in Rows : t = DeblockRows(r) => f.deblock >= r
       /\ \A r \in Rows : t = DeblockCols(r) => f.tiles > r
  BY <1>6
<1> HIDE DEF Q, R, P, L, f
<1>7. UnitAt(p, B, K, S, s)
  <2>1. Unit((Q \ {t}) \cup N, R \cup {t}, P, L, f)
    BY <1>12, <1>14, UnitTake
  <2> QED
    BY <2>1, <1>13
<1>8. ~ fl => WholeAt(p, B, K, S, s)
  <2> SUFFICES ASSUME ~ fl PROVE WholeAt(p, B, K, S, s)
    OBVIOUS
  <2>1. \A r \in Rows : t = DeblockCols(r) /\ r + 1 < Sbh => N = {DeblockCols(r + 1)}
    OBVIOUS
  <2>2. Whole((Q \ {t}) \cup N, R \cup {t}, P, L, f)
    BY <2>1, <1>12, WholeTake
  <2> QED
    BY <2>2, <1>13
<1>9. \A v \in Workers \ {w} : ~ (A[v] \in Hands /\ J[v].slot = K[w].slot /\ J[v].task = K[w].task)
  BY FreeFacts
<1>10. Sole(B, K)
  BY <1>1, <1>9, SoleStep
<1>11. B[w] \in Hands => K[w].slot = s
  OBVIOUS
<1> QED
  BY <1>7, <1>8, <1>10, UnitsStep

\* What is looked at first: what was pending is in the lists.
LEMMA UnitsMerged ==
  ASSUME NEW q, q \in Queues, NEW A, NEW J, NEW S, UnitsOf(q, A, J, S, flush),
         NEW p, p \in Queues, NEW M, M \subseteq Slots,
         \A x \in M : /\ p.pend[x] = {}
                      /\ flush => p.list[x] = q.list[x]
                      /\ ~ flush => p.list[x] = q.list[x] \cup q.pend[x],
         \A x \in Slots \ M : p.pend[x] = q.pend[x] /\ p.list[x] = q.list[x]
  PROVE  UnitsOf(p, A, J, S, flush)
<1>1. \A s \in Slots : q.list[s] \cap q.pend[s] = {}
  BY DEF UnitsOf
<1>2. \A s \in Slots : p.list[s] \cap p.pend[s] = {}
  BY <1>1
<1>3. \A s \in Slots : QueueOf(p, s) = QueueOf(q, s) \/ (flush /\ QueueOf(p, s) \subseteq QueueOf(q, s))
  <2> SUFFICES ASSUME NEW s \in Slots
               PROVE  QueueOf(p, s) = QueueOf(q, s) \/ (flush /\ QueueOf(p, s) \subseteq QueueOf(q, s))
    OBVIOUS
  <2>1. CASE s \in M
    BY <2>1 DEF QueueOf
  <2>2. CASE s \notin M
    BY <2>2 DEF QueueOf
  <2> QED
    BY <2>1, <2>2
<1> QED
  BY <1>2, <1>3, UnitsIdle

\* The frames are numbered as they are submitted, each after what it refers to, and
\* those in progress lie in the ring in this order.
InUse(f) == f.held \/ f.error

NumbersIn(S, n) ==
  /\ \A s, r \in Slots : S[s].frame # 0 /\ S[s].frame = S[r].frame => s = r
  /\ \A s \in Slots : S[s].frame <= n /\ (S[s].ref # 0 => S[s].ref < S[s].frame)

OrderOK == NumbersIn(slot, calls.frames) /\ main.newest <= calls.frames /\ OldestFirst

\* The frame that another refers to comes before it in the search.
LEMMA RefIsOlder ==
  ASSUME ShapeOK, OrderOK, NEW s \in Slots, IsFirst(tq, slot, s), NEW p \in Slots, RefIn(s, p)
  PROVE  slot[p].finished
<1> SUFFICES ASSUME ~ slot[p].finished PROVE FALSE
  OBVIOUS
<1>1. slot[p].frame < slot[s].frame
  BY DEF RefIn, OrderOK, NumbersIn
<1>2. s \in InProgress /\ p \in InProgress /\ Ahead(tq, s) <= Ahead(tq, p)
  BY DEF IsFirst, InProgress
<1>3. Ahead(tq, p) < Ahead(tq, s)
  BY <1>1, <1>2 DEF OrderOK, OldestFirst
<1>4. Ahead(tq, s) \in Nat /\ Ahead(tq, p) \in Nat
  BY RingFacts DEF ShapeOK
<1> QED
  BY <1>2, <1>3, <1>4

\* All rows are out when all are done.
LEMMA RowsOutFacts ==
  ASSUME NEW p \in Slots, slot[p].done = Rows
  PROVE  RowsOut(p) = Sbh
<1>1. {Sbh} \cup (Rows \ slot[p].done) = {Sbh}
  OBVIOUS
<1>2. {Sbh} \subseteq Nat /\ {Sbh} # {}
  BY SizeAssumption
<1> QED
  BY <1>1, <1>2, MinFacts DEF RowsOut

\* The oldest frame waits for no other.
LEMMA OldestReady ==
  ASSUME ShapeOK, UnitsOK, OrderOK, NEW s \in Slots, IsFirst(tq, slot, s), NEW t, ReadyOf(slot[s], t)
  PROVE  Ready(s, t)
<1>1. \A p \in Slots : slot[p].finished /\ slot[p].frame # 0 => slot[p].done = Rows
  BY DEF UnitsOK, UnitsOf, UnitAt, Unit, CountIn
<1>2. ASSUME NEW r \in Rows PROVE RefRow(s, r)
  <2> SUFFICES ASSUME NEW p \in Slots, RefIn(s, p) PROVE RowsOut(p) > r
    BY DEF RefRow
  <2>1. slot[p].finished /\ slot[p].frame # 0
    BY RefIsOlder DEF RefIn
  <2>2. RowsOut(p) = Sbh
    BY <1>1, <2>1, RowsOutFacts
  <2> QED
    BY <2>2, RowFacts
<1> QED
  BY <1>2 DEF Ready, ReadyOf

\* What else stays when a worker does a step.
LEMMA ShapeStep ==
  ASSUME ShapeOK, tq' \in Queues, lock' \in SUBSET Workers, at' \in [Workers -> Places],
         job' \in [Workers -> Jobs], slot' \in [Slots -> Frames], UNCHANGED <<main, flush, calls>>
  PROVE  ShapeOK'
  BY DEF ShapeOK

\* A step that changes no list, no frame and no task in hand.
LEMMA QuietStep ==
  ASSUME ShapeOK, UnitsOK, NEW w \in Workers, UNCHANGED <<slot, main, flush, calls>>,
         tq' \in Queues, tq'.list = tq.list, tq'.pend = tq.pend,
         NEW p, Goes(w, p), at[w] \in Posting <=> p \in Posting, at[w] \notin {"run", "leave"},
         p \notin {"run", "leave"},
         job' \in [Workers -> Jobs],
         \A v \in Workers : job'[v].slot = job[v].slot /\ job'[v].task = job[v].task
  PROVE  /\ UnitsOK' /\ Others(at, job, at', job', w)
         /\ PostOf(at, job) \subseteq PostOf(at', job')
<1>1. Others(at, job, at', job', w)
  BY GoesOthers
<1>2. \A s \in Slots : tq'.list[s] \cap tq'.pend[s] = {}
  BY DEF UnitsOK, UnitsOf
<1>3. \A s \in Slots : QueueOf(tq', s) = QueueOf(tq, s)
  BY DEF QueueOf
<1>4. \A v \in Workers : /\ at'[v] \in Hands <=> at[v] \in Hands
                         /\ at[v] \in Hands => at'[v] = at[v] \/ (at[v] \in Posting /\ at'[v] \in Posting)
  <2> SUFFICES ASSUME NEW v \in Workers
               PROVE  /\ at'[v] \in Hands <=> at[v] \in Hands
                      /\ at[v] \in Hands => at'[v] = at[v] \/ (at[v] \in Posting /\ at'[v] \in Posting)
    OBVIOUS
  <2>1. CASE v = w
    BY <2>1 DEF Goes, Hands
  <2>2. CASE v # w
    <3>1. at'[v] = at[v] \/ (at[v] = "wait" /\ at'[v] = "woken")
      BY <2>2 DEF Goes
    <3>2. "wait" \notin Hands /\ "woken" \notin Hands
      BY DEF Hands, Posting
    <3> QED
      BY <3>1, <3>2
  <2> QED
    BY <2>1, <2>2
<1>5. UnitsOf(tq', at', job', slot, flush)
  <2> DEFINE q == tq'
             B == at'
             K == job'
  <2>1. /\ \A s \in Slots : q.list[s] \cap q.pend[s] = {}
        /\ \A s \in Slots : QueueOf(q, s) = QueueOf(tq, s)
        /\ \A v \in Workers : /\ B[v] \in Hands <=> at[v] \in Hands
                              /\ at[v] \in Hands => B[v] = at[v] \/ (at[v] \in Posting /\ B[v] \in Posting)
        /\ \A v \in Workers : K[v].slot = job[v].slot /\ K[v].task = job[v].task
    BY <1>2, <1>3, <1>4
  <2>2. UnitsOf(tq, at, job, slot, flush)
    BY DEF UnitsOK
  <2> HIDE DEF q, B, K
  <2>3. UnitsOf(q, B, K, slot, flush)
    BY <2>1, <2>2, UnitsIdle
  <2> QED
    BY <2>3 DEF q, B, K
<1>6. UnitsOK'
  BY <1>5 DEF UnitsOK
<1>7. at[w] \in Post <=> at'[w] \in Post
  BY DEF Goes, Post
<1>8. PostOf(at, job) \subseteq PostOf(at', job')
  <2> DEFINE B == at'
             K == job'
  <2>1. Others(at, job, B, K, w) /\ (at[w] \notin Post \/ (B[w] \in Post /\ K[w].slot = job[w].slot))
    BY <1>1, <1>7
  <2> HIDE DEF B, K
  <2>2. PostOf(at, job) \subseteq PostOf(B, K)
    BY <2>1, PostStep
  <2> QED
    BY <2>2 DEF B, K
<1> QED
  BY <1>1, <1>6, <1>8

\* Nobody searches.
LEMMA NoSearch ==
  ASSUME SearchOK, ~ flush, ~ Scanning(at)
  PROVE  Skew(tq, slot, FALSE) /\ Old(tq, slot, PostOf(at, job))
  BY DEF SearchOK, Skew

\* reset_task_cur by who holds the lock, for what was left in the atomic.
LEMMA ScanEndStep ==
  ASSUME ShapeOK, LockOK, UnitsOK, SearchOK, NEW w \in Workers, ScanEnd(w)
  PROVE  ShapeOK' /\ UnitsOK' /\ SearchOK'
<1>1. /\ at[w] = "scan" /\ tq.cur >= NFc /\ tq' = ResetTaskCur(tq, MAX)
      /\ UNCHANGED <<lock, job, slot, main, flush, calls>>
      /\ \E p \in {"outer", "park"} : Go(w, p)
  BY DEF ScanEnd
<1>2. PICK p \in {"outer", "park"} : Go(w, p)
  BY <1>1
<1>3. /\ tq \in Queues /\ at \in [Workers -> Places] /\ job \in [Workers -> Jobs]
      /\ slot \in [Slots -> Frames] /\ lock \in SUBSET Workers
  BY DEF ShapeOK
<1>4. p \in Places
  BY DEF Places
<1>5. Goes(w, p) /\ \A v \in Workers \ {w} : at'[v] = at[v]
  BY <1>2, <1>3, <1>4, GoFacts
<1>6. tq' \in Queues /\ tq'.list = tq.list /\ tq'.pend = tq.pend
  BY <1>1, <1>3, ResetFacts
<1>7. /\ UnitsOK' /\ PostOf(at, job) \subseteq PostOf(at', job')
  BY <1>1, <1>3, <1>5, <1>6, QuietStep DEF Posting
<1>8. ShapeOK'
  BY <1>1, <1>3, <1>5, <1>6, ShapeStep DEF Goes
<1>9. SearchOK'
  <2> SUFFICES ASSUME ~ flush PROVE Skew(tq', slot, Scanning(at')) /\ Old(tq', slot, PostOf(at', job'))
    BY <1>1 DEF SearchOK
  <2>1. Skew(tq, slot, TRUE) /\ Old(tq, slot, PostOf(at, job))
    BY SkewMonotone DEF SearchOK
  <2>2. tq.cur = NFc
    BY <1>1, <1>3, SizeAssumption DEF Queues
  <2>3. Skew(tq', slot, FALSE) /\ Old(tq', slot, PostOf(at, job))
    BY <1>1, <1>3, <2>1, <2>2, SearchLook
  <2> QED
    BY <2>3, <1>7, SkewMonotone, OldMonotone
<1> QED
  BY <1>7, <1>8, <1>9

\* A worker that was woken looks at what was left in reset_task_cur.
LEMMA WokenStep ==
  ASSUME ShapeOK, LockOK, UnitsOK, SearchOK, NEW w \in Workers, Woken(w)
  PROVE  ShapeOK' /\ UnitsOK' /\ SearchOK'
<1>1. /\ at[w] = "woken" /\ lock = {} /\ tq' = ResetTaskCur(tq, MAX) /\ lock' = {w} /\ Go(w, "outer")
      /\ UNCHANGED <<job, slot, main, flush, calls>>
  BY DEF Woken
<1>3. /\ tq \in Queues /\ at \in [Workers -> Places] /\ job \in [Workers -> Jobs]
      /\ slot \in [Slots -> Frames] /\ lock \in SUBSET Workers
  BY DEF ShapeOK
<1>5. Goes(w, "outer") /\ \A v \in Workers \ {w} : at'[v] = at[v]
  BY <1>1, <1>3, GoFacts DEF Places
<1>6. tq' \in Queues /\ tq'.list = tq.list /\ tq'.pend = tq.pend
  BY <1>1, <1>3, ResetFacts
<1>7. /\ UnitsOK' /\ PostOf(at, job) \subseteq PostOf(at', job')
  BY <1>1, <1>3, <1>5, <1>6, QuietStep DEF Posting
<1>8. ShapeOK'
  BY <1>1, <1>3, <1>5, <1>6, ShapeStep DEF Goes
<1>9. SearchOK'
  <2> SUFFICES ASSUME ~ flush PROVE Skew(tq', slot, Scanning(at')) /\ Old(tq', slot, PostOf(at', job'))
    BY <1>1 DEF SearchOK
  <2>1. ~ Scanning(at)
    BY <1>1, NoScan
  <2>2. Skew(tq, slot, FALSE) /\ Old(tq, slot, PostOf(at, job))
    BY <2>1, NoSearch
  <2>3. Skew(tq', slot, FALSE) /\ Old(tq', slot, PostOf(at, job))
    BY <1>1, <1>3, <2>2, SearchLook
  <2> QED
    BY <2>3, <1>7, SkewMonotone, OldMonotone
<1> QED
  BY <1>7, <1>8, <1>9

\* Neither before nor after the step the worker has a task.
LEMMA GoUnits ==
  ASSUME NEW q, UnitsOf(q, at, job, slot, flush), NEW w \in Workers, NEW p, Goes(w, p),
         at[w] \notin Hands, p \notin Hands, job' = job
  PROVE  /\ UnitsOf(q, at', job', slot, flush)
         /\ PostOf(at, job) \subseteq PostOf(at', job')
<1> DEFINE B == at'
<1>1. \A v \in Workers : /\ B[v] \in Hands <=> at[v] \in Hands
                         /\ at[v] \in Hands => B[v] = at[v]
  <2> SUFFICES ASSUME NEW v \in Workers
               PROVE  /\ B[v] \in Hands <=> at[v] \in Hands
                      /\ at[v] \in Hands => B[v] = at[v]
    OBVIOUS
  <2>1. CASE v = w
    BY <2>1 DEF Goes
  <2>2. CASE v # w
    <3>1. B[v] = at[v] \/ (at[v] = "wait" /\ B[v] = "woken")
      BY <2>2 DEF Goes
    <3>2. "wait" \notin Hands /\ "woken" \notin Hands
      BY DEF Hands, Posting
    <3> QED
      BY <3>1, <3>2
  <2> QED
    BY <2>1, <2>2
<1>2. Others(at, job, B, job, w)
  BY DEF Goes, Others
<1> HIDE DEF B
<1>3. \A s \in Slots : q.list[s] \cap q.pend[s] = {}
  BY DEF UnitsOf
<1>4. UnitsOf(q, B, job, slot, flush)
  BY <1>1, <1>3, UnitsIdle
<1>5. at[w] \notin Post
  BY DEF Hands, Post
<1>6. PostOf(at, job) \subseteq PostOf(B, job)
  BY <1>2, <1>5, PostStep
<1> QED
  BY <1>4, <1>6 DEF B

\* merge_pending in a state.
LEMMA MergeUnits ==
  ASSUME ShapeOK, UnitsOK
  PROVE  /\ MergePending(tq) \in Queues
         /\ UnitsOf(MergePending(tq), at, job, slot, flush)
<1> DEFINE p == MergePending(tq)
<1>1. /\ p \in Queues
      /\ \A s \in Slots : /\ p.pend[s] = {}
                          /\ flush => p.list[s] = tq.list[s]
                          /\ ~ flush => p.list[s] = tq.list[s] \cup tq.pend[s]
  BY MergeFacts DEF ShapeOK
<1> HIDE DEF p
<1>2. UnitsOf(tq, at, job, slot, flush) /\ tq \in Queues
  BY DEF UnitsOK, ShapeOK
<1>3. Slots \subseteq Slots /\ Slots \ Slots = {}
  OBVIOUS
<1>4. UnitsOf(p, at, job, slot, flush)
  BY <1>1, <1>2, <1>3, UnitsMerged
<1> QED
  BY <1>1, <1>4 DEF p

\* A worker parks, or goes back for what was pending.
LEMMA ParkingStep ==
  ASSUME ShapeOK, LockOK, UnitsOK, SearchOK, NEW w \in Workers, Parking(w)
  PROVE  ShapeOK' /\ UnitsOK' /\ SearchOK'
<1>1. /\ at[w] = "park" /\ UNCHANGED <<job, slot, main, flush, calls>>
      /\ \/ tq' = MergePending(tq) /\ Go(w, "outer") /\ lock' = lock
         \/ tq' = Park(w) /\ Go(w, "wait") /\ lock' = {}
  BY DEF Parking
<1>2. /\ tq \in Queues /\ at \in [Workers -> Places] /\ job \in [Workers -> Jobs]
      /\ slot \in [Slots -> Frames] /\ lock \in SUBSET Workers
  BY DEF ShapeOK
<1>3. UnitsOf(tq, at, job, slot, flush) /\ Listed(tq, slot)
  BY ListedOf DEF UnitsOK
<1>4. at[w] \notin Hands /\ "outer" \notin Hands /\ "wait" \notin Hands
  BY <1>1 DEF Hands, Posting
<1>5. ~ Scanning(at)
  BY <1>1 DEF LockOK, Scanning
<1>6. CASE tq' = MergePending(tq) /\ Go(w, "outer") /\ lock' = lock
  <2>1. Goes(w, "outer")
    BY <1>2, <1>6, GoFacts DEF Places
  <2>2. tq' \in Queues /\ UnitsOf(MergePending(tq), at, job, slot, flush)
    BY <1>6, MergeUnits
  <2>3. /\ UnitsOf(MergePending(tq), at', job', slot, flush)
        /\ PostOf(at, job) \subseteq PostOf(at', job')
    BY <1>1, <1>4, <2>1, <2>2, GoUnits
  <2>4. UnitsOK'
    BY <2>3, <1>1, <1>6 DEF UnitsOK
  <2>5. ShapeOK'
    BY <1>1, <1>2, <1>6, <2>1, <2>2, ShapeStep DEF Goes
  <2>6. SearchOK'
    <3> SUFFICES ASSUME ~ flush PROVE Skew(tq', slot, Scanning(at')) /\ Old(tq', slot, PostOf(at', job'))
      BY <1>1 DEF SearchOK
    <3>1. Skew(tq, slot, FALSE) /\ Old(tq, slot, PostOf(at, job))
      BY <1>5, NoSearch
    <3>2. Skew(tq', slot, FALSE) /\ Old(tq', slot, PostOf(at, job))
      BY <1>2, <1>3, <1>6, <3>1, SearchMerge
    <3> QED
      BY <3>2, <2>3, SkewMonotone, OldMonotone
  <2> QED
    BY <2>4, <2>5, <2>6
<1>7. CASE tq' = Park(w) /\ Go(w, "wait") /\ lock' = {}
  <2>1. Goes(w, "wait")
    BY <1>2, <1>7, GoFacts DEF Places
  <2>2. /\ tq' \in Queues /\ tq'.list = tq.list /\ tq'.pend = tq.pend /\ tq'.first = tq.first
        /\ tq'.cur = tq.cur /\ tq'.prev = tq.prev
    BY <1>2, <1>7 DEF Park, Queues
  <2>3. /\ UnitsOK' /\ PostOf(at, job) \subseteq PostOf(at', job')
    BY <1>1, <1>2, <2>1, <2>2, QuietStep DEF Posting
  <2>4. ShapeOK'
    BY <1>1, <1>2, <1>7, <2>1, <2>2, ShapeStep DEF Goes
  <2>5. SearchOK'
    <3> SUFFICES ASSUME ~ flush PROVE Skew(tq', slot, Scanning(at')) /\ Old(tq', slot, PostOf(at', job'))
      BY <1>1 DEF SearchOK
    <3>1. Skew(tq, slot, FALSE) /\ Old(tq, slot, PostOf(at, job))
      BY <1>5, NoSearch
    <3>2. Skew(tq', slot, FALSE) /\ Old(tq', slot, PostOf(at, job))
      BY <2>2, <3>1, SearchQuiet
    <3> QED
      BY <3>2, <2>3, SkewMonotone, OldMonotone
  <2> QED
    BY <2>3, <2>4, <2>5
<1> QED
  BY <1>1, <1>6, <1>7

\* A worker at the start of its loop.
LEMMA OuterStep ==
  ASSUME ShapeOK, LockOK, UnitsOK, SearchOK, NEW w \in Workers, Outer(w)
  PROVE  ShapeOK' /\ UnitsOK' /\ SearchOK'
<1>1. /\ at[w] = "outer" /\ Locks(w) /\ UNCHANGED <<slot, main, flush, calls>>
      /\ \/ flush /\ tq' = Park(w) /\ lock' = {} /\ Goes(w, "wait") /\ job' = job
         \/ ~ flush /\ tq' = MergePending(tq) /\ lock' = {w} /\ Goes(w, "scan") /\ job' = job
         \/ /\ ~ flush /\ lock' = {} /\ Goes(w, "run")
            /\ \E s \in Slots : \E t \in {InitTask, InitCdf} :
                    /\ t \in MergePending(tq).list[s] /\ ~ slot[s].initDone
                    /\ tq' = Taken(MergePending(tq), s, t)
                    /\ job' = [job EXCEPT ![w].slot = s, ![w].task = t]
  BY OuterFacts
<1>2. /\ tq \in Queues /\ at \in [Workers -> Places] /\ job \in [Workers -> Jobs]
      /\ slot \in [Slots -> Frames] /\ lock \in SUBSET Workers
  BY DEF ShapeOK
<1>3. UnitsOf(tq, at, job, slot, flush) /\ Listed(tq, slot)
  BY ListedOf DEF UnitsOK
<1>4. at[w] \notin Hands /\ "scan" \notin Hands /\ "wait" \notin Hands
  BY <1>1 DEF Hands, Posting
<1>5. ~ Scanning(at)
  BY <1>1, NoScan DEF Locks
<1> DEFINE p == MergePending(tq)
<1>6. p \in Queues /\ UnitsOf(p, at, job, slot, flush)
  BY MergeUnits
<1>7. ~ flush => Skew(p, slot, FALSE) /\ Old(p, slot, PostOf(at, job))
  <2> SUFFICES ASSUME ~ flush PROVE Skew(p, slot, FALSE) /\ Old(p, slot, PostOf(at, job))
    OBVIOUS
  <2>1. Skew(tq, slot, FALSE) /\ Old(tq, slot, PostOf(at, job))
    BY <1>5, NoSearch
  <2> QED
    BY <1>2, <1>3, <2>1, SearchMerge
<1> HIDE DEF p
<1>8. CASE flush /\ tq' = Park(w) /\ lock' = {} /\ Goes(w, "wait") /\ job' = job
  <2>1. tq' \in Queues /\ tq'.list = tq.list /\ tq'.pend = tq.pend
    BY <1>2, <1>8 DEF Park, Queues
  <2>2. UnitsOK'
    BY <1>1, <1>2, <1>8, <2>1, QuietStep DEF Posting
  <2>3. ShapeOK'
    BY <1>1, <1>2, <1>8, <2>1, ShapeStep DEF Goes
  <2> QED
    BY <1>1, <1>8, <2>2, <2>3 DEF SearchOK
<1>9. CASE ~ flush /\ tq' = p /\ lock' = {w} /\ Goes(w, "scan") /\ job' = job
  <2>1. UnitsOf(p, at', job', slot, flush) /\ PostOf(at, job) \subseteq PostOf(at', job')
    BY <1>4, <1>6, <1>9, GoUnits
  <2>2. UnitsOK'
    BY <2>1, <1>1, <1>9 DEF UnitsOK
  <2>3. ShapeOK'
    BY <1>1, <1>2, <1>6, <1>9, ShapeStep DEF Goes
  <2>4. SearchOK'
    BY <1>1, <1>7, <1>9, <2>1, SkewMonotone, OldMonotone DEF SearchOK
  <2> QED
    BY <2>2, <2>3, <2>4
<1>10. CASE /\ ~ flush /\ lock' = {} /\ Goes(w, "run")
            /\ \E s \in Slots : \E t \in {InitTask, InitCdf} :
                    /\ t \in p.list[s] /\ ~ slot[s].initDone
                    /\ tq' = Taken(p, s, t)
                    /\ job' = [job EXCEPT ![w].slot = s, ![w].task = t]
  <2>1. PICK s \in Slots, t \in {InitTask, InitCdf} :
                    /\ t \in p.list[s] /\ ~ slot[s].initDone
                    /\ tq' = Taken(p, s, t)
                    /\ job' = [job EXCEPT ![w].slot = s, ![w].task = t]
    BY <1>10
  <2>2. t \in Tasks /\ ~ (t.type > InitCdf.type)
    BY TaskFacts
  <2>3. p.list[s] = {t} /\ ~ slot[s].finished
    <3>1. StagesIn(QueueOf(p, s) \cup In(at, job, {"run"}, s) \cup In(at, job, Posting, s)
                     \cup In(at, job, {"leave"}, s), slot[s])
      BY <1>6 DEF UnitsOf, UnitAt, Unit
    <3>2. p.list[s] \subseteq {InitTask, InitCdf} /\ ~ (InitTask \in p.list[s] /\ InitCdf \in p.list[s])
      BY <2>1, <3>1 DEF StagesIn, QueueOf
    <3>3. ~ slot[s].finished
      BY <2>1, <3>1 DEF StagesIn, QueueOf
    <3> QED
      BY <2>1, <3>2, <3>3
  <2> DEFINE n == Taken(p, s, t)
  <2>4. /\ n \in Queues /\ n.first = p.first /\ n.pend = p.pend
        /\ n.list[s] = p.list[s] \ {t} /\ \A x \in Slots : x # s => n.list[x] = p.list[x]
        /\ n.prev[s] = (IF p.prev[s] = t THEN Gone ELSE p.prev[s])
        /\ \A x \in Slots : x # s => n.prev[x] = p.prev[x]
        /\ n.cur = (IF t.type > InitCdf.type /\ p.list[s] = {t} THEN p.cur + 1 ELSE p.cur)
    BY <1>6, <2>2, TakenFacts
  <2>6. tq' = n
    BY <2>1
  <2> HIDE DEF n
  <2>5. /\ n.list[s] = {} /\ (n.prev[s] # NoTask => p.prev[s] # NoTask)
        /\ \A x \in Slots : x # s => n.list[x] = p.list[x] /\ n.prev[x] = p.prev[x]
    BY <1>6, <2>2, <2>3, <2>4, NoneFacts DEF Queues
  <2>7. n.cur = p.cur
    BY <2>2, <2>4
  <2>8. /\ job' \in [Workers -> Jobs] /\ job'[w].slot = s /\ job'[w].task = t
        /\ \A v \in Workers \ {w} : job'[v].slot = job[v].slot /\ job'[v].task = job[v].task
    BY <2>1, <2>2, <1>2 DEF Jobs
  <2>9. Others(at, job, at', job', w)
    BY <1>10, <2>8, GoesOthers
  <2>10. at'[w] = "run" /\ at' \in [Workers -> Places]
    BY <1>10 DEF Goes
  <2>11. UnitsOf(n, at', job', slot, flush) /\ PostOf(at, job) \subseteq PostOf(at', job')
    <3> DEFINE B == at'
               K == job'
    <3>1. B[w] = "run" /\ K[w].slot = s /\ K[w].task = t /\ Others(at, job, B, K, w)
      BY <2>8, <2>9, <2>10
    <3> HIDE DEF B, K
    <3>2. p.list[s] \cap p.pend[s] = {} /\ \A x \in Slots : p.list[x] \cap p.pend[x] = {}
      BY <1>6 DEF UnitsOf
    <3>3. \A x \in Slots \ {s} : QueueOf(n, x) = QueueOf(p, x) /\ n.list[x] \cap n.pend[x] = {}
      BY <2>4, <3>2 DEF QueueOf
    <3>4. QueueOf(n, s) = (QueueOf(p, s) \ {t}) \cup {} /\ n.list[s] \cap n.pend[s] = {}
      BY <2>1, <2>4, <3>2 DEF QueueOf
    <3>5. t \in QueueOf(p, s) /\ {} \subseteq Tasks
      BY <2>1 DEF QueueOf
    <3>6. \A r \in Rows : t # DeblockRows(r) /\ t # DeblockCols(r)
      BY TaskFacts
    <3> DEFINE N == {}
    <3>10. /\ N \subseteq Tasks /\ QueueOf(n, s) = (QueueOf(p, s) \ {t}) \cup N
           /\ \A r \in Rows : t = DeblockRows(r) => slot[s].deblock >= r
           /\ \A r \in Rows : t = DeblockCols(r) => slot[s].tiles > r
           /\ N # {} => \E r \in Rows : t = DeblockCols(r) /\ r + 1 < Sbh /\ N = {DeblockCols(r + 1)}
           /\ \A r \in Rows : ~ flush /\ t = DeblockCols(r) /\ r + 1 < Sbh => N = {DeblockCols(r + 1)}
      BY <3>4, <3>6
    <3> HIDE DEF N
    <3>7. UnitsOf(n, B, K, slot, flush)
      <4>1. /\ UnitsOf(p, at, job, slot, flush) /\ slot \in [Slots -> Frames] /\ at[w] \notin Hands
            /\ t \in Tasks /\ t \in QueueOf(p, s) /\ n.list[s] \cap n.pend[s] = {}
        BY <1>2, <1>4, <1>6, <2>2, <3>4, <3>5
      <4> QED
        BY ONLY <4>1, <3>1, <3>3, <3>10, UnitsTake, w \in Workers, s \in Slots
    <3>8. at[w] \notin Post
      BY <1>4 DEF Hands, Post
    <3>9. PostOf(at, job) \subseteq PostOf(B, K)
      BY <3>1, <3>8, PostStep
    <3> QED
      BY <3>7, <3>9 DEF B, K
  <2>12. UnitsOK'
    BY <2>6, <2>11, <1>1 DEF UnitsOK
  <2>13. ShapeOK'
    BY <1>1, <1>2, <1>10, <2>4, <2>6, <2>8, <2>10, ShapeStep
  <2>14. Skew(n, slot, FALSE) /\ Old(n, slot, PostOf(at, job))
    <3>1. /\ Skew(p, slot, FALSE) /\ Old(p, slot, PostOf(at, job)) /\ ~ slot[s].initDone
      BY <1>7, <1>10, <2>1
    <3>2. p \in Queues /\ slot \in [Slots -> Frames] /\ t \in Tasks
      BY <1>2, <1>6, <2>2
    <3>3. /\ n \in Queues /\ n.first = p.first /\ n.cur = p.cur /\ n.pend = p.pend
      BY <2>4, <2>7
    <3> QED
      BY <3>1, <3>2, <3>3, <2>3, <2>5, SearchFound
  <2>15. SearchOK'
    BY <1>1, <2>6, <2>11, <2>14, SkewMonotone, OldMonotone DEF SearchOK
  <2> QED
    BY <2>12, <2>13, <2>15
<1> QED
  BY <1>1, <1>8, <1>9, <1>10 DEF p

\* The search goes past a frame.
LEMMA PassFacts ==
  ASSUME NEW p, p \in Queues, NEW c \in Slots, NEW ts \in After(p, c), p.cur < NFc
  PROVE  LET n == Beyond(p, c, ts)
         IN  n \in Queues /\ n.first = p.first /\ n.list = p.list /\ n.pend = p.pend
<1> DEFINE v == Over(p, c, ts)
           n == Beyond(p, c, ts)
<1>1. ts \subseteq Tasks
  BY AfterFacts
<1>2. v \in Queues /\ v.first = p.first /\ v.cur = p.cur /\ v.list = p.list /\ v.pend = p.pend
  BY <1>1, OverFacts
<1> HIDE DEF v
<1>4. v.cur + 1 \in 0 .. NFc
  BY <1>2, SizeAssumption DEF Queues
<1>5. n \in Queues /\ n.first = p.first /\ n.list = p.list /\ n.pend = p.pend
  BY <1>2, <1>4 DEF Queues, Beyond, v
<1> QED
  BY <1>5

\* What Take makes of the queue before the task is taken out.
LEMMA OpenFacts ==
  ASSUME NEW p, p \in Queues, NEW c \in Slots, NEW E \in SUBSET Tasks, NEW ns \in SUBSET Tasks,
         CursorOf(p) <= Ahead(p, c)
  PROVE  LET x == Opened(p, c, E, ns)
         IN  /\ x \in Queues /\ x.first = p.first /\ x.pend = p.pend
             /\ \A d \in Slots : d # c => x.list[d] = p.list[d]
             /\ flush => x.list[c] = p.list[c]
             /\ ~ flush => x.list[c] = p.list[c] \cup ns
             /\ CursorOf(x) <= Ahead(x, c)
<1> DEFINE x == Opened(p, c, E, ns)
           v == Over(p, c, E)
<1>1. v \in Queues /\ v.first = p.first /\ v.cur = p.cur /\ v.list = p.list /\ v.pend = p.pend
  BY OverFacts
<1>2. x = IF ns = {} THEN v ELSE Insert(v, c, ns)
  BY DEF Opened
<1> HIDE DEF v, x
<1>3. CursorOf(v) = CursorOf(p) /\ \A s \in Slots : Ahead(v, s) = Ahead(p, s)
  BY <1>1 DEF CursorOf, Ahead
<1> DEFINE Goal == /\ x \in Queues /\ x.first = p.first /\ x.pend = p.pend
                   /\ \A d \in Slots : d # c => x.list[d] = p.list[d]
                   /\ flush => x.list[c] = p.list[c]
                   /\ ~ flush => x.list[c] = p.list[c] \cup ns
                   /\ CursorOf(x) <= Ahead(x, c)
<1>4. ASSUME ns = {} PROVE Goal
  <2>1. x = v
    BY <1>2, <1>4
  <2> QED
    BY <1>1, <1>3, <1>4, <2>1
<1>5. ASSUME ns # {} PROVE Goal
  <2> DEFINE i == Insert(v, c, ns)
  <2>1. /\ i \in Queues /\ i.first = v.first /\ i.pend = v.pend
        /\ \A d \in Slots : d # c => i.list[d] = v.list[d]
        /\ flush => i = v
        /\ ~ flush => i.list[c] = v.list[c] \cup ns
        /\ CursorOf(v) <= Ahead(v, c) => CursorOf(i) <= Ahead(v, c)
    BY <1>1, <1>5, InsertFacts
  <2>2. x = i
    BY <1>2, <1>5
  <2> HIDE DEF i
  <2>3. \A s \in Slots : Ahead(i, s) = Ahead(v, s)
    BY <2>1 DEF Ahead
  <2>4. CursorOf(x) <= Ahead(x, c)
    BY <1>3, <2>1, <2>2, <2>3
  <2> QED
    BY <1>1, <1>3, <2>1, <2>2, <2>4
<1>6. Goal
  BY <1>4, <1>5
<1> QED
  BY <1>6 DEF x

\* What is known of a ready task.
LEMMA ReadyTypes ==
  ASSUME NEW s \in Slots, NEW t, Ready(s, t)
  PROVE  /\ t.type > InitCdf.type
         /\ \A r \in Rows : t = DeblockRows(r) => slot[s].deblock >= r
         /\ \A r \in Rows : t = DeblockCols(r) => slot[s].tiles > r
<1>1. /\ 2 > 1 /\ 3 > 1 /\ 4 > 1
  OBVIOUS
<1> QED
  BY <1>1, TaskFacts DEF Ready

\* The column of deblocking that is queued is the one after.
LEMMA NextColsFacts ==
  ASSUME NEW t \in Tasks
  PROVE  /\ NextCols(t) \subseteq Tasks /\ \A u \in NextCols(t) : Before(t, u)
         /\ NextCols(t) # {} => \E r \in Rows : /\ t = DeblockCols(r) /\ r + 1 < Sbh
                                               /\ NextCols(t) = {DeblockCols(r + 1)}
         /\ \A r \in Rows : t = DeblockCols(r) /\ r + 1 < Sbh => NextCols(t) = {DeblockCols(r + 1)}
<1>1. /\ 0 \in Rows /\ DeblockCols(0).type = 3
  BY RowFacts, TaskFacts
<1>2. \A r \in Rows : t = DeblockCols(r) /\ r + 1 < Sbh => NextCols(t) = {DeblockCols(r + 1)}
  BY <1>1, TaskFacts DEF NextCols
<1>3. NextCols(t) # {} => \E r \in Rows : t = DeblockCols(r) /\ r + 1 < Sbh /\ NextCols(t) = {DeblockCols(r + 1)}
  <2> SUFFICES ASSUME NextCols(t) # {}
               PROVE  \E r \in Rows : t = DeblockCols(r) /\ r + 1 < Sbh /\ NextCols(t) = {DeblockCols(r + 1)}
    OBVIOUS
  <2>1. t.type = 3 /\ t.row + 1 < Sbh
    BY <1>1 DEF NextCols
  <2>2. PICK r \in Rows : t = DeblockCols(r)
    <3>1. \A r \in Rows : InitTask.type # 3 /\ InitCdf.type # 3 /\ Tile(r).type # 3 /\ DeblockRows(r).type # 3
      BY TaskFacts
    <3> QED
      BY <2>1, <3>1, TaskFacts
  <2>3. t.row = r
    BY <2>2, TaskFacts
  <2> QED
    BY <1>2, <2>1, <2>2, <2>3
<1>4. NextCols(t) \subseteq Tasks /\ \A u \in NextCols(t) : Before(t, u)
  <2> SUFFICES ASSUME NextCols(t) # {} PROVE NextCols(t) \subseteq Tasks /\ \A u \in NextCols(t) : Before(t, u)
    OBVIOUS
  <2>1. PICK r \in Rows : t = DeblockCols(r) /\ r + 1 < Sbh /\ NextCols(t) = {DeblockCols(r + 1)}
    BY <1>3
  <2>2. r + 1 \in Rows /\ r \in Nat
    BY <2>1, RowFacts
  <2>3. t.row = r /\ DeblockCols(r + 1).row = r + 1 /\ DeblockCols(r + 1) \in Tasks
    BY <2>1, <2>2, TaskFacts
  <2> QED
    BY <2>1, <2>2, <2>3 DEF Before
<1> QED
  BY <1>2, <1>3, <1>4

\* A worker that searches the frame at the cursor.
LEMMA ScanStep ==
  ASSUME ShapeOK, LockOK, UnitsOK, OrderOK, SearchOK, NEW w \in Workers, Scan(w)
  PROVE  ShapeOK' /\ UnitsOK' /\ SearchOK'
<1> DEFINE c == AtCursor(tq)
           q == MergeFrame(tq, c)
<1>1. /\ at[w] = "scan" /\ tq.cur < NFc /\ UNCHANGED <<slot, main, flush, calls>>
      /\ c \in Slots /\ Ahead(tq, c) = CursorOf(tq)
      /\ \E ts \in After(q, c) :
                  \/ /\ \A t \in ts : ~ Ready(c, t)
                     /\ tq' = Beyond(q, c, ts)
                     /\ lock' = {w} /\ job' = job /\ at' = at
                  \/ \E t \in ts :
                       /\ Ready(c, t) /\ \A u \in ts : Before(u, t) => ~ Ready(c, u)
                       /\ tq' = Taken(Opened(q, c, UpTo(ts, t), NextCols(t)), c, t)
                       /\ lock' = {} /\ job' = [job EXCEPT ![w].slot = c, ![w].task = t]
                       /\ Goes(w, "run")
  BY ScanFacts
<1>2. /\ tq \in Queues /\ at \in [Workers -> Places] /\ job \in [Workers -> Jobs]
      /\ slot \in [Slots -> Frames] /\ lock \in SUBSET Workers
  BY DEF ShapeOK
<1>3. UnitsOf(tq, at, job, slot, flush) /\ Listed(tq, slot)
  BY ListedOf DEF UnitsOK
<1>4. /\ q \in Queues /\ q.first = tq.first /\ q.pend[c] = {}
      /\ flush => q.list[c] = tq.list[c]
      /\ ~ flush => q.list[c] = tq.list[c] \cup tq.pend[c]
      /\ \A x \in Slots : x # c => q.list[x] = tq.list[x] /\ q.pend[x] = tq.pend[x]
      /\ CursorOf(q) <= Ahead(tq, c)
  BY <1>1, <1>2, MergeFrameFacts
<1>5. Scanning(at) /\ at[w] \notin Hands /\ at[w] \notin Post
  BY <1>1 DEF Scanning, Hands, Posting, Post
<1>6. ~ flush => /\ Skew(tq, slot, TRUE) /\ Old(tq, slot, PostOf(at, job))
                 /\ Old(q, slot, PostOf(at, job)) /\ Listed(q, slot) /\ Skew(q, slot, TRUE)
                 /\ CursorOf(q) = Ahead(tq, c) \/ \E o \in Slots : q.list[o] # {} /\ Ahead(tq, o) = CursorOf(q)
  <2> SUFFICES ASSUME ~ flush
               PROVE  /\ Skew(tq, slot, TRUE) /\ Old(tq, slot, PostOf(at, job))
                      /\ Old(q, slot, PostOf(at, job)) /\ Listed(q, slot) /\ Skew(q, slot, TRUE)
                      /\ CursorOf(q) = Ahead(tq, c) \/ \E o \in Slots : q.list[o] # {} /\ Ahead(tq, o) = CursorOf(q)
    OBVIOUS
  <2>1. Skew(tq, slot, TRUE) /\ Old(tq, slot, PostOf(at, job))
    BY SkewMonotone DEF SearchOK
  <2> QED
    BY <1>1, <1>2, <1>3, <2>1, SearchOpen
<1>15. c = AtCursor(tq) /\ c \in Slots /\ tq.cur < NFc
  BY <1>1
<1> HIDE DEF c, q
<1>7. UnitsOf(q, at, job, slot, flush)
  <2> DEFINE M == {c}
  <2>1. /\ M \subseteq Slots
        /\ \A x \in M : /\ q.pend[x] = {}
                        /\ flush => q.list[x] = tq.list[x]
                        /\ ~ flush => q.list[x] = tq.list[x] \cup tq.pend[x]
        /\ \A x \in Slots \ M : q.pend[x] = tq.pend[x] /\ q.list[x] = tq.list[x]
    BY <1>1, <1>4
  <2> HIDE DEF M
  <2> QED
    BY <1>2, <1>3, <1>4, <2>1, UnitsMerged
<1>8. q.cur < NFc /\ CursorOf(q) <= Ahead(q, c)
  <2>1. /\ CursorOf(q) = tq.first + q.cur /\ CursorOf(tq) = tq.first + tq.cur
        /\ tq.first \in Nat /\ q.cur \in Nat /\ tq.cur \in Nat
    BY <1>2, <1>4, RingFacts DEF CursorOf
  <2>2. Ahead(q, c) = Ahead(tq, c)
    BY <1>4 DEF Ahead
  <2> QED
    BY <2>1, <2>2, <1>1, <1>4, SizeAssumption
<1>9. \A t : IsFirst(tq, slot, c) /\ ~ Ready(c, t) => ~ ReadyOf(slot[c], t)
  BY <1>1, OldestReady
<1>10. \A d \in Slots : q.list[d] \cap q.pend[d] = {}
  BY <1>7 DEF UnitsOf
<1>11. PICK ts \in After(q, c) :
                  \/ /\ \A t \in ts : ~ Ready(c, t)
                     /\ tq' = Beyond(q, c, ts)
                     /\ lock' = {w} /\ job' = job /\ at' = at
                  \/ \E t \in ts :
                       /\ Ready(c, t) /\ \A u \in ts : Before(u, t) => ~ Ready(c, u)
                       /\ tq' = Taken(Opened(q, c, UpTo(ts, t), NextCols(t)), c, t)
                       /\ lock' = {} /\ job' = [job EXCEPT ![w].slot = c, ![w].task = t]
                       /\ Goes(w, "run")
  BY <1>1
<1>12. ts \subseteq Tasks /\ ts \subseteq q.list[c] /\ ts \in After(q, c)
  <2>1. q \in Queues /\ ts \in After(q, c)
    BY <1>4
  <2>2. ts \in After(q, c) => ts \subseteq Tasks
    BY ONLY <1>15, <2>1, AfterFacts
  <2> QED
    BY ONLY <1>15, <2>1, AfterFacts
<1>13. CASE /\ \A t \in ts : ~ Ready(c, t)
            /\ tq' = Beyond(q, c, ts)
            /\ lock' = {w} /\ job' = job /\ at' = at
  <2> DEFINE n == Beyond(q, c, ts)
  <2>1. n \in Queues /\ n.first = q.first /\ n.list = q.list /\ n.pend = q.pend
    <3>1. q \in Queues
      BY <1>4
    <3> QED
      BY ONLY <3>1, <1>8, <1>12, <1>15, PassFacts
  <2>2. ~ flush => Skew(n, slot, TRUE) /\ Old(n, slot, PostOf(at, job))
    <3> SUFFICES ASSUME ~ flush PROVE Skew(n, slot, TRUE) /\ Old(n, slot, PostOf(at, job))
      OBVIOUS
    <3>1. NoneReady(tq, slot, c, ts) /\ SameBut(tq, q, c)
      BY <1>4, <1>9, <1>13 DEF NoneReady, SameBut
    <3>2. /\ Old(tq, slot, PostOf(at, job)) /\ Old(q, slot, PostOf(at, job)) /\ Listed(q, slot)
          /\ Skew(q, slot, TRUE)
      BY <1>6
    <3> QED
      BY ONLY <1>2, <1>4, <1>12, <1>15, <3>1, <3>2, SearchPass
  <2>3. tq' = n
    BY <1>13
  <2> HIDE DEF n
  <2>4. UnitsOf(n, at, job, slot, flush)
    <3>1. \A s \in Slots : QueueOf(n, s) = QueueOf(q, s) /\ n.list[s] \cap n.pend[s] = {}
      BY <1>10, <2>1 DEF QueueOf
    <3> QED
      BY <1>7, <3>1, UnitsIdle
  <2>5. UnitsOK'
    BY <2>3, <2>4, <1>1, <1>13 DEF UnitsOK
  <2>6. ShapeOK'
    BY <1>1, <1>2, <1>13, <2>1, <2>3, ShapeStep
  <2>7. SearchOK'
    BY <1>1, <1>5, <1>13, <2>2, <2>3, SkewMonotone DEF SearchOK
  <2> QED
    BY <2>5, <2>6, <2>7
<1>14. CASE \E t \in ts :
                       /\ Ready(c, t) /\ \A u \in ts : Before(u, t) => ~ Ready(c, u)
                       /\ tq' = Taken(Opened(q, c, UpTo(ts, t), NextCols(t)), c, t)
                       /\ lock' = {} /\ job' = [job EXCEPT ![w].slot = c, ![w].task = t]
                       /\ Goes(w, "run")
  <2>1. PICK t \in ts : 
                       /\ Ready(c, t) /\ \A u \in ts : Before(u, t) => ~ Ready(c, u)
                       /\ tq' = Taken(Opened(q, c, UpTo(ts, t), NextCols(t)), c, t)
                       /\ lock' = {} /\ job' = [job EXCEPT ![w].slot = c, ![w].task = t]
                       /\ Goes(w, "run")
    BY <1>14
  <2> DEFINE E == UpTo(ts, t)
             ns == NextCols(t)
             x == Opened(q, c, E, ns)
             n == Taken(x, c, t)
             N == IF flush THEN {} ELSE ns
  <2>2. /\ Ready(c, t) /\ \A u \in ts : Before(u, t) => ~ Ready(c, u)
        /\ tq' = n /\ lock' = {} /\ job' = [job EXCEPT ![w].slot = c, ![w].task = t]
        /\ Goes(w, "run")
    BY <2>1
  <2>3. t \in Tasks /\ E \in SUBSET Tasks /\ t \in q.list[c]
    BY <1>12 DEF UpTo
  <2>4. /\ t.type > InitCdf.type
        /\ \A r \in Rows : t = DeblockRows(r) => slot[c].deblock >= r
        /\ \A r \in Rows : t = DeblockCols(r) => slot[c].tiles > r
    BY <1>1, <2>2, ReadyTypes
  <2>5. /\ ns \in SUBSET Tasks /\ \A u \in ns : Before(t, u)
        /\ ns # {} => \E r \in Rows : t = DeblockCols(r) /\ r + 1 < Sbh /\ ns = {DeblockCols(r + 1)}
        /\ \A r \in Rows : t = DeblockCols(r) /\ r + 1 < Sbh => ns = {DeblockCols(r + 1)}
    BY <2>3, NextColsFacts
  <2>6. /\ x \in Queues /\ x.first = q.first /\ x.pend = q.pend
        /\ \A d \in Slots : d # c => x.list[d] = q.list[d]
        /\ flush => x.list[c] = q.list[c]
        /\ ~ flush => x.list[c] = q.list[c] \cup ns
        /\ CursorOf(x) <= Ahead(x, c)
    <3>1. c \in Slots
      BY <1>15
    <3>2. q \in Queues /\ E \in SUBSET Tasks /\ ns \in SUBSET Tasks /\ CursorOf(q) <= Ahead(q, c)
      BY <1>4, <1>8, <2>3, <2>5
    <3> HIDE DEF E, ns
    <3> QED
      BY ONLY <3>1, <3>2, OpenFacts
  <2>7. ~ flush => Skew(n, slot, FALSE) /\ Old(n, slot, PostOf(at, job))
    <3> SUFFICES ASSUME ~ flush PROVE Skew(n, slot, FALSE) /\ Old(n, slot, PostOf(at, job))
      OBVIOUS
    <3>1. NoneReady(tq, slot, c, E) /\ SameBut(tq, q, c) /\ AllAfter(t, ns)
      BY <1>4, <1>9, <2>2, <2>5 DEF NoneReady, SameBut, AllAfter, UpTo
    <3>3. /\ Skew(q, slot, TRUE) /\ Old(q, slot, PostOf(at, job)) /\ Listed(q, slot)
          /\ Old(tq, slot, PostOf(at, job))
          /\ Reaches(tq, q, c)
      BY <1>6 DEF Reaches
    <3>7. t.type > InitCdf.type /\ t \in ts
      BY <2>4
    <3> HIDE DEF ns
    <3> QED
      BY ONLY <1>2, <1>4, <1>12, <1>15, <2>5, <3>1, <3>3, <3>7, ~ flush, SearchTake
  <2> HIDE DEF E, ns, x
  <2>8. /\ n \in Queues /\ n.first = x.first /\ n.pend = x.pend
        /\ n.list[c] = x.list[c] \ {t} /\ \A d \in Slots : d # c => n.list[d] = x.list[d]
    <3>1. t.type > InitCdf.type => CursorOf(x) <= Ahead(x, c)
      BY <2>6
    <3>2. x \in Queues
      BY <2>6
    <3> QED
      BY ONLY <1>15, <2>3, <3>1, <3>2, TakenFacts
  <2> HIDE DEF n
  <2>9. /\ job' \in [Workers -> Jobs] /\ job'[w].slot = c /\ job'[w].task = t
        /\ \A d \in Workers \ {w} : job'[d].slot = job[d].slot /\ job'[d].task = job[d].task
    BY ONLY <1>15, <1>2, <2>2, <2>3, w \in Workers DEF Jobs
  <2>10. Others(at, job, at', job', w)
    BY <2>2, <2>9, GoesOthers
  <2>11. at'[w] = "run" /\ at' \in [Workers -> Places]
    BY <2>2 DEF Goes
  <2>12. UnitsOf(n, at', job', slot, flush) /\ PostOf(at, job) \subseteq PostOf(at', job')
    <3> DEFINE B == at'
               K == job'
    <3>1. B[w] = "run" /\ K[w].slot = c /\ K[w].task = t /\ Others(at, job, B, K, w)
      BY <2>9, <2>10, <2>11
    <3> HIDE DEF B, K
    <3>2. \A d \in Slots \ {c} : QueueOf(n, d) = QueueOf(q, d) /\ n.list[d] \cap n.pend[d] = {}
      BY <1>10, <2>6, <2>8 DEF QueueOf
    <3>3. /\ q.pend[c] = {} /\ n.pend[c] = {}
          /\ flush => x.list[c] = q.list[c]
          /\ ~ flush => x.list[c] = q.list[c] \cup ns
          /\ t \notin ns
      <4>1. t \notin ns
        BY <2>3, <2>5, BeforeFacts
      <4> QED
        BY <4>1, <1>4, <2>6, <2>8
    <3>4. /\ QueueOf(n, c) = (QueueOf(q, c) \ {t}) \cup N
          /\ n.list[c] \cap n.pend[c] = {} /\ t \in QueueOf(q, c)
      BY <3>3, <2>3, <2>8 DEF QueueOf
    <3>10. /\ N \subseteq Tasks
           /\ N # {} => \E r \in Rows : t = DeblockCols(r) /\ r + 1 < Sbh /\ N = {DeblockCols(r + 1)}
           /\ \A r \in Rows : ~ flush /\ t = DeblockCols(r) /\ r + 1 < Sbh => N = {DeblockCols(r + 1)}
      BY <2>5
    <3> HIDE DEF N
    <3>7. UnitsOf(n, B, K, slot, flush)
      <4>1. /\ UnitsOf(q, at, job, slot, flush) /\ slot \in [Slots -> Frames] /\ at[w] \notin Hands
            /\ t \in Tasks /\ c \in Slots
        BY <1>1, <1>2, <1>5, <1>7, <2>3
      <4> QED
        BY ONLY <4>1, <3>1, <3>2, <3>4, <3>10, <2>4, UnitsTake, w \in Workers
    <3>9. PostOf(at, job) \subseteq PostOf(B, K)
      BY <3>1, <1>5, PostStep
    <3> QED
      BY <3>7, <3>9 DEF B, K
  <2>13. UnitsOK'
    BY <2>2, <2>12, <1>1 DEF UnitsOK
  <2>14. ShapeOK'
    BY <1>1, <1>2, <2>2, <2>8, <2>9, <2>11, ShapeStep
  <2>15. SearchOK'
    BY <1>1, <2>2, <2>7, <2>12, SkewMonotone, OldMonotone DEF SearchOK
  <2> QED
    BY <2>13, <2>14, <2>15
<1> QED
  BY <1>11, <1>13, <1>14

\* What the workers hold when w, that had a task of s, goes on with one of s or with none.
LEMMA HandsStep ==
  ASSUME NEW A, NEW J, NEW B, NEW K, NEW w \in Workers, NEW s, Sole(A, J), Others(A, J, B, K, w),
         A[w] \in Hands, J[w].slot = s, B[w] \in Hands => K[w].slot = s,
         NEW C, C \in {{"run"}, Posting, {"leave"}}
  PROVE  /\ A[w] \notin C /\ B[w] \notin C => In(B, K, C, s) = In(A, J, C, s)
         /\ A[w] \in C /\ B[w] \notin C => In(B, K, C, s) = In(A, J, C, s) \ {J[w].task}
         /\ A[w] \notin C /\ B[w] \in C => In(B, K, C, s) = In(A, J, C, s) \cup {K[w].task}
         /\ A[w] \in C /\ B[w] \in C
              => In(B, K, C, s) = (In(A, J, C, s) \ {J[w].task}) \cup {K[w].task}
<1>1. C \subseteq Hands
  BY DEF Hands
<1>2. In(B, K, C, s) = (In(A, J, C, s) \ (IF A[w] \in C /\ J[w].slot = s THEN {J[w].task} ELSE {}))
                          \cup (IF B[w] \in C /\ K[w].slot = s THEN {K[w].task} ELSE {})
  BY <1>1, InStep
<1>3. B[w] \in C => K[w].slot = s
  BY <1>1
<1> QED
  BY <1>2, <1>3

\* p is q with ts added to what is pending for s.
Adds(q, p, s, ts) ==
  /\ p.list = q.list /\ p.pend[s] = q.pend[s] \cup ts
  /\ \A x \in Slots : x # s => p.pend[x] = q.pend[x]

\* The frames when a worker does a step of its task.
LEMMA TaskUnits ==
  ASSUME NEW q, NEW A, NEW J, NEW S, NEW fl, UnitsOf(q, A, J, S, fl), S \in [Slots -> Frames],
         NEW p, NEW B, NEW K, NEW w \in Workers, Others(A, J, B, K, w), NEW s \in Slots,
         J[w].slot = s, B[w] \in Hands => K[w].slot = s, Sole(B, K),
         NEW ts, Adds(q, p, s, ts), ts \cap QueueOf(q, s) = {}, NEW g \in Frames,
         Unit(QueueOf(q, s) \cup ts, In(B, K, {"run"}, s), In(B, K, Posting, s), In(B, K, {"leave"}, s), g),
         ~ fl => Whole(QueueOf(q, s) \cup ts, In(B, K, {"run"}, s), In(B, K, Posting, s),
                       In(B, K, {"leave"}, s), g)
  PROVE  UnitsOf(p, B, K, With(S, s, g), fl)
<1> DEFINE T == With(S, s, g)
<1>1. T[s] = g /\ \A x \in Slots : x # s => T[x] = S[x]
  BY WithFacts
<1> HIDE DEF T
<1>2. \A x \in Slots : q.list[x] \cap q.pend[x] = {}
  BY DEF UnitsOf
<1>3. QueueOf(p, s) = QueueOf(q, s) \cup ts /\ p.list[s] \cap p.pend[s] = {}
  BY <1>2 DEF Adds, QueueOf
<1>4. \A x \in Slots \ {s} : QueueOf(p, x) = QueueOf(q, x) /\ p.list[x] \cap p.pend[x] = {} /\ T[x] = S[x]
  BY <1>1, <1>2 DEF Adds, QueueOf
<1>5. UnitAt(p, B, K, T, s) /\ (~ fl => WholeAt(p, B, K, T, s))
  BY <1>1, <1>3 DEF UnitAt, WholeAt
<1>6. UnitsOf(p, B, K, T, fl)
  BY <1>3, <1>4, <1>5, UnitsStep
<1> QED
  BY <1>6 DEF T

\* The worker does not go on with another task.
LEMMA SoleEnd ==
  ASSUME NEW q, NEW A, NEW J, NEW S, NEW fl, UnitsOf(q, A, J, S, fl),
         NEW B, NEW K, NEW w \in Workers, Others(A, J, B, K, w), A[w] \in Hands,
         B[w] \in Hands => K[w].slot = J[w].slot /\ K[w].task = J[w].task
  PROVE  Sole(B, K)
  BY SoleStep DEF UnitsOf

\* The frame and the task of a worker that has one.
LEMMA InHandFacts ==
  ASSUME ShapeOK, UnitsOK, NEW w \in Workers, at[w] \in Hands
  PROVE  LET s == Of(w)
             t == Task(w)
         IN  /\ s \in Slots /\ t \in Tasks /\ t \notin QueueOf(tq, s) /\ slot[s] \in Frames
             /\ UnitAt(tq, at, job, slot, s) /\ (~ flush => WholeAt(tq, at, job, slot, s))
             /\ at[w] = "run" => t \in In(at, job, {"run"}, s)
             /\ at[w] \in Posting => t \in In(at, job, Posting, s) /\ t \in RowTasks
             /\ at[w] = "leave" => t \in In(at, job, {"leave"}, s) /\ t \in RowTasks
<1>1. /\ tq \in Queues /\ job \in [Workers -> Jobs] /\ slot \in [Slots -> Frames]
  BY DEF ShapeOK
<1>2. Of(w) \in Slots
  BY <1>1 DEF Of, Jobs
<1>3. UnitsOf(tq, at, job, slot, flush)
  BY DEF UnitsOK
<1>4. /\ Task(w) \in Tasks /\ Task(w) \notin QueueOf(tq, Of(w))
      /\ at[w] = "run" => Task(w) \in In(at, job, {"run"}, Of(w))
      /\ at[w] \in Posting => Task(w) \in In(at, job, Posting, Of(w)) /\ Task(w) \in RowTasks
      /\ at[w] = "leave" => Task(w) \in In(at, job, {"leave"}, Of(w)) /\ Task(w) \in RowTasks
  BY <1>2, <1>3, HandFacts DEF Of, Task
<1>5. UnitAt(tq, at, job, slot, Of(w)) /\ (~ flush => WholeAt(tq, at, job, slot, Of(w)))
  BY <1>2, <1>3 DEF UnitsOf
<1> QED
  BY <1>1, <1>2, <1>4, <1>5

\* A worker that ends its task queues what follows it, and goes to look for another.
LEMMA PendStep ==
  ASSUME ShapeOK, UnitsOK, SearchOK, NEW w \in Workers, at[w] = "run",
         Go(w, "outer"), job' = job, UNCHANGED <<lock, main, flush, calls>>,
         NEW ts \in SUBSET Tasks, ts # {}, NEW g \in Frames,
         tq' = AddPending(tq, Of(w), ts), slot' = With(slot, Of(w), g),
         ts \cap QueueOf(tq, Of(w)) = {}, ~ slot[Of(w)].finished, ~ g.finished,
         Unit(QueueOf(tq, Of(w)) \cup ts, In(at, job, {"run"}, Of(w)) \ {Task(w)},
              In(at, job, Posting, Of(w)), In(at, job, {"leave"}, Of(w)), g),
         ~ flush => Whole(QueueOf(tq, Of(w)) \cup ts, In(at, job, {"run"}, Of(w)) \ {Task(w)},
                          In(at, job, Posting, Of(w)), In(at, job, {"leave"}, Of(w)), g)
  PROVE  ShapeOK' /\ UnitsOK' /\ SearchOK'
<1> DEFINE s == Of(w)
           p == AddPending(tq, s, ts)
           T == With(slot, s, g)
           B == at'
<1>1. /\ tq \in Queues /\ at \in [Workers -> Places] /\ job \in [Workers -> Jobs]
      /\ slot \in [Slots -> Frames] /\ lock \in SUBSET Workers
  BY DEF ShapeOK
<1>2. s \in Slots /\ job[w].slot = s /\ job[w].task = Task(w)
  BY <1>1 DEF Of, Task, Jobs
<1>3. Goes(w, "outer") /\ Others(at, job, B, job, w) /\ B[w] = "outer" /\ B \in [Workers -> Places]
  BY <1>1, GoFacts DEF Places, Goes, Others
<1>4. UnitsOf(tq, at, job, slot, flush)
  BY DEF UnitsOK
<1>5. p \in Queues /\ Adds(tq, p, s, ts)
  BY <1>1, <1>2 DEF AddPending, Adds, Queues
<1>6. T \in [Slots -> Frames]
  BY <1>1, <1>2, WithFacts
<1>7. "run" \in Hands /\ "outer" \notin Hands /\ "run" \notin Posting /\ "run" \notin Post
  BY DEF Hands, Posting, Post
<1>8. tq' = p /\ slot' = T
  OBVIOUS
<1>20. /\ Unit(QueueOf(tq, s) \cup ts, In(at, job, {"run"}, s) \ {Task(w)},
              In(at, job, Posting, s), In(at, job, {"leave"}, s), g)
       /\ ~ flush => Whole(QueueOf(tq, s) \cup ts, In(at, job, {"run"}, s) \ {Task(w)},
                          In(at, job, Posting, s), In(at, job, {"leave"}, s), g)
       /\ ts \cap QueueOf(tq, s) = {} /\ ~ slot[s].finished
  OBVIOUS
<1> HIDE DEF s, p, T, B
<1>9. Sole(B, job) /\ Sole(at, job)
  BY <1>3, <1>4, <1>7, SoleEnd DEF UnitsOf
<1>10. /\ In(B, job, {"run"}, s) = In(at, job, {"run"}, s) \ {Task(w)}
       /\ In(B, job, Posting, s) = In(at, job, Posting, s)
       /\ In(B, job, {"leave"}, s) = In(at, job, {"leave"}, s)
  <2>1. at[w] \in Hands /\ B[w] \notin {"run"} /\ B[w] \notin Posting /\ B[w] \notin {"leave"}
        /\ at[w] \in {"run"} /\ at[w] \notin Posting /\ at[w] \notin {"leave"} /\ B[w] \notin Hands
    BY <1>3, <1>7 DEF Posting
  <2> QED
    BY <1>2, <1>3, <1>9, <2>1, HandsStep
<1>11. UnitsOf(p, B, job, T, flush)
  <2>1. B[w] \notin Hands
    BY <1>3, <1>7
  <2>2. /\ Unit(QueueOf(tq, s) \cup ts, In(B, job, {"run"}, s), In(B, job, Posting, s), In(B, job, {"leave"}, s), g)
        /\ ~ flush => Whole(QueueOf(tq, s) \cup ts, In(B, job, {"run"}, s), In(B, job, Posting, s),
                            In(B, job, {"leave"}, s), g)
    BY <1>10, <1>20
  <2> QED
    BY <1>1, <1>2, <1>3, <1>4, <1>5, <1>9, <1>20, <2>1, <2>2, TaskUnits DEF T
<1>12. UnitsOK'
  BY <1>8, <1>11 DEF UnitsOK, B
<1>13. ShapeOK'
  BY <1>1, <1>3, <1>5, <1>6, <1>8, ShapeStep DEF B
<1>14. PostOf(at, job) \subseteq PostOf(B, job) /\ (Scanning(at) => Scanning(B))
  BY <1>3, <1>7, PostStep
<1>15. SearchOK'
  <2> SUFFICES ASSUME ~ flush PROVE Skew(p, T, Scanning(B)) /\ Old(p, T, PostOf(B, job))
    BY <1>8 DEF SearchOK, B
  <2>1. Skew(tq, slot, Scanning(at)) /\ Old(tq, slot, PostOf(at, job))
    BY DEF SearchOK
  <2>2. Skew(p, T, Scanning(at)) /\ Old(p, T, PostOf(at, job))
    BY <1>1, <1>2, <1>20, <2>1, SearchPend DEF p, T
  <2> QED
    BY <2>2, <1>14, SkewMonotone, OldMonotone
<1> QED
  BY <1>12, <1>13, <1>15

\* A task by its type.
LEMMA TypeFacts ==
  ASSUME NEW t \in Tasks
  PROVE  /\ t.type = InitTask.type => t = InitTask
         /\ t.type = InitCdf.type => t = InitCdf
         /\ t.type = Tile(0).type => t.row \in Rows /\ t = Tile(t.row)
         /\ t.type = DeblockCols(0).type => t.row \in Rows /\ t = DeblockCols(t.row)
         /\ t.type = DeblockRows(0).type => t.row \in Rows /\ t = DeblockRows(t.row)
<1>1. /\ Tile(0).type = 2 /\ DeblockCols(0).type = 3 /\ DeblockRows(0).type = 4
      /\ InitTask.type = 0 /\ InitCdf.type = 1
  BY DEF Tile, DeblockCols, DeblockRows, InitTask, InitCdf
<1>2. \/ t = InitTask \/ t = InitCdf
      \/ \E r \in Rows : t = Tile(r) \/ t = DeblockCols(r) \/ t = DeblockRows(r)
  BY TaskFacts
<1>3. ASSUME NEW r \in Rows, t = Tile(r) \/ t = DeblockCols(r) \/ t = DeblockRows(r)
      PROVE  /\ t.row = r /\ t.type \in {2, 3, 4}
             /\ t.type = 2 => t = Tile(r)
             /\ t.type = 3 => t = DeblockCols(r)
             /\ t.type = 4 => t = DeblockRows(r)
  BY <1>3, TaskFacts
<1> QED
  BY <1>1, <1>2, <1>3

\* A frame that is set to itself.
LEMMA WithSame ==
  ASSUME NEW S, S \in [Slots -> Frames], NEW s \in Slots
  PROVE  With(S, s, S[s]) = S
  BY DEF With

\* What a queue does not hold while a task is in a hand.
LEMMA NotQueued ==
  ASSUME NEW Q, NEW R, NEW P, NEW L, NEW f, Unit(Q, R, P, L, f), f \in Frames
  PROVE  /\ InitTask \in R => InitCdf \notin Q
         /\ InitCdf \in R => Tile(0) \notin Q /\ DeblockCols(0) \notin Q
         /\ \A r \in Rows : Tile(r) \in R /\ r + 1 < Sbh => Tile(r + 1) \notin Q
         /\ \A r \in Rows : DeblockCols(r) \in R => DeblockRows(r) \notin Q
<1> DEFINE A == Q \cup R \cup P \cup L
<1>1. StagesIn(A, f) /\ RowsIn(Q, R, P, L, f)
  BY DEF Unit
<1>2. Q \subseteq A /\ R \subseteq A
  OBVIOUS
<1> HIDE DEF A
<1>3. InitTask \in R => InitCdf \notin Q
  BY <1>1, <1>2, f \in Frames DEF StagesIn, Frames
<1>4. InitCdf \in R => Tile(0) \notin Q /\ DeblockCols(0) \notin Q
  <2>1. InitCdf \in R => A \subseteq {InitTask, InitCdf}
    BY <1>1, <1>2, f \in Frames DEF StagesIn, Frames
  <2>2. Tile(0) \notin {InitTask, InitCdf} /\ DeblockCols(0) \notin {InitTask, InitCdf}
    BY TaskFacts, RowFacts
  <2> QED
    BY <2>1, <2>2, <1>2
<1>5. ASSUME NEW r \in Rows, Tile(r) \in R, r + 1 < Sbh PROVE Tile(r + 1) \notin Q
  <2>1. r + 1 \in Rows /\ r \in Nat
    BY <1>5, RowFacts
  <2>2. r = f.tiles /\ (Tile(r + 1) \in A => r + 1 = f.tiles)
    BY <1>1, <1>2, <1>5, <2>1 DEF StagesIn
  <2> QED
    BY <2>1, <2>2, <1>2
<1>6. ASSUME NEW r \in Rows, DeblockCols(r) \in R PROVE DeblockRows(r) \notin Q
  BY <1>1, <1>6 DEF RowsIn
<1> QED
  BY <1>3, <1>4, <1>5, <1>6

\* The InitCdf task.
LEMMA RunInitCdfStep ==
  ASSUME ShapeOK, LockOK, UnitsOK, SearchOK, NEW w \in Workers, RunInitCdf(w)
  PROVE  ShapeOK' /\ UnitsOK' /\ SearchOK'
<1> DEFINE s == Of(w)
           f == slot[s]
           g == Inited(f)
           ts == {Tile(0), DeblockCols(0)}
           Q == QueueOf(tq, s)
           R == In(at, job, {"run"}, s)
           P == In(at, job, Posting, s)
           L == In(at, job, {"leave"}, s)
<1>1. /\ at[w] = "run" /\ Task(w).type = InitCdf.type
      /\ tq' = AddPending(tq, s, ts) /\ slot' = [slot EXCEPT ![s].initDone = TRUE]
      /\ Go(w, "outer") /\ job' = job /\ UNCHANGED <<lock, main, flush, calls>>
  BY DEF RunInitCdf, Runs
<1>2. "run" \in Hands
  BY DEF Hands
<1>3. /\ s \in Slots /\ Task(w) \in Tasks /\ f \in Frames /\ Task(w) \in R
      /\ UnitAt(tq, at, job, slot, s) /\ (~ flush => WholeAt(tq, at, job, slot, s))
  BY <1>1, <1>2, InHandFacts
<1>4. Task(w) = InitCdf
  BY <1>1, <1>3, TypeFacts
<1>5. Unit(Q, R, P, L, f) /\ InitCdf \in R
  BY <1>3, <1>4 DEF UnitAt
<1>6. slot' = With(slot, s, g)
  BY <1>1 DEF With, Inited
<1> HIDE DEF s, f, g, Q, R, P, L
<1>7. /\ Unit(Q \cup ts, R \ {InitCdf}, P, L, g) /\ Whole(Q \cup ts, R \ {InitCdf}, P, L, g)
      /\ ~ f.finished /\ g \in Frames
  BY <1>3, <1>5, UnitInitCdf DEF g
<1>8. ~ g.finished
  BY <1>3, <1>7 DEF g, Inited, Frames
<1>9. ts \cap Q = {}
  BY <1>3, <1>5, NotQueued
<1>10. ts \in SUBSET Tasks /\ ts # {}
  BY TaskFacts, RowFacts
<1> HIDE DEF ts
<1> QED
  BY <1>1, <1>4, <1>6, <1>7, <1>8, <1>9, <1>10, PendStep DEF s, f, Q, R, P, L

\* A row of tiles that is not the last.
LEMMA RunTileStep ==
  ASSUME ShapeOK, LockOK, UnitsOK, SearchOK, NEW w \in Workers, RunTile(w)
  PROVE  ShapeOK' /\ UnitsOK' /\ SearchOK'
<1> DEFINE s == Of(w)
           f == slot[s]
           r == Task(w).row
           g == Tiled(f, r + 1)
           ts == {Tile(r + 1)}
           Q == QueueOf(tq, s)
           R == In(at, job, {"run"}, s)
           P == In(at, job, Posting, s)
           L == In(at, job, {"leave"}, s)
<1>1. /\ at[w] = "run" /\ Task(w).type = Tile(0).type /\ r + 1 < Sbh
      /\ tq' = AddPending(tq, s, ts) /\ slot' = [slot EXCEPT ![s].tiles = r + 1]
      /\ Go(w, "outer") /\ job' = job /\ UNCHANGED <<lock, main, flush, calls>>
  BY DEF RunTile, Runs
<1>2. "run" \in Hands
  BY DEF Hands
<1>3. /\ s \in Slots /\ Task(w) \in Tasks /\ f \in Frames /\ Task(w) \in R
      /\ UnitAt(tq, at, job, slot, s) /\ (~ flush => WholeAt(tq, at, job, slot, s))
  BY <1>1, <1>2, InHandFacts
<1>4. r \in Rows /\ Task(w) = Tile(r)
  BY <1>1, <1>3, TypeFacts
<1>5. /\ Unit(Q, R, P, L, f) /\ Tile(r) \in R
      /\ ~ flush => Whole(Q, R, P, L, f)
  BY <1>3, <1>4 DEF UnitAt, WholeAt
<1>6. slot' = With(slot, s, g)
  BY <1>1 DEF With, Tiled
<1> HIDE DEF s, f, g, r, Q, R, P, L
<1>7. /\ Unit(Q \cup ts, R \ {Tile(r)}, P, L, g) /\ ~ f.finished /\ g \in Frames
      /\ Whole(Q, R, P, L, f) => Whole(Q \cup ts, R \ {Tile(r)}, P, L, g)
  BY <1>1, <1>3, <1>4, <1>5, UnitTile DEF g
<1>8. ~ g.finished
  BY <1>3, <1>7 DEF g, Tiled, Frames
<1>9. ts \cap Q = {}
  BY <1>1, <1>3, <1>4, <1>5, NotQueued
<1>10. ts \in SUBSET Tasks /\ ts # {}
  BY <1>1, <1>4, TaskFacts, RowFacts
<1> HIDE DEF ts
<1>11. ~ flush => Whole(Q \cup ts, R \ {Task(w)}, P, L, g)
  BY <1>4, <1>5, <1>7
<1>12. Unit(Q \cup ts, R \ {Task(w)}, P, L, g)
  BY <1>4, <1>7
<1> QED
  BY <1>1, <1>6, <1>7, <1>8, <1>9, <1>10, <1>11, <1>12, PendStep DEF s, f, Q, R, P, L

\* A worker goes on with another task of the frame.
LEMMA GoOnStep ==
  ASSUME ShapeOK, UnitsOK, SearchOK, NEW w \in Workers, at[w] = "run", NEW u \in Tasks,
         at' = at, job' = [job EXCEPT ![w].task = u], UNCHANGED <<tq, slot, lock, main, flush, calls>>,
         u \notin In(at, job, {"run"}, Of(w)), u \notin In(at, job, Posting, Of(w)),
         u \notin In(at, job, {"leave"}, Of(w)),
         Unit(QueueOf(tq, Of(w)), (In(at, job, {"run"}, Of(w)) \ {Task(w)}) \cup {u},
              In(at, job, Posting, Of(w)), In(at, job, {"leave"}, Of(w)), slot[Of(w)]),
         ~ flush => Whole(QueueOf(tq, Of(w)), (In(at, job, {"run"}, Of(w)) \ {Task(w)}) \cup {u},
                          In(at, job, Posting, Of(w)), In(at, job, {"leave"}, Of(w)), slot[Of(w)])
  PROVE  ShapeOK' /\ UnitsOK' /\ SearchOK'
<1> DEFINE s == Of(w)
           K == job'
<1>1. /\ tq \in Queues /\ at \in [Workers -> Places] /\ job \in [Workers -> Jobs]
      /\ slot \in [Slots -> Frames] /\ lock \in SUBSET Workers
  BY DEF ShapeOK
<1>2. s \in Slots /\ job[w].slot = s /\ job[w].task = Task(w)
  BY <1>1 DEF Of, Task, Jobs
<1>3. /\ K \in [Workers -> Jobs] /\ K[w].slot = s /\ K[w].task = u
      /\ \A v \in Workers \ {w} : K[v] = job[v]
  BY <1>1, <1>2 DEF Jobs
<1>4. UnitsOf(tq, at, job, slot, flush) /\ Sole(at, job)
  BY DEF UnitsOK, UnitsOf
<1>5. /\ Unit(QueueOf(tq, s), (In(at, job, {"run"}, s) \ {Task(w)}) \cup {u},
              In(at, job, Posting, s), In(at, job, {"leave"}, s), slot[s])
      /\ ~ flush => Whole(QueueOf(tq, s), (In(at, job, {"run"}, s) \ {Task(w)}) \cup {u},
                          In(at, job, Posting, s), In(at, job, {"leave"}, s), slot[s])
      /\ u \notin In(at, job, {"run"}, s) /\ u \notin In(at, job, Posting, s)
      /\ u \notin In(at, job, {"leave"}, s)
  OBVIOUS
<1>6. at[w] = "run" /\ "run" \in Hands /\ "run" \notin Posting /\ "run" \notin Post
  BY DEF Hands, Posting, Post
<1> HIDE DEF s, K
<1>7. Others(at, job, at, K, w)
  BY <1>3 DEF Others
<1>8. \A v \in Workers \ {w} : ~ (at[v] \in Hands /\ job[v].slot = s /\ job[v].task = u)
  BY <1>2, <1>4, <1>5, FreeFacts
<1>9. Sole(at, K)
  BY <1>3, <1>4, <1>7, <1>8, SoleStep
<1>10. /\ In(at, K, {"run"}, s) = (In(at, job, {"run"}, s) \ {Task(w)}) \cup {u}
       /\ In(at, K, Posting, s) = In(at, job, Posting, s)
       /\ In(at, K, {"leave"}, s) = In(at, job, {"leave"}, s)
  <2>1. at[w] \in Hands /\ at[w] \in {"run"} /\ at[w] \notin Posting /\ at[w] \notin {"leave"}
    BY <1>6
  <2> QED
    BY <1>2, <1>3, <1>4, <1>7, <2>1, HandsStep
<1>11. UnitAt(tq, at, K, slot, s) /\ (~ flush => WholeAt(tq, at, K, slot, s))
  BY <1>5, <1>10 DEF UnitAt, WholeAt
<1>12. UnitsOf(tq, at, K, slot, flush)
  <2>1. \A x \in Slots : tq.list[x] \cap tq.pend[x] = {}
    BY <1>4 DEF UnitsOf
  <2> QED
    BY <1>2, <1>3, <1>4, <1>7, <1>9, <1>11, <2>1, UnitsStep
<1>13. UnitsOK'
  BY <1>12 DEF UnitsOK, K
<1>14. ShapeOK'
  BY <1>1, <1>3, ShapeStep DEF K
<1>15. PostOf(at, job) \subseteq PostOf(at, K)
  BY <1>6, <1>7, PostStep
<1>16. SearchOK'
  BY <1>15, OldMonotone DEF SearchOK, K
<1> QED
  BY <1>13, <1>14, <1>16

\* The Init task.
LEMMA RunInitStep ==
  ASSUME ShapeOK, LockOK, UnitsOK, SearchOK, NEW w \in Workers, RunInit(w)
  PROVE  ShapeOK' /\ UnitsOK' /\ SearchOK'
<1> DEFINE s == Of(w)
           f == slot[s]
           ts == {InitCdf}
           Q == QueueOf(tq, s)
           R == In(at, job, {"run"}, s)
           P == In(at, job, Posting, s)
           L == In(at, job, {"leave"}, s)
<1>1. /\ at[w] = "run" /\ Task(w).type = InitTask.type /\ UNCHANGED <<slot, lock, main, flush, calls>>
      /\ \/ job' = [job EXCEPT ![w].task = InitCdf] /\ UNCHANGED <<tq, at>>
         \/ tq' = AddPending(tq, s, ts) /\ Go(w, "outer") /\ job' = job
  BY DEF RunInit, Runs
<1>2. "run" \in Hands
  BY DEF Hands
<1>3. /\ s \in Slots /\ Task(w) \in Tasks /\ f \in Frames /\ Task(w) \in R
      /\ UnitAt(tq, at, job, slot, s) /\ slot \in [Slots -> Frames]
  BY <1>1, <1>2, InHandFacts DEF ShapeOK
<1>4. Task(w) = InitTask
  BY <1>1, <1>3, TypeFacts
<1>5. Unit(Q, R, P, L, f) /\ InitTask \in R
  BY <1>3, <1>4 DEF UnitAt
<1>6. slot' = With(slot, s, f)
  BY <1>1, <1>3, WithSame
<1>7. InitCdf \notin R /\ InitCdf \notin P /\ InitCdf \notin L
  BY <1>5 DEF Unit, StagesIn
<1>8. InitCdf \in Tasks
  BY TaskFacts
<1> HIDE DEF s, f, Q, R, P, L
<1>9. CASE job' = [job EXCEPT ![w].task = InitCdf] /\ UNCHANGED <<tq, at>>
  <2>1. Unit(Q, (R \ {InitTask}) \cup {InitCdf}, P, L, f) /\ Whole(Q, (R \ {InitTask}) \cup {InitCdf}, P, L, f)
    BY <1>3, <1>5, UnitInit
  <2> QED
    BY <1>1, <1>4, <1>7, <1>8, <1>9, <2>1, GoOnStep DEF s, f, Q, R, P, L
<1>10. CASE tq' = AddPending(tq, s, ts) /\ Go(w, "outer") /\ job' = job
  <2>1. /\ Unit(Q \cup ts, R \ {InitTask}, P, L, f) /\ Whole(Q \cup ts, R \ {InitTask}, P, L, f)
        /\ ~ f.finished
    BY <1>3, <1>5, UnitInit
  <2>2. ts \cap Q = {} /\ ts \in SUBSET Tasks /\ ts # {}
    BY <1>3, <1>5, <1>8, NotQueued
  <2> HIDE DEF ts
  <2> QED
    BY <1>1, <1>3, <1>4, <1>6, <1>10, <2>1, <2>2, PendStep DEF s, f, Q, R, P, L
<1> QED
  BY <1>1, <1>9, <1>10

\* The deblocking in columns.
LEMMA RunColsStep ==
  ASSUME ShapeOK, LockOK, UnitsOK, SearchOK, NEW w \in Workers, RunCols(w)
  PROVE  ShapeOK' /\ UnitsOK' /\ SearchOK'
<1> DEFINE s == Of(w)
           f == slot[s]
           r == Task(w).row
           ts == {DeblockRows(r)}
           Q == QueueOf(tq, s)
           R == In(at, job, {"run"}, s)
           P == In(at, job, Posting, s)
           L == In(at, job, {"leave"}, s)
<1>1. /\ at[w] = "run" /\ Task(w).type = DeblockCols(0).type /\ UNCHANGED <<slot, lock, main, flush, calls>>
      /\ \/ ~ (f.deblock < r) /\ job' = [job EXCEPT ![w].task = DeblockRows(r)] /\ UNCHANGED <<tq, at>>
         \/ tq' = AddPending(tq, s, ts) /\ Go(w, "outer") /\ job' = job
  BY DEF RunCols, Runs
<1>2. "run" \in Hands
  BY DEF Hands
<1>3. /\ s \in Slots /\ Task(w) \in Tasks /\ f \in Frames /\ Task(w) \in R
      /\ UnitAt(tq, at, job, slot, s) /\ (~ flush => WholeAt(tq, at, job, slot, s))
      /\ slot \in [Slots -> Frames]
  BY <1>1, <1>2, InHandFacts DEF ShapeOK
<1>4. r \in Rows /\ Task(w) = DeblockCols(r)
  BY <1>1, <1>3, TypeFacts
<1>5. /\ Unit(Q, R, P, L, f) /\ DeblockCols(r) \in R
      /\ ~ flush => Whole(Q, R, P, L, f)
  BY <1>3, <1>4 DEF UnitAt, WholeAt
<1>6. slot' = With(slot, s, f)
  BY <1>1, <1>3, WithSame
<1>7. DeblockRows(r) \notin R /\ DeblockRows(r) \notin P /\ DeblockRows(r) \notin L
  BY <1>4, <1>5 DEF Unit, RowsIn
<1>8. DeblockRows(r) \in Tasks /\ r \in Nat /\ f.deblock \in Nat
  <2>1. DeblockRows(r) \in Tasks /\ r \in Nat
    BY <1>4, TaskFacts, RowFacts
  <2>2. f.deblock \in 0 .. Sbh
    BY <1>3 DEF Frames
  <2> QED
    BY <2>1, <2>2, RowFacts
<1> HIDE DEF s, f, r, Q, R, P, L
<1>9. CASE ~ (f.deblock < r) /\ job' = [job EXCEPT ![w].task = DeblockRows(r)] /\ UNCHANGED <<tq, at>>
  <2>1. /\ Unit(Q, (R \ {DeblockCols(r)}) \cup {DeblockRows(r)}, P, L, f)
        /\ Whole(Q, R, P, L, f) => Whole(Q, (R \ {DeblockCols(r)}) \cup {DeblockRows(r)}, P, L, f)
    <3>1. f.deblock >= r
      BY <1>8, <1>9
    <3> QED
      BY <3>1, <1>3, <1>4, <1>5, UnitCols
  <2>2. ~ flush => Whole(Q, (R \ {Task(w)}) \cup {DeblockRows(r)}, P, L, f)
    BY <2>1, <1>4, <1>5
  <2>3. Unit(Q, (R \ {Task(w)}) \cup {DeblockRows(r)}, P, L, f)
    BY <2>1, <1>4
  <2> QED
    BY <1>1, <1>7, <1>8, <1>9, <2>2, <2>3, GoOnStep DEF s, f, Q, R, P, L
<1>10. CASE tq' = AddPending(tq, s, ts) /\ Go(w, "outer") /\ job' = job
  <2>1. /\ Unit(Q \cup ts, R \ {DeblockCols(r)}, P, L, f) /\ ~ f.finished
        /\ Whole(Q, R, P, L, f) => Whole(Q \cup ts, R \ {DeblockCols(r)}, P, L, f)
    BY <1>3, <1>4, <1>5, UnitCols
  <2>2. ts \cap Q = {} /\ ts \in SUBSET Tasks /\ ts # {}
    BY <1>3, <1>4, <1>5, <1>8, NotQueued
  <2> HIDE DEF ts
  <2>3. ~ flush => Whole(Q \cup ts, R \ {Task(w)}, P, L, f)
    BY <2>1, <1>4, <1>5
  <2>4. Unit(Q \cup ts, R \ {Task(w)}, P, L, f)
    BY <2>1, <1>4
  <2> QED
    BY <1>1, <1>3, <1>6, <1>10, <2>1, <2>2, <2>3, <2>4, PendStep DEF s, f, Q, R, P, L
<1> QED
  BY <1>1, <1>9, <1>10

\* The tasks of s that workers at C have when w, that has one, goes on to p.
Kept(C, w, p) ==
  LET I == In(at, job, C, Of(w))
  IN  IF p \in C THEN I \cup {Task(w)} ELSE IF at[w] \in C THEN I \ {Task(w)} ELSE I

\* A worker goes on with its task, or ends it.
LEMMA AlongStep ==
  ASSUME ShapeOK, UnitsOK, NEW w \in Workers, at[w] \in Hands, NEW p, Goes(w, p), job' = job,
         UNCHANGED <<main, flush, calls>>, tq' \in Queues, tq'.list = tq.list, tq'.pend = tq.pend,
         lock' \in SUBSET Workers, NEW g \in Frames, slot' = With(slot, Of(w), g),
         Unit(QueueOf(tq, Of(w)), Kept({"run"}, w, p), Kept(Posting, w, p), Kept({"leave"}, w, p), g),
         ~ flush => Whole(QueueOf(tq, Of(w)), Kept({"run"}, w, p), Kept(Posting, w, p),
                          Kept({"leave"}, w, p), g)
  PROVE  ShapeOK' /\ UnitsOK' /\ Others(at, job, at', job', w)
<1> DEFINE s == Of(w)
           B == at'
           T == With(slot, s, g)
<1>1. /\ tq \in Queues /\ at \in [Workers -> Places] /\ job \in [Workers -> Jobs]
      /\ slot \in [Slots -> Frames]
  BY DEF ShapeOK
<1>2. s \in Slots /\ job[w].slot = s /\ job[w].task = Task(w)
  BY <1>1 DEF Of, Task, Jobs
<1>3. Others(at, job, B, job, w) /\ B[w] = p /\ B \in [Workers -> Places]
  BY DEF Goes, Others
<1>4. UnitsOf(tq, at, job, slot, flush) /\ Sole(at, job)
  BY DEF UnitsOK, UnitsOf
<1>5. Adds(tq, tq', s, {})
  BY DEF Adds
<1>6. T \in [Slots -> Frames] /\ slot' = T
  BY <1>1, <1>2, WithFacts
<1>7. /\ Unit(QueueOf(tq, s), Kept({"run"}, w, p), Kept(Posting, w, p), Kept({"leave"}, w, p), g)
      /\ ~ flush => Whole(QueueOf(tq, s), Kept({"run"}, w, p), Kept(Posting, w, p), Kept({"leave"}, w, p), g)
  OBVIOUS
<1> DEFINE q == tq'
<1>13. q = tq' /\ q \in Queues /\ Adds(tq, q, s, {})
  BY <1>5
<1> HIDE DEF B, T, q
<1>8. Sole(B, job)
  BY <1>3, <1>4, SoleEnd
<1>9. ASSUME NEW C, C \in {{"run"}, Posting, {"leave"}}
      PROVE  In(B, job, C, s) = Kept(C, w, p)
  <2>1. /\ at[w] \notin C /\ B[w] \notin C => In(B, job, C, s) = In(at, job, C, s)
        /\ at[w] \in C /\ B[w] \notin C => In(B, job, C, s) = In(at, job, C, s) \ {job[w].task}
        /\ at[w] \notin C /\ B[w] \in C => In(B, job, C, s) = In(at, job, C, s) \cup {job[w].task}
        /\ at[w] \in C /\ B[w] \in C
             => In(B, job, C, s) = (In(at, job, C, s) \ {job[w].task}) \cup {job[w].task}
    <3>1. job[w].slot = s
      BY <1>2
    <3> HIDE DEF s
    <3> QED
      BY <1>3, <1>4, <1>9, <3>1, HandsStep
  <2>2. job[w].task = Task(w) /\ B[w] = p
    BY <1>2, <1>3
  <2> QED
    BY <2>1, <2>2 DEF Kept
<1>10. UnitsOf(q, B, job, T, flush)
  <2> DEFINE Q == QueueOf(tq, s)
  <2>1. Q \cup {} = Q /\ {} \cap Q = {}
    OBVIOUS
  <2>2. /\ Unit(Q \cup {}, In(B, job, {"run"}, s), In(B, job, Posting, s), In(B, job, {"leave"}, s), g)
        /\ ~ flush => Whole(Q \cup {}, In(B, job, {"run"}, s), In(B, job, Posting, s),
                            In(B, job, {"leave"}, s), g)
    BY <1>7, <1>9, <2>1
  <2>3. job[w].slot = s /\ s \in Slots
    BY <1>2
  <2> HIDE DEF s
  <2> QED
    BY <1>1, <1>3, <1>4, <1>8, <1>13, <2>1, <2>2, <2>3, TaskUnits DEF T
<1>11. UnitsOK'
  BY <1>6, <1>10, <1>13 DEF UnitsOK, B
<1>12. ShapeOK'
  BY <1>1, <1>3, <1>6, ShapeStep DEF B
<1> QED
  BY <1>3, <1>11, <1>12 DEF B

\* reset_task_cur_async reads first, ...
LEMMA AsyncFirstStep ==
  ASSUME ShapeOK, LockOK, UnitsOK, SearchOK, NEW w \in Workers, AsyncFirst(w)
  PROVE  ShapeOK' /\ UnitsOK' /\ SearchOK'
<1> DEFINE K == [job EXCEPT ![w].idx = Ahead(tq, Of(w)), ![w].first = tq.first]
<1>1. at[w] = "async" /\ job' = K /\ Go(w, "swap") /\ UNCHANGED <<tq, lock, slot, main, flush, calls>>
  BY DEF AsyncFirst
<1>2. /\ tq \in Queues /\ at \in [Workers -> Places] /\ job \in [Workers -> Jobs]
      /\ slot \in [Slots -> Frames] /\ lock \in SUBSET Workers
  BY DEF ShapeOK
<1>3. Goes(w, "swap") /\ \A v \in Workers \ {w} : at'[v] = at[v]
  BY <1>1, <1>2, GoFacts DEF Places
<1>4. Ahead(tq, Of(w)) \in 0 .. MAX /\ tq.first \in Slots
  <2>1. Of(w) \in Slots
    BY <1>2 DEF Of, Jobs
  <2>2. Ahead(tq, Of(w)) \in Nat /\ Ahead(tq, Of(w)) < tq.first + NFc /\ tq.first \in Slots
    BY <1>2, <2>1, RingFacts
  <2> QED
    BY <2>2, SizeAssumption DEF Slots, MAX
<1>5. /\ K \in [Workers -> Jobs]
      /\ \A v \in Workers : K[v].slot = job[v].slot /\ K[v].task = job[v].task
  <2> DEFINE i == Ahead(tq, Of(w))
             n == tq.first
  <2>1. i \in 0 .. MAX /\ n \in Slots
    BY <1>4
  <2>2. K = [job EXCEPT ![w].idx = i, ![w].first = n]
    OBVIOUS
  <2> HIDE DEF i, n, K
  <2> QED
    BY <1>2, <2>1, <2>2 DEF Jobs
<1> HIDE DEF K
<1>6. UnitsOK' /\ PostOf(at, job) \subseteq PostOf(at', job')
  BY <1>1, <1>2, <1>3, <1>5, QuietStep DEF Posting
<1>7. ShapeOK'
  BY <1>1, <1>2, <1>3, <1>5, ShapeStep DEF Goes
<1>8. Scanning(at) => Scanning(at')
  BY <1>1, <1>3 DEF Scanning
<1>9. SearchOK'
  BY <1>1, <1>6, <1>8, SkewMonotone, OldMonotone DEF SearchOK
<1> QED
  BY <1>6, <1>7, <1>9

\* ..., swaps its index in, ...
LEMMA AsyncSwapStep ==
  ASSUME ShapeOK, LockOK, UnitsOK, SearchOK, NEW w \in Workers, AsyncSwap(w)
  PROVE  ShapeOK' /\ UnitsOK' /\ SearchOK'
<1>1. /\ at[w] = "swap" /\ tq' = [tq EXCEPT !.reset = job[w].idx]
      /\ UNCHANGED <<lock, slot, main, flush, calls>>
      /\ \/ job' = [job EXCEPT ![w].idx = tq.reset] /\ UNCHANGED at
         \/ job' = job /\ Go(w, "signal")
  BY DEF AsyncSwap
<1>2. /\ tq \in Queues /\ at \in [Workers -> Places] /\ job \in [Workers -> Jobs]
      /\ slot \in [Slots -> Frames] /\ lock \in SUBSET Workers
  BY DEF ShapeOK
<1>3. PICK p \in {"swap", "signal"} : Goes(w, p) /\ \A v \in Workers \ {w} : at'[v] = at[v]
  <2>1. CASE UNCHANGED at
    BY <1>1, <1>2, <2>1 DEF Goes
  <2>2. CASE Go(w, "signal")
    BY <1>2, <2>2, GoFacts DEF Places
  <2> QED
    BY <1>1, <2>1, <2>2
<1>4. /\ job' \in [Workers -> Jobs]
      /\ \A v \in Workers : job'[v].slot = job[v].slot /\ job'[v].task = job[v].task
  <2>1. CASE job' = job
    BY <1>2, <2>1
  <2>2. CASE job' = [job EXCEPT ![w].idx = tq.reset]
    <3>1. tq.reset \in 0 .. MAX
      BY <1>2 DEF Queues
    <3> QED
      BY <1>2, <2>2, <3>1 DEF Jobs
  <2> QED
    BY <1>1, <2>1, <2>2
<1>5. /\ tq' \in Queues /\ tq'.list = tq.list /\ tq'.pend = tq.pend /\ tq'.first = tq.first
      /\ tq'.cur = tq.cur /\ tq'.prev = tq.prev
  <2>1. job[w].idx \in 0 .. MAX
    BY <1>2 DEF Jobs
  <2> QED
    BY <1>1, <1>2, <2>1 DEF Queues
<1>6. UnitsOK' /\ PostOf(at, job) \subseteq PostOf(at', job')
  <2>1. at[w] \in Posting /\ p \in Posting /\ at[w] \notin {"run", "leave"} /\ p \notin {"run", "leave"}
    BY <1>1 DEF Posting
  <2> QED
    BY <1>1, <1>3, <1>4, <1>5, <2>1, QuietStep
<1>7. ShapeOK'
  BY <1>1, <1>2, <1>3, <1>4, <1>5, ShapeStep DEF Goes
<1>8. Scanning(at) => Scanning(at')
  BY <1>1, <1>3 DEF Scanning
<1>9. SearchOK'
  <2> SUFFICES ASSUME ~ flush PROVE Skew(tq', slot, Scanning(at')) /\ Old(tq', slot, PostOf(at', job'))
    BY <1>1 DEF SearchOK
  <2>1. Skew(tq, slot, Scanning(at)) /\ Old(tq, slot, PostOf(at, job))
    BY DEF SearchOK
  <2>2. Skew(tq', slot, Scanning(at)) /\ Old(tq', slot, PostOf(at, job))
    BY <1>5, <2>1, SearchQuiet
  <2> QED
    BY <1>6, <1>8, <2>2, SkewMonotone, OldMonotone
<1> QED
  BY <1>6, <1>7, <1>9

\* ..., may take it back, and signals.
LEMMA AsyncSignalStep ==
  ASSUME ShapeOK, LockOK, UnitsOK, SearchOK, NEW w \in Workers, AsyncSignal(w)
  PROVE  ShapeOK' /\ UnitsOK' /\ SearchOK'
<1>1. /\ at[w] = "signal" /\ Signal(w, "publish", TakenBack(w, tq))
      /\ job' = [job EXCEPT ![w].idx = MAX, ![w].first = 0]
      /\ UNCHANGED <<lock, slot, main, flush, calls>>
  BY DEF AsyncSignal
<1>2. /\ tq \in Queues /\ at \in [Workers -> Places] /\ job \in [Workers -> Jobs]
      /\ slot \in [Slots -> Frames] /\ lock \in SUBSET Workers
  BY DEF ShapeOK
<1>3. Goes(w, "publish") /\ tq' = [TakenBack(w, tq) EXCEPT !.signaled = TRUE]
  BY <1>1, <1>2, SignalFacts DEF Places
<1>4. /\ job' \in [Workers -> Jobs]
      /\ \A v \in Workers : job'[v].slot = job[v].slot /\ job'[v].task = job[v].task
  <2>1. MAX \in 0 .. MAX /\ 0 \in Slots
    BY SizeAssumption DEF MAX, Slots
  <2> HIDE DEF MAX
  <2> QED
    BY <1>1, <1>2, <2>1 DEF Jobs
<1>5. /\ tq' \in Queues /\ tq'.list = tq.list /\ tq'.pend = tq.pend /\ tq'.first = tq.first
      /\ tq'.cur = tq.cur /\ tq'.prev = tq.prev
  <2>1. MAX \in 0 .. MAX
    BY SizeAssumption DEF MAX
  <2>2. TakenBack(w, tq) \in {tq, [tq EXCEPT !.reset = MAX]}
    BY DEF TakenBack
  <2> DEFINE b == TakenBack(w, tq)
  <2>3. b = tq \/ b = [tq EXCEPT !.reset = MAX]
    BY <2>2
  <2>4. tq' = [b EXCEPT !.signaled = TRUE]
    BY <1>3
  <2> HIDE DEF b, MAX
  <2>5. /\ b \in Queues /\ b.list = tq.list /\ b.pend = tq.pend /\ b.first = tq.first
        /\ b.cur = tq.cur /\ b.prev = tq.prev
    BY <1>2, <2>1, <2>3 DEF Queues
  <2> QED
    BY <2>4, <2>5 DEF Queues
<1>6. UnitsOK' /\ PostOf(at, job) \subseteq PostOf(at', job')
  <2>1. at[w] \in Posting /\ "publish" \in Posting /\ at[w] \notin {"run", "leave"}
    BY <1>1 DEF Posting
  <2> QED
    BY <1>1, <1>3, <1>4, <1>5, <2>1, QuietStep
<1>7. ShapeOK'
  BY <1>1, <1>2, <1>3, <1>4, <1>5, ShapeStep DEF Goes
<1>8. Scanning(at) => Scanning(at')
  BY <1>1, <1>3 DEF Scanning, Goes
<1>9. SearchOK'
  <2> SUFFICES ASSUME ~ flush PROVE Skew(tq', slot, Scanning(at')) /\ Old(tq', slot, PostOf(at', job'))
    BY <1>1 DEF SearchOK
  <2>1. Skew(tq, slot, Scanning(at)) /\ Old(tq, slot, PostOf(at, job))
    BY DEF SearchOK
  <2>2. Skew(tq', slot, Scanning(at)) /\ Old(tq', slot, PostOf(at, job))
    BY <1>5, <2>1, SearchQuiet
  <2> QED
    BY <1>6, <1>8, <2>2, SkewMonotone, OldMonotone
<1> QED
  BY <1>6, <1>7, <1>9

\* A worker with a task moves the cursor back to its frame under ttd.lock.
LEMMA ResetStep ==
  ASSUME ShapeOK, LockOK, UnitsOK, SearchOK, NEW w \in Workers, at[w] \in Hands, lock = {},
         Others(at, job, at', job', w), at'[w] \notin Post, UNCHANGED flush,
         NEW g \in Frames, slot' = With(slot, Of(w), g), ~ slot[Of(w)].finished,
         g.finished => QueueOf(tq, Of(w)) = {} /\ slot[Of(w)].initDone,
         ~ g.finished => g.initDone = slot[Of(w)].initDone,
         tq'.first = ResetTaskCur(tq, Of(w)).first, tq'.cur = ResetTaskCur(tq, Of(w)).cur,
         tq'.prev = ResetTaskCur(tq, Of(w)).prev, tq'.list = ResetTaskCur(tq, Of(w)).list,
         tq'.pend = ResetTaskCur(tq, Of(w)).pend
  PROVE  SearchOK'
<1> DEFINE s == Of(w)
           p == ResetTaskCur(tq, s)
           T == With(slot, s, g)
           post == PostOf(at, job)
<1>1. /\ tq \in Queues /\ job \in [Workers -> Jobs] /\ slot \in [Slots -> Frames]
  BY DEF ShapeOK
<1>2. s \in Slots /\ job[w].slot = s
  BY <1>1 DEF Of, Jobs
<1> SUFFICES ASSUME ~ flush PROVE Skew(tq', slot', Scanning(at')) /\ Old(tq', slot', PostOf(at', job'))
  BY DEF SearchOK
<1>3. ~ Scanning(at)
  <2>1. at[w] # "scan"
    BY DEF Hands, Posting
  <2> QED
    BY <2>1, NoScan
<1>4. Skew(tq, slot, FALSE) /\ Old(tq, slot, post)
  BY <1>3, NoSearch
<1>5. Listed(tq, slot)
  BY ListedOf DEF UnitsOK
<1>6. /\ g.finished => tq.list[s] = {} /\ tq.pend[s] = {} /\ slot[s].initDone
      /\ ~ g.finished => g.initDone = slot[s].initDone
      /\ ~ slot[s].finished
  BY DEF QueueOf
<1>7. Skew(p, T, FALSE) /\ Old(p, T, post \ {s})
  <2> HIDE DEF s, post
  <2> QED
    BY <1>1, <1>2, <1>4, <1>5, <1>6, SearchReset
<1>8. Skew(tq', T, FALSE) /\ Old(tq', T, post \ {s})
  <2> DEFINE n == tq'
  <2>1. n.first = p.first /\ n.cur = p.cur /\ n.prev = p.prev /\ n.list = p.list /\ n.pend = p.pend
    OBVIOUS
  <2> HIDE DEF n, p, T, post
  <2>2. Skew(n, T, FALSE) /\ Old(n, T, post \ {s})
    BY <1>7, <2>1, SearchQuiet
  <2> QED
    BY <2>2 DEF n
<1>9. post \ {s} \subseteq PostOf(at', job')
  BY <1>2, PostStep
<1> QED
  BY <1>8, <1>9, SkewMonotone, OldMonotone

\* The last row of tiles: the cursor is moved back under ttd.lock.
LEMMA RunLastTileStep ==
  ASSUME ShapeOK, LockOK, UnitsOK, SearchOK, NEW w \in Workers, RunLastTile(w)
  PROVE  ShapeOK' /\ UnitsOK' /\ SearchOK'
<1> DEFINE s == Of(w)
           f == slot[s]
           r == Task(w).row
           g == Coded(f)
           z == ResetTaskCur(tq, s)
           Q == QueueOf(tq, s)
           R == In(at, job, {"run"}, s)
           P == In(at, job, Posting, s)
           L == In(at, job, {"leave"}, s)
<1>1. /\ at[w] = "run" /\ Task(w).type = Tile(0).type /\ r + 1 = Sbh /\ lock = {} /\ lock' = {w}
      /\ slot' = [slot EXCEPT ![s].tiles = Sbh, ![s].cdf = TRUE, ![s].counter = @ - 1]
      /\ Signal(w, "outer", z) /\ UNCHANGED <<job, main, flush, calls>>
  BY DEF RunLastTile, Runs
<1>2. at[w] \in Hands /\ "outer" \notin Posting /\ at[w] \notin Posting /\ at[w] # "wait" /\ "outer" \notin Post
  BY <1>1 DEF Hands, Posting, Post
<1>3. /\ s \in Slots /\ Task(w) \in Tasks /\ f \in Frames /\ Task(w) \in R
      /\ UnitAt(tq, at, job, slot, s) /\ (~ flush => WholeAt(tq, at, job, slot, s))
      /\ tq \in Queues /\ at \in [Workers -> Places] /\ slot \in [Slots -> Frames]
  BY <1>1, <1>2, InHandFacts DEF ShapeOK
<1>4. r \in Rows /\ Task(w) = Tile(r)
  BY <1>1, <1>3, TypeFacts
<1>5. /\ Unit(Q, R, P, L, f) /\ Tile(r) \in R
      /\ ~ flush => Whole(Q, R, P, L, f)
  BY <1>3, <1>4 DEF UnitAt, WholeAt
<1>6. slot' = With(slot, s, g)
  BY <1>1, <1>3 DEF With, Coded, Frames
<1>7. Goes(w, "outer") /\ tq' = [z EXCEPT !.signaled = TRUE]
  BY <1>1, <1>2, <1>3, SignalFacts DEF Places
<1>8. z \in Queues /\ z.list = tq.list /\ z.pend = tq.pend
  BY <1>3, ResetFacts
<1> HIDE DEF s, f, g, r, Q, R, P, L, z
<1>9. /\ Unit(Q, R \ {Tile(r)}, P, L, g) /\ ~ f.finished /\ g \in Frames
      /\ Whole(Q, R, P, L, f) => Whole(Q, R \ {Tile(r)}, P, L, g)
  BY <1>1, <1>3, <1>4, <1>5, UnitLastTile DEF g
<1>10. ~ g.finished /\ g.initDone = f.initDone
  BY <1>3, <1>9 DEF g, Coded, Frames
<1>11. /\ tq' \in Queues /\ tq'.list = tq.list /\ tq'.pend = tq.pend
       /\ tq'.first = z.first /\ tq'.cur = z.cur /\ tq'.prev = z.prev
       /\ tq'.list = z.list /\ tq'.pend = z.pend
  BY <1>7, <1>8 DEF Queues
<1>12. /\ Kept({"run"}, w, "outer") = R \ {Tile(r)} /\ Kept(Posting, w, "outer") = P
       /\ Kept({"leave"}, w, "outer") = L
  BY <1>1, <1>2, <1>4 DEF Kept, R, P, L, s
<1>13. ShapeOK' /\ UnitsOK' /\ Others(at, job, at', job', w)
  <2>1. /\ Unit(Q, Kept({"run"}, w, "outer"), Kept(Posting, w, "outer"), Kept({"leave"}, w, "outer"), g)
        /\ ~ flush => Whole(Q, Kept({"run"}, w, "outer"), Kept(Posting, w, "outer"), Kept({"leave"}, w, "outer"), g)
    BY <1>5, <1>9, <1>12
  <2> QED
    BY <1>1, <1>2, <1>6, <1>7, <1>9, <1>11, <2>1, AlongStep DEF s, Q
<1>14. SearchOK'
  <2>1. at'[w] \notin Post
    BY <1>2, <1>7 DEF Goes
  <2> QED
    BY <1>1, <1>2, <1>6, <1>9, <1>10, <1>11, <1>13, <2>1, ResetStep DEF s, f, z
<1> QED
  BY <1>13, <1>14

\* A worker leaves its frame, and moves the cursor back under ttd.lock.
LEMMA LeaveStep ==
  ASSUME ShapeOK, LockOK, UnitsOK, SearchOK, NEW w \in Workers, Leave(w)
  PROVE  ShapeOK' /\ UnitsOK' /\ SearchOK'
<1> DEFINE s == Of(w)
           f == slot[s]
           g == Count(f, RowsOut(s) = Sbh)
           z == ResetTaskCur(tq, s)
           Q == QueueOf(tq, s)
           R == In(at, job, {"run"}, s)
           P == In(at, job, Posting, s)
           L == In(at, job, {"leave"}, s)
<1>1. /\ at[w] = "leave" /\ lock = {} /\ lock' = {w}
      /\ slot' = [slot EXCEPT ![s] = Count(@, RowsOut(s) = Sbh)]
      /\ tq' = z /\ Go(w, "outer") /\ UNCHANGED <<job, main, flush, calls>>
  BY DEF Leave
<1>2. at[w] \in Hands /\ "outer" \notin Posting /\ at[w] \notin Posting /\ "outer" \notin Post
  BY <1>1 DEF Hands, Posting, Post
<1>3. /\ s \in Slots /\ Task(w) \in RowTasks /\ f \in Frames /\ Task(w) \in L
      /\ UnitAt(tq, at, job, slot, s) /\ (~ flush => WholeAt(tq, at, job, slot, s))
      /\ tq \in Queues /\ at \in [Workers -> Places] /\ slot \in [Slots -> Frames]
  BY <1>1, <1>2, InHandFacts DEF ShapeOK
<1>4. PICK r \in Rows : Task(w) = DeblockRows(r)
  BY <1>3 DEF RowTasks
<1>5. /\ Unit(Q, R, P, L, f) /\ DeblockRows(r) \in L
      /\ ~ flush => Whole(Q, R, P, L, f)
  BY <1>3, <1>4 DEF UnitAt, WholeAt
<1>6. slot' = With(slot, s, g)
  BY <1>1 DEF With
<1>7. Goes(w, "outer")
  BY <1>1, <1>3, GoFacts DEF Places
<1>8. tq' \in Queues /\ tq'.list = tq.list /\ tq'.pend = tq.pend
  BY <1>1, <1>3, ResetFacts
<1>9. PICK a \in BOOLEAN : (f.done = Rows => a) /\ g = Count(f, a)
  BY <1>3, RowsOutFacts
<1> HIDE DEF s, f, g, Q, R, P, L, z
<1>10. /\ Unit(Q, R, P, L \ {DeblockRows(r)}, g) /\ ~ f.finished /\ f.initDone /\ g \in Frames
       /\ g.finished => Q = {}
       /\ Whole(Q, R, P, L, f) => Whole(Q, R, P, L \ {DeblockRows(r)}, g)
  <2>1. f \in Frames /\ Unit(Q, R, P, L, f) /\ DeblockRows(r) \in L
    BY <1>3, <1>5
  <2>2. a \in BOOLEAN
    OBVIOUS
  <2>3. Unit(Q, R, P, L \ {DeblockRows(r)}, g)
    BY ONLY <2>1, <2>2, <1>9, r \in Rows, UnitLeave
  <2>4. Unit(Q, R, P, L \ {DeblockRows(r)}, g) /\ ~ f.finished /\ f.initDone /\ g \in Frames
    BY ONLY <2>1, <2>2, <1>9, r \in Rows, UnitLeave
  <2>5. Unit(Q, R, P, L \ {DeblockRows(r)}, g) /\ (g.finished => Q = {})
    BY ONLY <2>1, <2>2, <1>9, r \in Rows, UnitLeave
  <2>6. Whole(Q, R, P, L, f) => Whole(Q, R, P, L \ {DeblockRows(r)}, g)
    BY ONLY <2>1, <2>2, <1>9, r \in Rows, UnitLeave
  <2> QED
    BY <2>3, <2>4, <2>5, <2>6
<1>11. g.initDone = f.initDone
  BY <1>3, <1>9 DEF Count, Frames
<1>12. /\ Kept({"run"}, w, "outer") = R /\ Kept(Posting, w, "outer") = P
       /\ Kept({"leave"}, w, "outer") = L \ {DeblockRows(r)}
  BY <1>1, <1>2, <1>4 DEF Kept, R, P, L, s
<1>13. ShapeOK' /\ UnitsOK' /\ Others(at, job, at', job', w)
  <2>1. /\ Unit(Q, Kept({"run"}, w, "outer"), Kept(Posting, w, "outer"), Kept({"leave"}, w, "outer"), g)
        /\ ~ flush => Whole(Q, Kept({"run"}, w, "outer"), Kept(Posting, w, "outer"), Kept({"leave"}, w, "outer"), g)
    BY <1>5, <1>10, <1>12
  <2> QED
    BY <1>1, <1>2, <1>6, <1>7, <1>8, <1>10, <2>1, AlongStep DEF s, Q
<1>14. SearchOK'
  <2>1. at'[w] \notin Post
    BY <1>2, <1>7 DEF Goes
  <2>2. g.finished => QueueOf(tq, s) = {} /\ f.initDone
    BY <1>10 DEF Q
  <2> QED
    BY <1>1, <1>2, <1>6, <1>10, <1>11, <1>13, <2>1, <2>2, ResetStep DEF s, f, z
<1> QED
  BY <1>13, <1>14

\* A frame changes whose worker is about to move the cursor back.
LEMMA PostSearch ==
  ASSUME ShapeOK, SearchOK, NEW w \in Workers, at[w] \in Hands, UNCHANGED <<tq, job, flush>>,
         Others(at, job, at', job', w), at'[w] \in Post,
         NEW g \in Frames, slot' = With(slot, Of(w), g), ~ slot[Of(w)].finished, ~ g.finished,
         g.initDone = slot[Of(w)].initDone
  PROVE  SearchOK'
<1> DEFINE s == Of(w)
           T == With(slot, s, g)
<1>1. /\ tq \in Queues /\ job \in [Workers -> Jobs] /\ slot \in [Slots -> Frames]
  BY DEF ShapeOK
<1>2. s \in Slots /\ job[w].slot = s /\ job'[w].slot = s
  BY <1>1 DEF Of, Jobs
<1> SUFFICES ASSUME ~ flush PROVE Skew(tq, slot', Scanning(at')) /\ Old(tq, slot', PostOf(at', job'))
  BY DEF SearchOK
<1>3. Skew(tq, slot, Scanning(at)) /\ Old(tq, slot, PostOf(at, job))
  BY DEF SearchOK
<1>4. PostOf(at, job) \subseteq PostOf(at', job') /\ s \in PostOf(at', job')
  BY <1>2, PostStep
<1>5. Scanning(at) => Scanning(at')
  BY PostStep DEF Hands, Posting
<1>6. ~ slot[s].finished /\ g.initDone = slot[s].initDone
  OBVIOUS
<1>7. Skew(tq, T, Scanning(at)) /\ Old(tq, T, PostOf(at', job'))
  <2> DEFINE post == PostOf(at, job)
             post2 == PostOf(at', job')
             sc == Scanning(at)
  <2>1. s \in post2 /\ post \subseteq post2 /\ Skew(tq, slot, sc) /\ Old(tq, slot, post)
    BY <1>3, <1>4
  <2> HIDE DEF post, post2, sc, s
  <2>2. Skew(tq, T, sc) /\ Old(tq, T, post2)
    BY <1>1, <1>2, <1>6, <2>1, SearchSlot
  <2> QED
    BY <2>2 DEF post2, sc
<1> QED
  BY <1>5, <1>7, SkewMonotone

\* The deblocking in rows.
LEMMA RunRowsStep ==
  ASSUME ShapeOK, LockOK, UnitsOK, SearchOK, NEW w \in Workers, RunRows(w)
  PROVE  ShapeOK' /\ UnitsOK' /\ SearchOK'
<1> DEFINE s == Of(w)
           f == slot[s]
           r == Task(w).row
           g == Deblocked(f, r + 1)
           Q == QueueOf(tq, s)
           R == In(at, job, {"run"}, s)
           P == In(at, job, Posting, s)
           L == In(at, job, {"leave"}, s)
<1>1. /\ at[w] = "run" /\ Task(w).type = DeblockRows(0).type
      /\ slot' = [slot EXCEPT ![s].deblock = r + 1]
      /\ Go(w, "async") /\ UNCHANGED <<tq, lock, job, main, flush, calls>>
  BY DEF RunRows, Runs
<1>2. at[w] \in Hands /\ "async" \in Posting /\ at[w] \notin Posting /\ "async" \in Post
  BY <1>1 DEF Hands, Posting, Post
<1>3. /\ s \in Slots /\ Task(w) \in Tasks /\ f \in Frames /\ Task(w) \in R
      /\ UnitAt(tq, at, job, slot, s) /\ (~ flush => WholeAt(tq, at, job, slot, s))
      /\ tq \in Queues /\ at \in [Workers -> Places] /\ lock \in SUBSET Workers
  BY <1>1, <1>2, InHandFacts DEF ShapeOK
<1>4. r \in Rows /\ Task(w) = DeblockRows(r)
  BY <1>1, <1>3, TypeFacts
<1>5. /\ Unit(Q, R, P, L, f) /\ DeblockRows(r) \in R
      /\ ~ flush => Whole(Q, R, P, L, f)
  BY <1>3, <1>4 DEF UnitAt, WholeAt
<1>6. slot' = With(slot, s, g)
  BY <1>1 DEF With, Deblocked
<1>7. Goes(w, "async")
  BY <1>1, <1>3, GoFacts DEF Places
<1> HIDE DEF s, f, g, r, Q, R, P, L
<1>9. /\ Unit(Q, R \ {DeblockRows(r)}, P \cup {DeblockRows(r)}, L, g) /\ ~ f.finished /\ g \in Frames
      /\ Whole(Q, R, P, L, f) => Whole(Q, R \ {DeblockRows(r)}, P \cup {DeblockRows(r)}, L, g)
  BY <1>1, <1>3, <1>4, <1>5, UnitRows DEF g
<1>10. ~ g.finished /\ g.initDone = f.initDone
  BY <1>3, <1>9 DEF g, Deblocked, Frames
<1>12. /\ Kept({"run"}, w, "async") = R \ {DeblockRows(r)}
       /\ Kept(Posting, w, "async") = P \cup {DeblockRows(r)}
       /\ Kept({"leave"}, w, "async") = L
  BY <1>1, <1>2, <1>4 DEF Kept, R, P, L, s
<1>13. ShapeOK' /\ UnitsOK' /\ Others(at, job, at', job', w)
  <2>1. /\ Unit(Q, Kept({"run"}, w, "async"), Kept(Posting, w, "async"), Kept({"leave"}, w, "async"), g)
        /\ ~ flush => Whole(Q, Kept({"run"}, w, "async"), Kept(Posting, w, "async"), Kept({"leave"}, w, "async"), g)
    BY <1>5, <1>9, <1>12
  <2> QED
    BY <1>1, <1>2, <1>3, <1>6, <1>7, <1>9, <2>1, AlongStep DEF s, Q
<1>14. SearchOK'
  <2>1. at'[w] \in Post
    BY <1>2, <1>7 DEF Goes
  <2> QED
    BY <1>1, <1>2, <1>6, <1>9, <1>10, <1>13, <2>1, PostSearch DEF s, f
<1> QED
  BY <1>13, <1>14

\* The row is marked as done.
LEMMA PublishStep ==
  ASSUME ShapeOK, LockOK, UnitsOK, SearchOK, NEW w \in Workers, Publish(w)
  PROVE  ShapeOK' /\ UnitsOK' /\ SearchOK'
<1> DEFINE s == Of(w)
           f == slot[s]
           n == Task(w).row
           g == Published(f, n)
           Q == QueueOf(tq, s)
           R == In(at, job, {"run"}, s)
           P == In(at, job, Posting, s)
           L == In(at, job, {"leave"}, s)
<1>1. /\ at[w] = "publish" /\ slot' = [slot EXCEPT ![s].done = @ \cup {n}]
      /\ Go(w, "leave") /\ UNCHANGED <<tq, lock, job, main, flush, calls>>
  BY DEF Publish
<1>2. at[w] \in Hands /\ "leave" \notin Posting /\ at[w] \in Posting /\ "leave" \in Post
  BY <1>1 DEF Hands, Posting, Post
<1>3. /\ s \in Slots /\ Task(w) \in RowTasks /\ f \in Frames /\ Task(w) \in P
      /\ UnitAt(tq, at, job, slot, s) /\ (~ flush => WholeAt(tq, at, job, slot, s))
      /\ tq \in Queues /\ at \in [Workers -> Places] /\ lock \in SUBSET Workers
  BY <1>1, <1>2, InHandFacts DEF ShapeOK
<1>4. PICK r \in Rows : Task(w) = DeblockRows(r)
  BY <1>3 DEF RowTasks
<1>8. n = r
  BY <1>4, TaskFacts
<1>5. /\ Unit(Q, R, P, L, f) /\ DeblockRows(r) \in P
      /\ ~ flush => Whole(Q, R, P, L, f)
  BY <1>3, <1>4 DEF UnitAt, WholeAt
<1>6. slot' = With(slot, s, g)
  BY <1>1 DEF With, Published
<1>7. Goes(w, "leave")
  BY <1>1, <1>3, GoFacts DEF Places
<1> HIDE DEF s, f, g, n, Q, R, P, L
<1>9. /\ Unit(Q, R, P \ {DeblockRows(r)}, L \cup {DeblockRows(r)}, g) /\ ~ f.finished /\ g \in Frames
      /\ Whole(Q, R, P, L, f) => Whole(Q, R, P \ {DeblockRows(r)}, L \cup {DeblockRows(r)}, g)
  BY <1>3, <1>5, <1>8, UnitPublish DEF g
<1>10. ~ g.finished /\ g.initDone = f.initDone
  BY <1>3, <1>9 DEF g, Published, Frames
<1>12. /\ Kept({"run"}, w, "leave") = R
       /\ Kept(Posting, w, "leave") = P \ {DeblockRows(r)}
       /\ Kept({"leave"}, w, "leave") = L \cup {DeblockRows(r)}
  BY <1>1, <1>2, <1>4 DEF Kept, R, P, L, s
<1>13. ShapeOK' /\ UnitsOK' /\ Others(at, job, at', job', w)
  <2>1. /\ Unit(Q, Kept({"run"}, w, "leave"), Kept(Posting, w, "leave"), Kept({"leave"}, w, "leave"), g)
        /\ ~ flush => Whole(Q, Kept({"run"}, w, "leave"), Kept(Posting, w, "leave"), Kept({"leave"}, w, "leave"), g)
    BY <1>5, <1>9, <1>12
  <2> QED
    BY <1>1, <1>2, <1>3, <1>6, <1>7, <1>9, <2>1, AlongStep DEF s, Q
<1>14. SearchOK'
  <2>1. at'[w] \in Post
    BY <1>2, <1>7 DEF Goes
  <2> QED
    BY <1>1, <1>2, <1>6, <1>9, <1>10, <1>13, <2>1, PostSearch DEF s, f
<1> QED
  BY <1>13, <1>14

\* A step of a worker.
LEMMA WorkerStep ==
  ASSUME ShapeOK, LockOK, UnitsOK, OrderOK, SearchOK, NEW w \in Workers, Worker(w)
  PROVE  ShapeOK' /\ UnitsOK' /\ SearchOK'
  BY OuterStep, ScanStep, ScanEndStep, ParkingStep, WokenStep, RunInitStep, RunInitCdfStep,
     RunTileStep, RunLastTileStep, RunColsStep, RunRowsStep, AsyncFirstStep, AsyncSwapStep,
     AsyncSignalStep, PublishStep, LeaveStep DEF Worker

(***************************************************************************)
(* The caller.  For the clients of Orderly, which do not mix what they do  *)
(* in ways that leave slots behind, the slots that hold something are the  *)
(* first k from first on, and it goes through them in that order.  The     *)
(* others keep the frames in progress in order as long as Keeps holds.     *)
(***************************************************************************)
\* Either they drain until EAGAIN, and no frame is rejected, or they do not drain; and
\* those whose frames are rejected do not flush.
Orderly ==
  \A c \in Clients :
    \/ c.whole /\ "rejected" \notin c.kinds
    \/ c.drains = 0 /\ ("rejected" \notin c.kinds \/ c.flushes = 0)

Keeps == OldestFirst' /\ (Used(main.next) => slot[tq.first].finished)

IndexOf(q, s) == Ahead(q, s) - q.first

RingIn(q, S, m, k) ==
  /\ \A s \in Slots : InUse(S[s]) <=> IndexOf(q, s) < k
  /\ m.in # "drain" => IndexOf(q, m.next) = k \/ (k = NFc /\ m.next = q.first)
  /\ m.in = "drain" =>
       /\ m.left >= 1
       /\ m.next = q.first \/ (IndexOf(q, m.next) >= k /\ ~ m.drained)
       /\ m.next = q.first => k <= m.left
       /\ IndexOf(q, m.next) >= k /\ ~ m.drained => m.left + IndexOf(q, m.next) = NFc + k

\* A frame that was rejected is given up by drain_picture alone, and then its slot
\* counts as one to come: clients do not mix these.
ClientIn(S, m, c) ==
  \/ c.whole /\ "rejected" \notin c.kinds /\ \A s \in Slots : ~ S[s].error
  \/ /\ c.drains = 0 /\ m.in # "drain"
     /\ \/ "rejected" \notin c.kinds /\ \A s \in Slots : ~ S[s].error
        \/ c.flushes = 0 /\ m.in # "flush"

AgesIn(q, S) ==
  \A s, r \in Slots : S[s].frame # 0 /\ S[r].frame # 0 /\ InUse(S[s]) /\ InUse(S[r])
                        /\ Ahead(q, s) < Ahead(q, r) => S[s].frame < S[r].frame

TidyIn(q, S, m, c) == (\E k \in 0 .. NFc : RingIn(q, S, m, k)) /\ AgesIn(q, S) /\ ClientIn(S, m, c)

RingOK == OrderOK /\ (Orderly => TidyIn(tq, slot, main, calls))

\* The slots counted from first on.
LEMMA IndexFacts ==
  ASSUME NEW q, q \in Queues
  PROVE  /\ \A x \in Slots : IndexOf(q, x) \in Nat /\ IndexOf(q, x) < NFc
         /\ \A x, y \in Slots : IndexOf(q, x) = IndexOf(q, y) => x = y
         /\ \A x, y \in Slots : IndexOf(q, x) < IndexOf(q, y) <=> Ahead(q, x) < Ahead(q, y)
         /\ q.first \in Slots /\ IndexOf(q, q.first) = 0
         /\ NFc \in Nat /\ NFc >= 2
<1>1. /\ \A s \in Slots : /\ Ahead(q, s) \in Nat
                          /\ q.first <= Ahead(q, s) /\ Ahead(q, s) < q.first + NFc
      /\ q.first \in Nat /\ q.first \in Slots /\ Ahead(q, q.first) = q.first /\ NFc \in Nat /\ NFc >= 2
  BY RingFacts
<1>2. \A s, r \in Slots : Ahead(q, s) = Ahead(q, r) => s = r
  BY RingFacts
<1>3. \A x \in Slots : IndexOf(q, x) \in Nat /\ IndexOf(q, x) < NFc
  BY <1>1 DEF IndexOf
<1>4. \A x, y \in Slots : IndexOf(q, x) = IndexOf(q, y) => x = y
  BY <1>1, <1>2 DEF IndexOf
<1>5. \A x, y \in Slots : IndexOf(q, x) < IndexOf(q, y) <=> Ahead(q, x) < Ahead(q, y)
  BY <1>1 DEF IndexOf
<1>6. IndexOf(q, q.first) = 0
  BY <1>1 DEF IndexOf
<1> QED
  BY <1>1, <1>3, <1>4, <1>5, <1>6

\* The slot that comes next.
LEMMA NextIndex ==
  ASSUME NEW q, q \in Queues, NEW s \in Slots
  PROVE  /\ Next1(s) \in Slots
         /\ IndexOf(q, s) = NFc - 1 => Next1(s) = q.first
         /\ IndexOf(q, s) < NFc - 1 => IndexOf(q, Next1(s)) = IndexOf(q, s) + 1
<1>1. NFc \in Nat /\ NFc >= 2 /\ s \in 0 .. NFc - 1 /\ 1 \in Slots
  BY SizeAssumption DEF Slots
<1>2. Next1(s) = IF s + 1 < NFc THEN s + 1 ELSE s + 1 - NFc
  BY <1>1, ModIs DEF Next1
<1>3. q.first \in 0 .. NFc - 1
  BY DEF Queues, Slots
<1>4. Next1(s) = IF s + 1 < NFc THEN s + 1 ELSE 0
  BY <1>1, <1>2
<1> QED
  BY <1>1, <1>3, <1>4 DEF IndexOf, Ahead, Slots

\* The slot of a new frame comes after all that are in use, once first has moved on.
LEMMA RingRoom ==
  ASSUME NEW q, q \in Queues, NEW S, NEW k \in 0 .. NFc, NEW s \in Slots,
         \A x \in Slots : InUse(S[x]) <=> IndexOf(q, x) < k,
         IndexOf(q, s) = k \/ (k = NFc /\ s = q.first)
  PROVE  LET p == IF InUse(S[s]) THEN AdvanceFirst(q) ELSE q
         IN  /\ p \in Queues /\ (InUse(S[s]) => s = q.first)
             /\ \A x \in Slots : x # s => (InUse(S[x]) <=> IndexOf(p, x) < IndexOf(p, s))
             /\ \A x, y \in Slots : x # s /\ y # s
                  => (Ahead(p, x) < Ahead(p, y) <=> Ahead(q, x) < Ahead(q, y))
<1>1. /\ \A x \in Slots : IndexOf(q, x) \in Nat /\ IndexOf(q, x) < NFc
      /\ \A x, y \in Slots : IndexOf(q, x) = IndexOf(q, y) => x = y
      /\ NFc \in Nat /\ k \in Nat
  BY IndexFacts
<1>2. CASE InUse(S[s])
  <2> DEFINE p == AdvanceFirst(q)
  <2>1. k = NFc /\ s = q.first
    BY <1>1, <1>2
  <2>2. /\ \A x \in Slots : IndexOf(p, x) = IF x = q.first THEN NFc - 1 ELSE IndexOf(q, x) - 1
        /\ \A x, y \in Slots : x # q.first /\ y # q.first
             => (Ahead(p, x) < Ahead(p, y) <=> Ahead(q, x) < Ahead(q, y))
    BY AdvanceRing DEF IndexOf
  <2>3. p \in Queues
    BY AdvanceFacts
  <2> HIDE DEF p
  <2>4. \A x \in Slots : x # s => (InUse(S[x]) <=> IndexOf(p, x) < IndexOf(p, s))
    BY <1>1, <2>1, <2>2
  <2> QED
    BY <1>2, <2>1, <2>2, <2>3, <2>4 DEF p
<1>3. CASE ~ InUse(S[s])
  <2>1. IndexOf(q, s) = k
    BY <1>1, <1>3
  <2> QED
    BY <1>3, <2>1
<1> QED
  BY <1>2, <1>3

\* The slot is given to a frame.
LEMMA RingNew ==
  ASSUME NEW p, p \in Queues, NEW S, S \in [Slots -> Frames], NEW s \in Slots, NEW g \in Frames, InUse(g),
         \A x \in Slots : x # s => (InUse(S[x]) <=> IndexOf(p, x) < IndexOf(p, s)),
         NEW n, n.first = p.first, NEW m, m.in = "idle", m.next = Next1(s)
  PROVE  \E k \in 0 .. NFc : RingIn(n, With(S, s, g), m, k)
<1> DEFINE k == IndexOf(p, s) + 1
           T == With(S, s, g)
<1>1. /\ \A x \in Slots : IndexOf(p, x) \in Nat /\ IndexOf(p, x) < NFc
      /\ \A x, y \in Slots : IndexOf(p, x) = IndexOf(p, y) => x = y
      /\ NFc \in Nat
  BY IndexFacts
<1>2. T[s] = g /\ \A x \in Slots : x # s => T[x] = S[x]
  BY WithFacts
<1>3. k \in 0 .. NFc
  BY <1>1
<1>4. \A x \in Slots : IndexOf(n, x) = IndexOf(p, x)
  BY DEF IndexOf, Ahead
<1> HIDE DEF T
<1>5. \A x \in Slots : InUse(T[x]) <=> IndexOf(n, x) < k
  <2> SUFFICES ASSUME NEW x \in Slots PROVE InUse(T[x]) <=> IndexOf(p, x) < k
    BY <1>4
  <2>1. CASE x = s
    BY <1>1, <1>2, <2>1
  <2>2. CASE x # s
    <3>1. IndexOf(p, x) # IndexOf(p, s) /\ T[x] = S[x]
      BY <1>1, <1>2, <2>2
    <3>2. IndexOf(p, x) < k <=> IndexOf(p, x) < IndexOf(p, s)
      BY <1>1, <3>1
    <3> QED
      BY <2>2, <3>1, <3>2
  <2> QED
    BY <2>1, <2>2
<1>6. IndexOf(n, m.next) = k \/ (k = NFc /\ m.next = n.first)
  <2>1. /\ Next1(s) \in Slots
        /\ IndexOf(p, s) = NFc - 1 => Next1(s) = p.first
        /\ IndexOf(p, s) < NFc - 1 => IndexOf(p, Next1(s)) = IndexOf(p, s) + 1
    BY NextIndex
  <2>2. CASE IndexOf(p, s) = NFc - 1
    BY <2>1, <2>2, <1>1
  <2>3. CASE IndexOf(p, s) < NFc - 1
    BY <2>1, <2>3, <1>4
  <2> QED
    BY <2>2, <2>3, <1>1
<1>7. RingIn(n, T, m, k)
  BY <1>5, <1>6 DEF RingIn
<1> QED
  BY <1>3, <1>7 DEF T

\* Nobody has a task of a frame that is finished, and none is queued.
LEMMA EmptyFacts ==
  ASSUME NEW q, NEW A, NEW J, NEW S, NEW fl, UnitsOf(q, A, J, S, fl), NEW s \in Slots, S[s].finished
  PROVE  /\ q.list[s] = {} /\ q.pend[s] = {}
         /\ In(A, J, {"run"}, s) = {} /\ In(A, J, Posting, s) = {} /\ In(A, J, {"leave"}, s) = {}
<1>1. UnitAt(q, A, J, S, s)
  BY DEF UnitsOf
<1>2. QueueOf(q, s) \cup In(A, J, {"run"}, s) \cup In(A, J, Posting, s) \cup In(A, J, {"leave"}, s) = {}
  BY <1>1 DEF UnitAt, Unit, StagesIn
<1> QED
  BY <1>2 DEF QueueOf

\* The caller changes a slot.
LEMMA UnitsSlot ==
  ASSUME NEW q, NEW A, NEW J, NEW S, NEW fl, UnitsOf(q, A, J, S, fl), NEW s \in Slots,
         NEW p, NEW T, SameBut(q, p, s), \A x \in Slots : x # s => T[x] = S[x],
         p.list[s] \cap p.pend[s] = {}, UnitAt(p, A, J, T, s), ~ fl => WholeAt(p, A, J, T, s)
  PROVE  UnitsOf(p, A, J, T, fl)
<1> SUFFICES ASSUME NEW x \in Slots
             PROVE  /\ p.list[x] \cap p.pend[x] = {}
                    /\ UnitAt(p, A, J, T, x)
                    /\ ~ fl => WholeAt(p, A, J, T, x)
  BY DEF UnitsOf
<1>1. CASE x = s
  BY <1>1
<1>2. CASE x # s
  <2>1. /\ q.list[x] \cap q.pend[x] = {} /\ UnitAt(q, A, J, S, x) /\ (~ fl => WholeAt(q, A, J, S, x))
    BY DEF UnitsOf
  <2>2. QueueOf(p, x) = QueueOf(q, x) /\ T[x] = S[x] /\ p.list[x] = q.list[x] /\ p.pend[x] = q.pend[x]
    BY <1>2 DEF SameBut, QueueOf
  <2> QED
    BY <2>1, <2>2 DEF UnitAt, WholeAt
<1> QED
  BY <1>1, <1>2

\* c.task_thread.first moves on, or not.
LEMMA GiveUpFacts ==
  ASSUME ShapeOK, UnitsOK, SearchOK, NEW s \in Slots, Used(s) => slot[tq.first].finished
  PROVE  LET p == GiveUp(s)
         IN  /\ p \in Queues /\ p.list = tq.list /\ p.pend = tq.pend /\ p.prev = tq.prev
             /\ p.signaled = tq.signaled
             /\ p = IF InUse(slot[s]) THEN AdvanceFirst(tq) ELSE tq
             /\ ~ flush => /\ Skew(p, slot, Scanning(at)) /\ Old(p, slot, PostOf(at, job))
                           /\ Listed(p, slot)
<1>1. tq \in Queues /\ slot \in [Slots -> Frames]
  BY DEF ShapeOK
<1>2. Listed(tq, slot)
  BY ListedOf DEF UnitsOK
<1>3. GiveUp(s) = IF InUse(slot[s]) THEN AdvanceFirst(tq) ELSE tq
  BY DEF GiveUp, Used, InUse
<1>4. CASE InUse(slot[s])
  <2>1. slot[tq.first].finished
    BY <1>4 DEF Used, InUse
  <2> DEFINE p == AdvanceFirst(tq)
             sc == Scanning(at)
             post == PostOf(at, job)
  <2>2. ~ flush => Skew(tq, slot, sc) /\ Old(tq, slot, post)
    BY DEF SearchOK
  <2> HIDE DEF sc, post
  <2>3. ~ flush => Skew(p, slot, sc) /\ Old(p, slot, post) /\ Listed(p, slot)
    BY <1>1, <1>2, <2>1, <2>2, SearchAdvance
  <2>4. p \in Queues /\ p.list = tq.list /\ p.pend = tq.pend /\ p.prev = tq.prev /\ p.signaled = tq.signaled
    BY <1>1, AdvanceFacts
  <2>5. GiveUp(s) = p
    BY <1>3, <1>4
  <2> HIDE DEF p
  <2> QED
    BY <1>3, <2>3, <2>4, <2>5 DEF sc, post
<1>5. CASE ~ InUse(slot[s])
  BY <1>1, <1>2, <1>3, <1>5 DEF SearchOK
<1> QED
  BY <1>4, <1>5

\* A slot without a frame.
LEMMA NoFrameFacts ==
  /\ NoFrame \in Frames /\ NoFrame.tiles = 0 /\ NoFrame.deblock = 0 /\ NoFrame.done = {}
  /\ NoFrame.finished = TRUE /\ NoFrame.initDone = TRUE /\ NoFrame.frame = 0 /\ NoFrame.ref = 0
  /\ NoFrame.held = FALSE /\ NoFrame.error = FALSE
<1>1. 0 \in 0 .. Sbh /\ 0 \in 0 .. Sbh + 1
  BY RowFacts
<1> QED
  BY <1>1 DEF NoFrame, Frames

\* A frame in progress is in use.
LEMMA InProgressFacts ==
  ASSUME ShapeOK, UnitsOK, NEW s \in Slots, ~ slot[s].finished
  PROVE  InUse(slot[s]) /\ slot[s].frame # 0
<1>1. UnitAt(tq, at, job, slot, s)
  BY DEF UnitsOK, UnitsOf
<1> QED
  BY <1>1 DEF UnitAt, Unit, CountIn, InUse

\* The frames are in order when all that is in use is.
LEMMA AgesFacts ==
  ASSUME NEW q, q \in Queues, NEW S, S \in [Slots -> Frames], AgesIn(q, S),
         \A x \in Slots : ~ S[x].finished => InUse(S[x]) /\ S[x].frame # 0,
         NEW s \in Slots, NEW r \in Slots, ~ S[s].finished, ~ S[r].finished, S[s].frame < S[r].frame
  PROVE  Ahead(q, s) < Ahead(q, r)
<1>1. S[s].frame \in Nat /\ S[r].frame \in Nat
  BY DEF Frames
<1>2. Ahead(q, r) < Ahead(q, s) => S[r].frame < S[s].frame
  BY DEF AgesIn
<1>3. s # r
  BY <1>1
<1>4. Ahead(q, s) # Ahead(q, r) /\ Ahead(q, s) \in Nat /\ Ahead(q, r) \in Nat
  BY <1>3, RingFacts
<1> QED
  BY <1>1, <1>2, <1>4

\* What a slot holds that has no frame to decode, and how it comes to hold it.
IsEmpty(g) ==
  /\ g \in Frames /\ g.tiles = 0 /\ g.deblock = 0 /\ g.done = {} /\ g.finished /\ g.initDone
  /\ g.frame = 0 /\ g.ref = 0 /\ InUse(g)

Emptied(s, g) ==
  /\ slot' = With(slot, s, g) /\ tq' = GiveUp(s) /\ main' = [main EXCEPT !.next = Next1(s)]
  /\ UNCHANGED at

\* A frame is given to on_error, or is one that is shown again.
LEMMA EmptiedFacts ==
  ASSUME NEW s \in Slots, slot \in [Slots -> Frames]
  PROVE  /\ Reject(s) => \E g : IsEmpty(g) /\ Emptied(s, g)
         /\ ShowExisting(s) => \E g : IsEmpty(g) /\ Emptied(s, g) /\ (g.error => slot[s].error)
<1>1. ASSUME Reject(s) PROVE \E g : IsEmpty(g) /\ Emptied(s, g)
  <2> DEFINE g == [NoFrame EXCEPT !.error = TRUE]
  <2>1. IsEmpty(g)
    BY NoFrameFacts DEF IsEmpty, Frames, InUse
  <2>2. Emptied(s, g)
    BY <1>1 DEF Reject, Emptied, With
  <2> QED
    BY <1>1, <2>1, <2>2
<1>2. ASSUME ShowExisting(s)
      PROVE  \E g : IsEmpty(g) /\ Emptied(s, g) /\ (g.error => slot[s].error)
  <2> DEFINE e == slot[s].error
             g == [NoFrame EXCEPT !.held = TRUE, !.error = e]
  <2>1. e \in BOOLEAN
    BY DEF Frames
  <2>2. Emptied(s, g)
    BY <1>2 DEF ShowExisting, Emptied, With
  <2> HIDE DEF e
  <2>3. IsEmpty(g) /\ g.error = e
    BY <2>1, NoFrameFacts DEF IsEmpty, Frames, InUse
  <2> QED
    BY <2>2, <2>3 DEF e
<1> QED
  BY <1>1, <1>2

LEMMA EmptiedNumbers ==
  ASSUME NEW S, S \in [Slots -> Frames], NEW s \in Slots, NEW g, g.frame = 0, g.ref = 0,
         NEW n \in Nat, NumbersIn(S, n), NEW T, T[s] = g, \A x \in Slots : x # s => T[x] = S[x]
  PROVE  NumbersIn(T, n + 1)
<1>1. \A x \in Slots : S[x].frame \in Nat /\ S[x].frame <= n
  BY DEF Frames, NumbersIn
<1>2. \A x, y \in Slots : T[x].frame # 0 /\ T[x].frame = T[y].frame => x = y
  BY DEF NumbersIn
<1>3. \A x \in Slots : T[x].frame <= n + 1 /\ (T[x].ref # 0 => T[x].ref < T[x].frame)
  BY <1>1 DEF NumbersIn
<1> QED
  BY <1>2, <1>3 DEF NumbersIn

LEMMA EmptiedStep ==
  ASSUME ShapeOK, UnitsOK, OrderOK, SearchOK, main.in = "idle", slot[main.next].finished,
         NEW g, IsEmpty(g), Emptied(main.next, g), Keeps,
         calls' = [calls EXCEPT !.frames = @ + 1], UNCHANGED <<lock, job, flush>>
  PROVE  ShapeOK' /\ UnitsOK' /\ OrderOK' /\ SearchOK'
<1> DEFINE s == main.next
           p == GiveUp(s)
           T == With(slot, s, g)
           m == [main EXCEPT !.next = Next1(s)]
           c == [calls EXCEPT !.frames = @ + 1]
<1>1. /\ slot' = T /\ tq' = p /\ main' = m /\ at' = at /\ job' = job /\ lock' = lock /\ flush' = flush
      /\ calls' = c
  BY DEF Emptied
<1>2. /\ tq \in Queues /\ slot \in [Slots -> Frames] /\ main \in Mains /\ calls \in CallsIn
      /\ main.in = "idle" /\ slot[s].finished
  BY DEF ShapeOK
<1>3. s \in Slots /\ Next1(s) \in Slots
  BY <1>2, NextIndex DEF Mains
<1>4. /\ g \in Frames /\ g.tiles = 0 /\ g.deblock = 0 /\ g.done = {} /\ g.finished /\ g.initDone
      /\ g.frame = 0 /\ g.ref = 0 /\ InUse(g)
  BY DEF IsEmpty
<1>5. Used(s) => slot[tq.first].finished
  BY DEF Keeps
<1> HIDE DEF s
<1>6. /\ p \in Queues /\ p.list = tq.list /\ p.pend = tq.pend
      /\ ~ flush => Skew(p, slot, Scanning(at)) /\ Old(p, slot, PostOf(at, job))
  BY <1>3, <1>5, GiveUpFacts
<1>7. /\ m \in Mains /\ m.in = "idle" /\ m.newest = main.newest
      /\ c \in CallsIn /\ c.frames = calls.frames + 1
  BY <1>2, <1>3 DEF Mains, CallsIn
<1> HIDE DEF p, m, c
<1>8. T \in [Slots -> Frames] /\ T[s] = g /\ \A x \in Slots : x # s => T[x] = slot[x]
  BY <1>2, <1>3, <1>4, WithFacts
<1> HIDE DEF T
<1>9. ShapeOK'
  <2>1. main.in = "idle" /\ m.in = "idle" /\ ~ flush
    BY <1>2, <1>7 DEF ShapeOK
  <2> QED
    BY <1>1, <1>6, <1>7, <1>8, <2>1 DEF ShapeOK
<1>10. UnitsOf(p, at, job, T, flush)
  <2>1. UnitsOf(tq, at, job, slot, flush)
    BY DEF UnitsOK
  <2>2. /\ p.list[s] = {} /\ p.pend[s] = {}
        /\ In(at, job, {"run"}, s) = {} /\ In(at, job, Posting, s) = {} /\ In(at, job, {"leave"}, s) = {}
    BY <2>1, <1>2, <1>3, <1>6, EmptyFacts
  <2>3. QueueOf(p, s) = {} /\ SameBut(tq, p, s)
    BY <2>2, <1>6 DEF QueueOf, SameBut
  <2>4. Unit({}, {}, {}, {}, g) /\ Whole({}, {}, {}, {}, g)
    BY <1>4, UnitFresh
  <2>5. UnitAt(p, at, job, T, s) /\ WholeAt(p, at, job, T, s)
    BY <2>2, <2>3, <2>4, <1>8 DEF UnitAt, WholeAt
  <2>6. p.list[s] \cap p.pend[s] = {}
    BY <2>2
  <2> QED
    BY <1>3, <1>8, <2>1, <2>3, <2>5, <2>6, UnitsSlot
<1>11. UnitsOK'
  BY <1>1, <1>10 DEF UnitsOK
<1>12. SearchOK'
  <2> SUFFICES ASSUME ~ flush PROVE Skew(p, T, Scanning(at)) /\ Old(p, T, PostOf(at, job))
    BY <1>1 DEF SearchOK
  <2> DEFINE sc == Scanning(at)
             post == PostOf(at, job)
  <2>1. Skew(p, slot, sc) /\ Old(p, slot, post)
    BY <1>6
  <2> HIDE DEF sc, post
  <2>2. Skew(p, T, sc) /\ Old(p, T, post)
    BY <1>2, <1>3, <1>4, <1>6, <2>1, SearchFinished DEF T
  <2> QED
    BY <2>2 DEF sc, post
<1>13. NumbersIn(T, c.frames) /\ m.newest <= c.frames
  <2>1. /\ calls.frames \in Nat /\ main.newest \in Nat
        /\ NumbersIn(slot, calls.frames) /\ main.newest <= calls.frames
    BY <1>2 DEF OrderOK, CallsIn, Mains
  <2>2. NumbersIn(T, calls.frames + 1)
    BY <1>2, <1>3, <1>4, <1>8, <2>1, EmptiedNumbers
  <2> QED
    BY <1>7, <2>1, <2>2
<1>14. OrderOK'
  BY <1>1, <1>13 DEF OrderOK, Keeps
<1> QED
  BY <1>9, <1>11, <1>12, <1>14

\* For an orderly client.
LEMMA EmptiedRing ==
  ASSUME ShapeOK, UnitsOK, OrderOK, TidyIn(tq, slot, main, calls), main.in = "idle",
         slot[main.next].finished, NEW g, IsEmpty(g), Emptied(main.next, g),
         g.error => "rejected" \in calls.kinds \/ slot[main.next].error,
         calls' = [calls EXCEPT !.frames = @ + 1]
  PROVE  Keeps /\ TidyIn(tq', slot', main', calls')
<1> DEFINE s == main.next
           p == GiveUp(s)
           T == With(slot, s, g)
           m == [main EXCEPT !.next = Next1(s)]
           c == [calls EXCEPT !.frames = @ + 1]
<1>1. slot' = T /\ tq' = p /\ main' = m /\ calls' = c
  BY DEF Emptied
<1>2. /\ tq \in Queues /\ slot \in [Slots -> Frames] /\ main \in Mains /\ calls \in CallsIn
      /\ main.in = "idle" /\ slot[s].finished
  BY DEF ShapeOK
<1>3. s \in Slots /\ Next1(s) \in Slots
  BY <1>2, NextIndex DEF Mains
<1>4. g \in Frames /\ g.finished /\ g.frame = 0 /\ InUse(g)
  BY DEF IsEmpty
<1>5. PICK k \in 0 .. NFc : RingIn(tq, slot, main, k)
  BY DEF TidyIn
<1>6. /\ \A x \in Slots : InUse(slot[x]) <=> IndexOf(tq, x) < k
      /\ IndexOf(tq, s) = k \/ (k = NFc /\ s = tq.first)
  BY <1>2, <1>5 DEF RingIn
<1> DEFINE z == IF InUse(slot[s]) THEN AdvanceFirst(tq) ELSE tq
<1>7. p = z /\ (Used(s) <=> InUse(slot[s]))
  BY DEF GiveUp, Used, InUse
<1>8. s = main.next
  OBVIOUS
<1> HIDE DEF s, p
<1>9. /\ z \in Queues /\ (InUse(slot[s]) => s = tq.first)
      /\ \A x \in Slots : x # s => (InUse(slot[x]) <=> IndexOf(z, x) < IndexOf(z, s))
      /\ \A x, y \in Slots : x # s /\ y # s => (Ahead(z, x) < Ahead(z, y) <=> Ahead(tq, x) < Ahead(tq, y))
  BY <1>2, <1>3, <1>6, RingRoom
<1>10. /\ m.in = "idle" /\ m.next = Next1(s)
       /\ c.kinds = calls.kinds /\ c.drains = calls.drains
       /\ c.flushes = calls.flushes /\ c.whole = calls.whole
  BY <1>2, <1>3 DEF Mains, CallsIn
<1> HIDE DEF z, m, c
<1>11. T \in [Slots -> Frames] /\ T[s] = g /\ \A x \in Slots : x # s => T[x] = slot[x]
  BY <1>2, <1>3, <1>4, WithFacts
<1>12. \E j \in 0 .. NFc : RingIn(z, T, m, j)
  BY <1>2, <1>3, <1>4, <1>9, <1>10, RingNew
<1> HIDE DEF T
<1>13. AgesIn(z, T)
  BY <1>4, <1>9, <1>11 DEF TidyIn, AgesIn
<1>14. ClientIn(T, m, c)
  <2>1. ClientIn(slot, main, calls)
    BY DEF TidyIn
  <2>2. "rejected" \notin calls.kinds /\ (\A x \in Slots : ~ slot[x].error) => \A x \in Slots : ~ T[x].error
    BY <1>3, <1>8, <1>11
  <2> QED
    BY <2>1, <2>2, <1>2, <1>10 DEF ClientIn
<1>15. \A x \in Slots : ~ T[x].finished => InUse(T[x]) /\ T[x].frame # 0
  BY <1>4, <1>11, InProgressFacts
<1>16. OldestFirst'
  BY <1>1, <1>7, <1>9, <1>11, <1>13, <1>15, AgesFacts DEF OldestFirst, InProgress
<1>17. Keeps
  BY <1>2, <1>7, <1>8, <1>9, <1>16 DEF Keeps
<1> QED
  BY <1>1, <1>7, <1>12, <1>13, <1>14, <1>17 DEF TidyIn

NewFrame(n, ref) ==
  [NoFrame EXCEPT !.frame = n, !.ref = ref, !.initDone = FALSE, !.counter = 1 + Sbh,
                  !.finished = FALSE, !.held = TRUE]

Numbers(n, ref) == n \in Nat /\ n # 0 /\ ref \in Nat

IsNew(g, n, ref) ==
  /\ g \in Frames /\ g.tiles = 0 /\ g.deblock = 0 /\ g.done = {} /\ ~ g.finished /\ ~ g.initDone
  /\ g.frame = n /\ g.ref = ref /\ g.held /\ g.counter = 1 + Sbh /\ ~ g.error

\* The frame that was submitted.
LEMMA NewFrameFacts ==
  ASSUME NEW n, NEW ref, Numbers(n, ref)
  PROVE  IsNew(NewFrame(n, ref), n, ref)
<1> DEFINE c == 1 + Sbh
           g == NewFrame(n, ref)
<1>1. c \in 0 .. Sbh + 1
  BY RowFacts
<1>2. g = [NoFrame EXCEPT !.frame = n, !.ref = ref, !.initDone = FALSE, !.counter = c,
                          !.finished = FALSE, !.held = TRUE]
  BY DEF NewFrame
<1>3. n \in Nat /\ ref \in Nat
  BY DEF Numbers
<1> HIDE DEF c, g
<1>4. /\ g \in Frames /\ g.tiles = 0 /\ g.deblock = 0 /\ g.done = {} /\ g.finished = FALSE
      /\ g.initDone = FALSE
      /\ g.frame = n /\ g.ref = ref /\ g.held = TRUE /\ g.counter = c /\ g.error = FALSE
  BY <1>1, <1>2, <1>3, NoFrameFacts DEF Frames
<1>5. IsNew(g, n, ref)
  BY <1>4 DEF c, IsNew
<1> QED
  BY <1>5 DEF g

\* The places after somebody was woken: the tasks in hands are the same.
LEMMA WokenUnits ==
  ASSUME NEW q, NEW A, NEW J, NEW S, NEW fl, UnitsOf(q, A, J, S, fl), NEW B,
         \A v \in Workers : B[v] = A[v] \/ (A[v] = "wait" /\ B[v] = "woken")
  PROVE  /\ UnitsOf(q, B, J, S, fl) /\ PostOf(B, J) = PostOf(A, J)
         /\ Scanning(B) <=> Scanning(A)
<1>1. "wait" \notin Hands /\ "woken" \notin Hands /\ "wait" \notin Post /\ "woken" \notin Post
  BY DEF Hands, Posting, Post
<1>2. UnitsOf(q, B, J, S, fl)
  <2>1. \A s \in Slots : q.list[s] \cap q.pend[s] = {}
    BY DEF UnitsOf
  <2>2. \A v \in Workers : /\ B[v] \in Hands <=> A[v] \in Hands
                           /\ A[v] \in Hands => B[v] = A[v]
    BY <1>1
  <2> QED
    BY <2>1, <2>2, UnitsIdle
<1>3. PostOf(B, J) = PostOf(A, J)
  <2>1. \A v \in Workers : B[v] \in Post <=> A[v] \in Post
    BY <1>1
  <2> QED
    BY <2>1 DEF PostOf
<1>4. Scanning(B) <=> Scanning(A)
  BY DEF Scanning
<1> QED
  BY <1>2, <1>3, <1>4

\* The workers when one may be woken.
LEMMA NotifyOneFacts ==
  ASSUME at \in [Workers -> Places], NotifyOne \/ UNCHANGED at
  PROVE  /\ at' \in [Workers -> Places]
         /\ \A v \in Workers : at'[v] = at[v] \/ (at[v] = "wait" /\ at'[v] = "woken")
  BY DEF NotifyOne, Sleeping, Places

\* A frame is accepted.
LEMMA AcceptStep ==
  ASSUME ShapeOK, UnitsOK, OrderOK, SearchOK, main.in = "idle", slot[main.next].finished,
         NEW ref \in {0, main.newest},
         Accept(main.next, calls.frames + 1, ref, Insert(GiveUp(main.next), main.next, {InitTask})),
         calls' = [calls EXCEPT !.frames = @ + 1], UNCHANGED <<lock, job, flush>>, Keeps
  PROVE  ShapeOK' /\ UnitsOK' /\ OrderOK' /\ SearchOK'
<1> DEFINE s == main.next
           f == calls.frames + 1
           g == NewFrame(f, ref)
           p == GiveUp(s)
           i == Insert(p, s, {InitTask})
           n == [i EXCEPT !.signaled = TRUE]
           T == With(slot, s, g)
           m == [main EXCEPT !.next = Next1(s), !.newest = f]
           c == [calls EXCEPT !.frames = @ + 1]
           B == at'
<1>1. /\ slot' = T /\ tq' = n /\ main' = m /\ job' = job /\ lock' = lock /\ flush' = flush
      /\ calls' = c /\ (NotifyOne \/ UNCHANGED at)
  BY DEF Accept, With, NewFrame
<1>2. /\ tq \in Queues /\ slot \in [Slots -> Frames] /\ main \in Mains /\ calls \in CallsIn
      /\ main.in = "idle" /\ slot[s].finished /\ ~ flush /\ at \in [Workers -> Places]
  BY DEF ShapeOK
<1>3. s \in Slots /\ Next1(s) \in Slots
  BY <1>2, NextIndex DEF Mains
<1>4. /\ calls.frames \in Nat /\ main.newest \in Nat /\ f \in Nat \ {0} /\ ref \in Nat
      /\ f = calls.frames + 1
  BY <1>2 DEF CallsIn, Mains
<1>7. Used(s) => slot[tq.first].finished
  BY DEF Keeps
<1>8. \A x, y \in Slots : ~ T[x].finished /\ ~ T[y].finished /\ T[x].frame < T[y].frame
                           => Ahead(n, x) < Ahead(n, y)
  BY <1>1 DEF Keeps, OldestFirst, InProgress
<1> HIDE DEF f
<1>5. /\ g \in Frames /\ g.tiles = 0 /\ g.deblock = 0 /\ g.done = {} /\ ~ g.finished /\ ~ g.initDone
      /\ g.frame = f /\ g.ref = ref /\ g.held /\ g.counter = 1 + Sbh /\ ~ g.error
  <2>1. Numbers(f, ref)
    BY <1>4 DEF Numbers
  <2>2. IsNew(g, f, ref)
    BY <2>1, NewFrameFacts
  <2> QED
    BY <2>2 DEF IsNew
<1> HIDE DEF s, g
<1>10. /\ p \in Queues /\ p.list = tq.list /\ p.pend = tq.pend
       /\ Skew(p, slot, Scanning(at)) /\ Old(p, slot, PostOf(at, job))
  BY <1>2, <1>3, <1>7, GiveUpFacts
<1>11. /\ m \in Mains /\ m.in = "idle" /\ m.next = Next1(s) /\ m.newest = f
       /\ c \in CallsIn /\ c.frames = f
  BY <1>2, <1>3, <1>4 DEF Mains, CallsIn
<1>12. B \in [Workers -> Places] /\ \A v \in Workers : B[v] = at[v] \/ (at[v] = "wait" /\ B[v] = "woken")
  BY <1>1, <1>2, NotifyOneFacts
<1> HIDE DEF p, m, c, B
<1>13. UnitsOf(tq, at, job, slot, flush)
  BY DEF UnitsOK
<1>14. /\ tq.list[s] = {} /\ tq.pend[s] = {}
       /\ In(at, job, {"run"}, s) = {} /\ In(at, job, Posting, s) = {} /\ In(at, job, {"leave"}, s) = {}
  BY <1>2, <1>3, <1>13, EmptyFacts
<1>15. /\ i \in Queues /\ i.first = p.first /\ i.pend = p.pend
       /\ i.list[s] = p.list[s] \cup {InitTask}
       /\ \A x \in Slots : x # s => i.list[x] = p.list[x]
  <2> DEFINE ns == {InitTask}
  <2>1. ns \subseteq Tasks /\ ns # {}
    BY TaskFacts
  <2> HIDE DEF ns
  <2>2. p \in Queues /\ s \in Slots /\ ~ flush
    BY <1>2, <1>3, <1>10
  <2> DEFINE x == Insert(p, s, ns)
  <2>3. /\ x \in Queues /\ x.first = p.first /\ x.pend = p.pend
        /\ x.list[s] = p.list[s] \cup ns
        /\ \A y \in Slots : y # s => x.list[y] = p.list[y]
    BY ONLY <2>1, <2>2, InsertFacts
  <2> QED
    BY <2>3 DEF ns
<1>16. T \in [Slots -> Frames] /\ T[s] = g /\ \A x \in Slots : x # s => T[x] = slot[x]
  BY <1>2, <1>3, <1>5, WithFacts
<1>9. /\ \A x \in Slots : slot[x].frame \in Nat /\ slot[x].frame < f /\ slot[x].ref \in Nat
      /\ NumbersIn(slot, calls.frames) /\ main.newest <= calls.frames
  BY <1>2, <1>4 DEF Frames, OrderOK, NumbersIn
<1>18. n.first = i.first
  BY <1>15 DEF Queues
<1>17. Skew(i, T, Scanning(at)) /\ Old(i, T, PostOf(at, job))
  <2> DEFINE sc == Scanning(at)
             post == PostOf(at, job)
  <2>1. Skew(p, slot, sc) /\ Old(p, slot, post) /\ p \in Queues
    BY <1>10
  <2>2. p.list[s] = {}
    BY <1>10, <1>14
  <2> HIDE DEF sc, post, n, i, T
  <2>3. \A r \in Slots : ~ slot[r].finished => Ahead(p, r) < Ahead(p, s)
    <3> SUFFICES ASSUME NEW r \in Slots, ~ slot[r].finished PROVE Ahead(n, r) < Ahead(n, s)
      BY <1>15, <1>18 DEF Ahead
    <3>1. T[r] = slot[r] /\ T[s] = g
      BY <1>2, <1>16
    <3> QED
      BY <1>3, <1>5, <1>8, <1>9, <3>1
  <2>4. Skew(i, T, sc) /\ Old(i, T, post)
    BY <1>2, <1>3, <1>5, <2>1, <2>2, <2>3, SearchNew DEF i, T
  <2> QED
    BY <2>4 DEF sc, post
<1> HIDE DEF i, T
<1>19. /\ n \in Queues /\ n.first = i.first /\ n.cur = i.cur /\ n.prev = i.prev /\ n.list = i.list
       /\ n.pend = i.pend
  BY <1>15 DEF Queues
<1> HIDE DEF n
<1>20. ShapeOK'
  BY <1>1, <1>2, <1>11, <1>12, <1>16, <1>19 DEF ShapeOK, B
<1>21. UnitsOf(n, at, job, T, flush)
  <2>1. n.list[s] = {InitTask} /\ n.pend[s] = {} /\ QueueOf(n, s) = {InitTask} /\ SameBut(tq, n, s)
    BY <1>10, <1>14, <1>15, <1>19 DEF QueueOf, SameBut
  <2>2. Unit({InitTask}, {}, {}, {}, g) /\ Whole({InitTask}, {}, {}, {}, g)
    BY <1>4, <1>5, UnitFresh
  <2>3. UnitAt(n, at, job, T, s) /\ WholeAt(n, at, job, T, s)
    BY <1>14, <1>16, <2>1, <2>2 DEF UnitAt, WholeAt
  <2>4. n.list[s] \cap n.pend[s] = {}
    BY <2>1
  <2> QED
    BY <1>3, <1>13, <1>16, <2>1, <2>3, <2>4, UnitsSlot
<1>22. /\ UnitsOf(n, B, job, T, flush) /\ PostOf(B, job) = PostOf(at, job)
       /\ Scanning(B) <=> Scanning(at)
  BY <1>12, <1>21, WokenUnits
<1>23. UnitsOK'
  BY <1>1, <1>22 DEF UnitsOK, B
<1>24. SearchOK'
  <2>1. Skew(n, T, Scanning(at)) /\ Old(n, T, PostOf(at, job))
    BY <1>17, <1>19, SearchQuiet
  <2>2. Skew(n, T, Scanning(B)) /\ Old(n, T, PostOf(B, job))
    BY <1>22, <2>1, SkewMonotone
  <2> QED
    BY <1>1, <2>2 DEF SearchOK, B
<1>25. NumbersIn(T, c.frames) /\ m.newest <= c.frames
  <2>1. T[s].frame = f /\ T[s].ref = ref /\ ref < f
    BY <1>4, <1>5, <1>9, <1>16
  <2>2. \A x \in Slots : T[x].frame <= c.frames /\ (T[x].ref # 0 => T[x].ref < T[x].frame)
    BY <1>4, <1>9, <1>11, <1>16, <2>1 DEF NumbersIn
  <2>3. ASSUME NEW x \in Slots, NEW y \in Slots, T[x].frame # 0, T[x].frame = T[y].frame PROVE x = y
    <3>1. CASE x = s \/ y = s
      BY <1>4, <1>9, <1>16, <2>1, <2>3, <3>1
    <3>2. CASE x # s /\ y # s
      BY <1>9, <1>16, <2>3, <3>2 DEF NumbersIn
    <3> QED
      BY <3>1, <3>2
  <2> QED
    BY <2>2, <2>3, <1>4, <1>11 DEF NumbersIn
<1>26. OrderOK'
  BY <1>1, <1>25 DEF OrderOK, Keeps
<1> QED
  BY <1>20, <1>23, <1>24, <1>26

\* For an orderly client.
LEMMA AcceptRing ==
  ASSUME ShapeOK, UnitsOK, OrderOK, TidyIn(tq, slot, main, calls), main.in = "idle",
         slot[main.next].finished, NEW ref \in {0, main.newest},
         Accept(main.next, calls.frames + 1, ref, Insert(GiveUp(main.next), main.next, {InitTask})),
         calls' = [calls EXCEPT !.frames = @ + 1]
  PROVE  Keeps /\ TidyIn(tq', slot', main', calls')
<1> DEFINE s == main.next
           f == calls.frames + 1
           g == NewFrame(f, ref)
           p == GiveUp(s)
           i == Insert(p, s, {InitTask})
           n == [i EXCEPT !.signaled = TRUE]
           T == With(slot, s, g)
           m == [main EXCEPT !.next = Next1(s), !.newest = f]
           c == [calls EXCEPT !.frames = @ + 1]
<1>1. slot' = T /\ tq' = n /\ main' = m /\ calls' = c
  BY DEF Accept, With, NewFrame
<1>2. /\ tq \in Queues /\ slot \in [Slots -> Frames] /\ main \in Mains /\ calls \in CallsIn
      /\ main.in = "idle" /\ slot[s].finished /\ ~ flush
  BY DEF ShapeOK
<1>3. s \in Slots /\ Next1(s) \in Slots
  BY <1>2, NextIndex DEF Mains
<1>4. /\ calls.frames \in Nat /\ main.newest \in Nat /\ f \in Nat \ {0} /\ ref \in Nat
      /\ f = calls.frames + 1
  BY <1>2 DEF CallsIn, Mains
<1> HIDE DEF f
<1>5. g \in Frames /\ g.frame = f /\ g.held /\ ~ g.error
  <2>1. Numbers(f, ref)
    BY <1>4 DEF Numbers
  <2>2. IsNew(g, f, ref)
    BY <2>1, NewFrameFacts
  <2> QED
    BY <2>2 DEF IsNew
<1>6. InUse(g)
  BY <1>5 DEF InUse
<1>7. PICK k \in 0 .. NFc : RingIn(tq, slot, main, k)
  BY DEF TidyIn
<1>8. /\ \A x \in Slots : InUse(slot[x]) <=> IndexOf(tq, x) < k
      /\ IndexOf(tq, s) = k \/ (k = NFc /\ s = tq.first)
  BY <1>2, <1>7 DEF RingIn
<1> DEFINE z == IF InUse(slot[s]) THEN AdvanceFirst(tq) ELSE tq
<1>9. p = z /\ (Used(s) <=> InUse(slot[s])) /\ s = main.next
  BY DEF GiveUp, Used, InUse
<1> HIDE DEF s, g, p
<1>10. /\ z \in Queues /\ (InUse(slot[s]) => s = tq.first)
       /\ \A x \in Slots : x # s => (InUse(slot[x]) <=> IndexOf(z, x) < IndexOf(z, s))
       /\ \A x, y \in Slots : x # s /\ y # s => (Ahead(z, x) < Ahead(z, y) <=> Ahead(tq, x) < Ahead(tq, y))
  BY <1>2, <1>3, <1>8, RingRoom
<1>11. /\ m.in = "idle" /\ m.next = Next1(s)
       /\ c.kinds = calls.kinds /\ c.drains = calls.drains
       /\ c.flushes = calls.flushes /\ c.whole = calls.whole
  BY <1>2, <1>3, <1>4 DEF Mains, CallsIn
<1> HIDE DEF z, m, c
<1>12. i \in Queues /\ i.first = p.first
  <2> DEFINE ns == {InitTask}
  <2>1. ns \subseteq Tasks /\ ns # {}
    BY TaskFacts
  <2> HIDE DEF ns
  <2>2. p \in Queues /\ s \in Slots /\ ~ flush
    BY <1>2, <1>3, <1>9, <1>10
  <2> DEFINE x == Insert(p, s, ns)
  <2>3. x \in Queues /\ x.first = p.first
    BY ONLY <2>1, <2>2, InsertFacts
  <2> QED
    BY <2>3 DEF ns
<1> HIDE DEF i
<1>13. n \in Queues /\ n.first = p.first
  BY <1>12 DEF Queues
<1> HIDE DEF n
<1>14. T \in [Slots -> Frames] /\ T[s] = g /\ \A x \in Slots : x # s => T[x] = slot[x]
  BY <1>2, <1>3, <1>5, WithFacts
<1>15. \E j \in 0 .. NFc : RingIn(n, T, m, j)
  BY <1>2, <1>3, <1>5, <1>6, <1>9, <1>10, <1>11, <1>13, RingNew
<1> HIDE DEF T
<1>16. AgesIn(n, T)
  <2>1. \A x, y \in Slots : Ahead(n, x) < Ahead(n, y) <=> Ahead(p, x) < Ahead(p, y)
    BY <1>13 DEF Ahead
  <2>2. \A x, y \in Slots : x # s /\ y # s => (Ahead(n, x) < Ahead(n, y) <=> Ahead(tq, x) < Ahead(tq, y))
    BY <1>9, <1>10, <2>1
  <2>3. ASSUME NEW y \in Slots, y # s, InUse(T[y]) PROVE ~ (Ahead(n, s) < Ahead(n, y))
    <3>1. IndexOf(p, y) < IndexOf(p, s)
      BY <1>9, <1>10, <1>14, <2>3
    <3>2. Ahead(p, y) < Ahead(p, s) /\ Ahead(p, y) \in Nat /\ Ahead(p, s) \in Nat
      BY <1>3, <1>9, <1>10, <3>1, IndexFacts, RingFacts
    <3> QED
      BY <1>3, <2>1, <3>2
  <2>4. \A x \in Slots : slot[x].frame \in Nat /\ slot[x].frame < f
    BY <1>2, <1>4 DEF Frames, OrderOK, NumbersIn
  <2> SUFFICES ASSUME NEW x \in Slots, NEW y \in Slots, T[x].frame # 0, T[y].frame # 0, InUse(T[x]), InUse(T[y]),
                      Ahead(n, x) < Ahead(n, y)
               PROVE  T[x].frame < T[y].frame
    BY DEF AgesIn
  <2>5. x # y
    BY <1>13, RingFacts
  <2>6. CASE x = s
    BY <2>3, <2>5, <2>6
  <2>7. CASE y = s
    BY <1>5, <1>14, <2>4, <2>5, <2>7
  <2>8. CASE x # s /\ y # s
    BY <1>14, <2>2, <2>8 DEF TidyIn, AgesIn
  <2> QED
    BY <2>6, <2>7, <2>8
<1>17. ClientIn(T, m, c)
  <2>1. ClientIn(slot, main, calls)
    BY DEF TidyIn
  <2>2. (\A x \in Slots : ~ slot[x].error) => \A x \in Slots : ~ T[x].error
    BY <1>5, <1>14
  <2> QED
    BY <2>1, <2>2, <1>2, <1>11 DEF ClientIn
<1>18. \A x \in Slots : ~ T[x].finished => InUse(T[x]) /\ T[x].frame # 0
  BY <1>4, <1>5, <1>6, <1>14, InProgressFacts
<1>19. OldestFirst'
  BY <1>1, <1>13, <1>14, <1>16, <1>18, AgesFacts DEF OldestFirst, InProgress
<1>20. Keeps
  BY <1>2, <1>9, <1>10, <1>19 DEF Keeps
<1> QED
  BY <1>1, <1>15, <1>16, <1>17, <1>20 DEF TidyIn

\* rav1d_submit_frame, and a frame that is shown again.
LEMMA SubmitStep ==
  ASSUME ShapeOK, LockOK, UnitsOK, RingOK, SearchOK, Submit
  PROVE  /\ Orderly => Keeps /\ TidyIn(tq', slot', main', calls')
         /\ Keeps => ShapeOK' /\ UnitsOK' /\ OrderOK' /\ SearchOK'
<1>1. /\ main.in = "idle" /\ slot[main.next].finished
      /\ calls' = [calls EXCEPT !.frames = @ + 1] /\ UNCHANGED <<lock, job, flush>>
      /\ \/ "rejected" \in calls.kinds /\ Reject(main.next)
         \/ ShowExisting(main.next)
         \/ \E ref \in References :
              Accept(main.next, calls.frames + 1, ref, Insert(GiveUp(main.next), main.next, {InitTask}))
  BY DEF Submit
<1>2. OrderOK /\ (Orderly => TidyIn(tq, slot, main, calls))
  BY DEF RingOK
<1>3. CASE ("rejected" \in calls.kinds /\ Reject(main.next)) \/ ShowExisting(main.next)
  <2>1. main.next \in Slots /\ slot \in [Slots -> Frames]
    BY DEF ShapeOK, Mains
  <2>2. PICK g : /\ IsEmpty(g) /\ Emptied(main.next, g)
                 /\ g.error => "rejected" \in calls.kinds \/ slot[main.next].error
    BY <1>3, <2>1, EmptiedFacts
  <2> QED
    BY <1>1, <1>2, <2>2, EmptiedStep, EmptiedRing
<1>4. ASSUME NEW ref \in References,
             Accept(main.next, calls.frames + 1, ref, Insert(GiveUp(main.next), main.next, {InitTask}))
      PROVE  /\ Orderly => Keeps /\ TidyIn(tq', slot', main', calls')
             /\ Keeps => ShapeOK' /\ UnitsOK' /\ OrderOK' /\ SearchOK'
  <2>1. ref \in {0, main.newest}
    BY DEF References
  <2> QED
    BY <1>1, <1>2, <1>4, <2>1, AcceptStep, AcceptRing
<1> QED
  BY <1>1, <1>3, <1>4

\* Where drain_picture goes on after a slot, that held something (u) or not.
Onwards(m, n, s, u) ==
  \/ ~ u /\ m.drained /\ n.in = "idle" /\ n.next = s
  \/ /\ u \/ ~ m.drained
     /\ n.next = Next1(s)
     /\ \/ m.left = 1 /\ n.in = "idle"
        \/ m.left # 1 /\ n.in = "drain" /\ n.left = m.left - 1 /\ (n.drained <=> m.drained \/ u)
        \/ u /\ n.in = "drain" /\ n.left = NFc /\ ~ n.drained

\* drain_picture does a slot: what is in use lies from first on afterwards.
LEMMA RingDrain ==
  ASSUME NEW q, q \in Queues, NEW S, S \in [Slots -> Frames], NEW k \in 0 .. NFc, NEW m, m \in Mains,
         m.in = "drain", RingIn(q, S, m, k), NEW s \in Slots, s = m.next,
         NEW g \in Frames, ~ InUse(g), NEW n, Onwards(m, n, s, InUse(S[s]))
  PROVE  LET p == IF InUse(S[s]) THEN AdvanceFirst(q) ELSE q
         IN  /\ (InUse(S[s]) => s = q.first)
             /\ \E j \in 0 .. NFc : RingIn(p, With(S, s, g), n, j)
<1> DEFINE T == With(S, s, g)
<1>1. /\ \A x \in Slots : IndexOf(q, x) \in Nat /\ IndexOf(q, x) < NFc
      /\ \A x, y \in Slots : IndexOf(q, x) = IndexOf(q, y) => x = y
      /\ q.first \in Slots /\ IndexOf(q, q.first) = 0
      /\ NFc \in Nat /\ NFc >= 2 /\ k \in Nat /\ k <= NFc
  BY IndexFacts
<1>2. T[s] = g /\ \A x \in Slots : x # s => T[x] = S[x]
  BY WithFacts
<1>3. /\ \A x \in Slots : InUse(S[x]) <=> IndexOf(q, x) < k
      /\ m.left >= 1
      /\ s = q.first \/ (IndexOf(q, s) >= k /\ ~ m.drained)
      /\ s = q.first => k <= m.left
      /\ IndexOf(q, s) >= k /\ ~ m.drained => m.left + IndexOf(q, s) = NFc + k
  BY DEF RingIn
<1>4. m.left \in Nat /\ m.left <= NFc
  BY <1>1 DEF Mains
<1>5. /\ Next1(s) \in Slots
      /\ IndexOf(q, s) = NFc - 1 => Next1(s) = q.first
      /\ IndexOf(q, s) < NFc - 1 => IndexOf(q, Next1(s)) = IndexOf(q, s) + 1
  BY NextIndex
<1> HIDE DEF T
<1>6. CASE InUse(S[s])
  <2> DEFINE p == AdvanceFirst(q)
             j == k - 1
  <2>1. IndexOf(q, s) < k /\ s = q.first /\ k >= 1 /\ IndexOf(q, s) = 0
    BY <1>1, <1>3, <1>6
  <2>2. \A x \in Slots : IndexOf(p, x) = IF x = q.first THEN NFc - 1 ELSE IndexOf(q, x) - 1
    BY AdvanceRing DEF IndexOf
  <2>3. p \in Queues
    BY AdvanceFacts
  <2> HIDE DEF p
  <2>4. IndexOf(p, p.first) = 0 /\ p.first \in Slots /\ \A x, y \in Slots : IndexOf(p, x) = IndexOf(p, y) => x = y
    BY <2>3, IndexFacts
  <2>5. IndexOf(q, Next1(s)) = 1 /\ Next1(s) # q.first
    BY <1>1, <1>5, <2>1
  <2>6. IndexOf(p, Next1(s)) = 0
    BY <1>5, <2>2, <2>5
  <2>7. Next1(s) = p.first
    BY <1>5, <2>4, <2>6
  <2>8. j \in 0 .. NFc
    BY <1>1, <2>1
  <2>9. \A x \in Slots : InUse(T[x]) <=> IndexOf(p, x) < j
    <3> SUFFICES ASSUME NEW x \in Slots PROVE InUse(T[x]) <=> IndexOf(p, x) < j
      OBVIOUS
    <3>1. CASE x = s
      <4>1. IndexOf(p, x) = NFc - 1 /\ ~ InUse(T[x])
        BY <1>2, <2>1, <2>2, <3>1
      <4> QED
        BY <4>1, <1>1
    <3>2. CASE x # s
      <4>1. IndexOf(p, x) = IndexOf(q, x) - 1 /\ T[x] = S[x] /\ IndexOf(q, x) \in Nat
        BY <1>1, <1>2, <2>1, <2>2, <3>2
      <4>2. InUse(S[x]) <=> IndexOf(q, x) < k
        BY <1>3
      <4> QED
        BY <4>1, <4>2, <1>1
    <3> QED
      BY <3>1, <3>2
  <2>10. /\ n.next = p.first /\ IndexOf(p, n.next) = 0
         /\ \/ m.left = 1 /\ n.in = "idle"
            \/ m.left # 1 /\ n.in = "drain" /\ n.left = m.left - 1 /\ n.drained
            \/ n.in = "drain" /\ n.left = NFc /\ ~ n.drained
    BY <1>6, <2>6, <2>7 DEF Onwards
  <2>11. k <= m.left
    BY <1>3, <2>1
  <2>12. RingIn(p, T, n, j)
    <3>1. n.in # "drain" => IndexOf(p, n.next) = j
      BY <1>1, <2>1, <2>10, <2>11
    <3>2. n.in = "drain" => /\ n.left >= 1 /\ n.next = p.first /\ j <= n.left
                            /\ IndexOf(p, n.next) >= j /\ ~ n.drained => n.left + IndexOf(p, n.next) = NFc + j
      BY <1>1, <1>3, <1>4, <2>1, <2>10, <2>11
    <3> QED
      BY <2>9, <3>1, <3>2 DEF RingIn
  <2> QED
    BY <1>6, <2>1, <2>8, <2>12 DEF T, p
<1>7. CASE ~ InUse(S[s])
  <2>1. IndexOf(q, s) >= k
    BY <1>1, <1>3, <1>7
  <2>2. \A x \in Slots : InUse(T[x]) <=> IndexOf(q, x) < k
    <3> SUFFICES ASSUME NEW x \in Slots PROVE InUse(T[x]) <=> InUse(S[x])
      BY <1>3
    <3> QED
      BY <1>2, <1>7
  <2>3. CASE m.drained /\ n.in = "idle" /\ n.next = s
    <3>1. s = q.first /\ k = 0
      BY <1>1, <1>3, <2>1, <2>3
    <3>2. RingIn(q, T, n, k)
      BY <1>1, <2>2, <2>3, <3>1 DEF RingIn
    <3> QED
      BY <1>7, <3>2 DEF T
  <2>4. CASE /\ ~ m.drained /\ n.next = Next1(s)
             /\ \/ m.left = 1 /\ n.in = "idle"
                \/ m.left # 1 /\ n.in = "drain" /\ n.left = m.left - 1 /\ ~ n.drained
    <3>1. m.left + IndexOf(q, s) = NFc + k
      BY <1>3, <2>1, <2>4
    <3>2. IndexOf(q, s) = NFc - 1 => m.left = k + 1
      BY <1>1, <1>4, <3>1
    <3>3. m.left = 1 => IndexOf(q, s) = NFc - 1 /\ k = 0
      BY <1>1, <3>1
    <3>4. n.in # "drain" => IndexOf(q, n.next) = k
      BY <1>1, <1>5, <2>4, <3>3
    <3>5. n.in = "drain" =>
            /\ n.left >= 1
            /\ n.next = q.first \/ (IndexOf(q, n.next) >= k /\ ~ n.drained)
            /\ n.next = q.first => k <= n.left
            /\ IndexOf(q, n.next) >= k /\ ~ n.drained => n.left + IndexOf(q, n.next) = NFc + k
      <4> SUFFICES ASSUME n.in = "drain"
                   PROVE  /\ n.left >= 1
                          /\ n.next = q.first \/ (IndexOf(q, n.next) >= k /\ ~ n.drained)
                          /\ n.next = q.first => k <= n.left
                          /\ IndexOf(q, n.next) >= k /\ ~ n.drained => n.left + IndexOf(q, n.next) = NFc + k
        OBVIOUS
      <4>1. m.left # 1 /\ n.left = m.left - 1 /\ ~ n.drained /\ n.left >= 1 /\ n.next = Next1(s)
        BY <2>4, <1>3, <1>4
      <4>2. CASE IndexOf(q, s) = NFc - 1
        <5>1. n.next = q.first /\ n.left = k /\ IndexOf(q, n.next) = 0 /\ k >= 1
          BY <1>1, <1>5, <4>1, <4>2, <3>2
        <5> QED
          BY <5>1, <1>1
      <4>3. CASE IndexOf(q, s) # NFc - 1
        <5>1. IndexOf(q, s) \in Nat /\ IndexOf(q, s) < NFc - 1
          BY <1>1, <4>3
        <5>2. IndexOf(q, n.next) = IndexOf(q, s) + 1
          BY <1>5, <4>1, <5>1
        <5>3. n.next # q.first
          BY <1>1, <5>1, <5>2
        <5> QED
          BY <1>1, <1>4, <2>1, <3>1, <4>1, <5>1, <5>2, <5>3
      <4> QED
        BY <4>2, <4>3
    <3>6. RingIn(q, T, n, k)
      BY <2>2, <3>4, <3>5 DEF RingIn
    <3> QED
      BY <1>7, <3>6 DEF T
  <2> QED
    BY <1>7, <2>3, <2>4 DEF Onwards
<1> QED
  BY <1>6, <1>7

\* A call of drain_picture begins or ends.
LEMMA MainFacts ==
  ASSUME NEW m, m \in Mains
  PROVE  /\ Idle(m) \in Mains /\ Idle(m).newest = m.newest /\ Idle(m).in = "idle" /\ Idle(m).next = m.next
         /\ Drain(m) \in Mains /\ Drain(m).newest = m.newest /\ Drain(m).in = "drain"
         /\ Drain(m).next = m.next /\ Drain(m).left = NFc /\ Drain(m).drained = FALSE
<1>1. 0 \in 0 .. NFc /\ NFc \in 0 .. NFc
  BY SizeAssumption
<1> QED
  BY <1>1 DEF Idle, Drain, Mains

\* The caller after a slot.
LEMMA DrainMain ==
  ASSUME ShapeOK, DrainSlot
  PROVE  /\ main' \in Mains /\ main'.newest = main.newest /\ main'.in \in {"idle", "drain"}
         /\ main'.in = "drain" => main'.left >= 1
         /\ calls.whole /\ ~ slot[main.next].error
              => Onwards(main, main', main.next, InUse(slot[main.next]))
<1> DEFINE s == main.next
           n == main'
           m1 == Moved(main, s)
<1>1. /\ main.in = "drain"
      /\ IF ~ Used(s) /\ main.drained THEN n = Idle(main)
         ELSE \/ slot[s].held /\ n = (IF calls.whole THEN Drain(m1) ELSE Idle(m1))
              \/ n = (IF m1.left = 0 THEN Idle(m1) ELSE m1)
  BY DEF DrainSlot, Shown, Again
<1>2. main \in Mains /\ slot \in [Slots -> Frames] /\ s \in Slots
  BY DEF ShapeOK, Mains
<1>3. main.left \in 0 .. NFc /\ main.left >= 1 /\ NFc \in Nat /\ NFc >= 1
  BY <1>1, <1>2, SizeAssumption DEF ShapeOK, Mains
<1>4. Next1(s) \in Slots
  BY <1>2, NextIndex DEF ShapeOK
<1>5. /\ m1 \in Mains /\ m1.in = "drain" /\ m1.next = Next1(s) /\ m1.left = main.left - 1
      /\ m1.drained = (main.drained \/ Used(s)) /\ m1.newest = main.newest
  <2> DEFINE l == main.left - 1
             d == main.drained \/ Used(s)
  <2>1. m1 = [main EXCEPT !.next = Next1(s), !.left = l, !.drained = d]
    BY DEF Moved
  <2>2. l \in 0 .. NFc /\ d \in BOOLEAN
    BY <1>3
  <2> HIDE DEF l, d, m1, s
  <2>3. /\ m1 \in Mains /\ m1.in = "drain" /\ m1.next = Next1(s) /\ m1.left = l
        /\ m1.drained = d /\ m1.newest = main.newest
    BY <1>1, <1>2, <1>4, <2>1, <2>2 DEF Mains
  <2> QED
    BY <2>3 DEF l, d
<1>6. (Used(s) <=> InUse(slot[s])) /\ (slot[s].held => Used(s))
  BY DEF Used, InUse
<1>7. s = main.next
  OBVIOUS
<1> HIDE DEF m1, n, s
<1>8. CASE ~ Used(s) /\ main.drained
  <2>1. n = Idle(main)
    BY <1>1, <1>8
  <2>2. n \in Mains /\ n.newest = main.newest /\ n.in = "idle" /\ n.next = main.next
    BY <1>2, <2>1, MainFacts
  <2> QED
    BY <1>6, <1>7, <1>8, <2>2 DEF Onwards, n
<1>9. CASE Used(s) \/ ~ main.drained
  <2>1. \/ Used(s) /\ n = Drain(m1)
        \/ ~ calls.whole /\ n = Idle(m1)
        \/ main.left = 1 /\ n = Idle(m1)
        \/ main.left # 1 /\ n = m1
    <3>1. m1.left = 0 <=> main.left = 1
      BY <1>3, <1>5
    <3> QED
      BY <1>1, <1>6, <1>9, <3>1
  <2>2. CASE Used(s) /\ n = Drain(m1)
    <3>1. /\ n \in Mains /\ n.newest = main.newest /\ n.in = "drain" /\ n.next = Next1(s)
          /\ n.left = NFc /\ n.drained = FALSE
      BY <1>5, <2>2, MainFacts
    <3> QED
      BY <1>3, <1>6, <1>7, <2>2, <3>1 DEF Onwards, n
  <2>3. CASE (main.left = 1 \/ ~ calls.whole) /\ n = Idle(m1)
    <3>1. n \in Mains /\ n.newest = main.newest /\ n.in = "idle" /\ n.next = Next1(s)
      BY <1>5, <2>3, MainFacts
    <3> QED
      BY <1>6, <1>7, <1>9, <2>3, <3>1 DEF Onwards, n
  <2>4. CASE main.left # 1 /\ n = m1
    <3>1. n.drained <=> main.drained \/ InUse(slot[s])
      BY <1>5, <1>6, <2>4
    <3>2. n.left >= 1
      BY <1>3, <1>5, <2>4
    <3> QED
      BY <1>5, <1>6, <1>7, <1>9, <2>4, <3>1, <3>2 DEF Onwards, n
  <2> QED
    BY <2>1, <2>2, <2>3, <2>4
<1> QED
  BY <1>8, <1>9

\* drain_picture does a slot.
LEMMA DrainSlotStep ==
  ASSUME ShapeOK, LockOK, UnitsOK, OrderOK, SearchOK, DrainSlot, Keeps
  PROVE  ShapeOK' /\ UnitsOK' /\ OrderOK' /\ SearchOK'
<1> DEFINE s == main.next
           g == TakenOut(slot[s])
           p == GiveUp(s)
           T == With(slot, s, g)
<1>1. /\ main.in = "drain" /\ slot[s].finished /\ tq' = p
      /\ slot' = T /\ UNCHANGED <<lock, at, job, flush, calls>>
  BY DEF DrainSlot, With, TakenOut
<1>2. /\ tq \in Queues /\ slot \in [Slots -> Frames] /\ main \in Mains /\ calls \in CallsIn /\ ~ flush
  BY <1>1 DEF ShapeOK
<1>3. s \in Slots /\ slot[s] \in Frames
  BY <1>2 DEF Mains
<1>4. /\ g \in Frames /\ g.finished /\ g.frame = slot[s].frame /\ g.ref = slot[s].ref
  BY <1>1, <1>3 DEF TakenOut, Frames
<1>5. /\ main' \in Mains /\ main'.newest = main.newest /\ main'.in \in {"idle", "drain"}
      /\ main'.in = "drain" => main'.left >= 1
  BY DrainMain
<1>6. Used(s) => slot[tq.first].finished
  BY DEF Keeps
<1> HIDE DEF s, g
<1>8. /\ p \in Queues /\ p.list = tq.list /\ p.pend = tq.pend
      /\ Skew(p, slot, Scanning(at)) /\ Old(p, slot, PostOf(at, job))
  BY <1>2, <1>3, <1>6, GiveUpFacts
<1>9. T \in [Slots -> Frames] /\ T[s] = g /\ \A x \in Slots : x # s => T[x] = slot[x]
  BY <1>2, <1>3, <1>4, WithFacts
<1>10. UnitsOf(p, at, job, T, flush)
  <2>1. UnitsOf(tq, at, job, slot, flush)
    BY DEF UnitsOK
  <2>2. UnitAt(tq, at, job, slot, s) /\ tq.list[s] \cap tq.pend[s] = {}
    BY <1>3, <2>1 DEF UnitsOf
  <2> HIDE DEF T, p
  <2>3. QueueOf(p, s) = QueueOf(tq, s) /\ p.list[s] \cap p.pend[s] = {} /\ SameBut(tq, p, s)
    BY <1>8, <2>2 DEF QueueOf, SameBut
  <2> DEFINE Q == QueueOf(tq, s)
             R == In(at, job, {"run"}, s)
             P == In(at, job, Posting, s)
             L == In(at, job, {"leave"}, s)
  <2>4. Unit(Q, R, P, L, slot[s])
    BY <2>2 DEF UnitAt
  <2> HIDE DEF Q, R, P, L
  <2>5. Unit(Q, R, P, L, g) /\ Whole(Q, R, P, L, g)
    BY <1>1, <1>3, <2>4, UnitTaken DEF g
  <2>6. UnitAt(p, at, job, T, s) /\ WholeAt(p, at, job, T, s)
    BY <1>9, <2>3, <2>5 DEF UnitAt, WholeAt, Q, R, P, L
  <2> QED
    BY <1>3, <1>9, <2>1, <2>3, <2>6, UnitsSlot
<1>11. UnitsOK'
  BY <1>1, <1>10 DEF UnitsOK
<1>12. ShapeOK'
  BY <1>1, <1>2, <1>5, <1>8, <1>9 DEF ShapeOK
<1>13. SearchOK'
  <2> DEFINE sc == Scanning(at)
             post == PostOf(at, job)
  <2>1. Skew(p, slot, sc) /\ Old(p, slot, post) /\ p \in Queues
    BY <1>8
  <2> HIDE DEF sc, post, p
  <2>2. Skew(p, T, sc) /\ Old(p, T, post)
    BY <1>1, <1>2, <1>3, <1>4, <2>1, SearchFinished
  <2> QED
    BY <1>1, <2>2 DEF sc, post, SearchOK
<1> HIDE DEF p, T
<1>14. NumbersIn(T, calls.frames) /\ main'.newest <= calls.frames
  <2>1. \A x \in Slots : T[x].frame = slot[x].frame /\ T[x].ref = slot[x].ref
    BY <1>4, <1>9
  <2> QED
    BY <1>5, <2>1 DEF OrderOK, NumbersIn
<1>15. OrderOK'
  BY <1>1, <1>14 DEF OrderOK, Keeps
<1> QED
  BY <1>11, <1>12, <1>13, <1>15

\* For an orderly client.
LEMMA DrainSlotRing ==
  ASSUME ShapeOK, UnitsOK, TidyIn(tq, slot, main, calls), DrainSlot
  PROVE  Keeps /\ TidyIn(tq', slot', main', calls')
<1> DEFINE s == main.next
           g == TakenOut(slot[s])
           p == GiveUp(s)
           T == With(slot, s, g)
           n == main'
<1>1. /\ main.in = "drain" /\ slot[s].finished /\ tq' = p /\ slot' = T /\ calls' = calls
  BY DEF DrainSlot, With, TakenOut
<1>2. /\ tq \in Queues /\ slot \in [Slots -> Frames] /\ main \in Mains
  BY <1>1 DEF ShapeOK
<1>3. s \in Slots /\ slot[s] \in Frames /\ slot[s].error = FALSE /\ calls.whole
  <2>1. s \in Slots
    BY <1>2 DEF Mains
  <2>2. calls.whole /\ ~ slot[s].error
    BY <1>1, <2>1 DEF TidyIn, ClientIn
  <2> QED
    BY <1>2, <2>1, <2>2 DEF Frames
<1>4. /\ g \in Frames /\ ~ InUse(g) /\ g.finished /\ g.frame = slot[s].frame /\ ~ g.error
  BY <1>1, <1>3 DEF TakenOut, Frames, InUse
<1>5. Onwards(main, n, s, InUse(slot[s]))
  BY <1>3, DrainMain
<1>6. PICK k \in 0 .. NFc : RingIn(tq, slot, main, k)
  BY DEF TidyIn
<1> DEFINE z == IF InUse(slot[s]) THEN AdvanceFirst(tq) ELSE tq
<1>7. p = z /\ (Used(s) <=> InUse(slot[s])) /\ s = main.next
  BY DEF GiveUp, Used, InUse
<1> HIDE DEF s, g, n, p
<1>8. (InUse(slot[s]) => s = tq.first) /\ \E j \in 0 .. NFc : RingIn(z, T, n, j)
  BY <1>1, <1>2, <1>3, <1>4, <1>5, <1>6, <1>7, RingDrain
<1>9. z \in Queues
  BY <1>2, AdvanceFacts
<1>10. T \in [Slots -> Frames] /\ T[s] = g /\ \A x \in Slots : x # s => T[x] = slot[x]
  BY <1>2, <1>3, <1>4, WithFacts
<1> HIDE DEF T
<1>11. AgesIn(z, T)
  <2>1. \A x \in Slots : T[x].frame = slot[x].frame
    BY <1>4, <1>10
  <2>2. \A x \in Slots : InUse(T[x]) => InUse(slot[x]) /\ (InUse(slot[s]) => x # tq.first)
    BY <1>4, <1>8, <1>10
  <2>3. \A x, y \in Slots : InUse(T[x]) /\ InUse(T[y]) => (Ahead(z, x) < Ahead(z, y) <=> Ahead(tq, x) < Ahead(tq, y))
    BY <1>2, <2>2, AdvanceRing DEF z
  <2> QED
    BY <2>1, <2>2, <2>3 DEF TidyIn, AgesIn
<1>12. ClientIn(T, n, calls)
  <2>1. calls.whole /\ "rejected" \notin calls.kinds /\ \A x \in Slots : ~ slot[x].error
    BY <1>1 DEF TidyIn, ClientIn
  <2>2. \A x \in Slots : ~ T[x].error
    BY <1>4, <1>10, <2>1
  <2> QED
    BY <2>1, <2>2 DEF ClientIn
<1>13. \A x \in Slots : ~ T[x].finished => InUse(T[x]) /\ T[x].frame # 0
  BY <1>4, <1>10, InProgressFacts
<1> HIDE DEF z
<1>14. OldestFirst'
  BY <1>1, <1>7, <1>9, <1>10, <1>11, <1>13, AgesFacts DEF OldestFirst, InProgress
<1>15. Keeps
  BY <1>1, <1>7, <1>8, <1>14 DEF Keeps
<1> QED
  BY <1>1, <1>7, <1>8, <1>11, <1>12, <1>15 DEF TidyIn, n

\* A call of drain_picture begins.
LEMMA BeginDrainStep ==
  ASSUME ShapeOK, LockOK, UnitsOK, RingOK, SearchOK, BeginDrain
  PROVE  ShapeOK' /\ UnitsOK' /\ RingOK' /\ SearchOK'
<1> DEFINE m == Drain(main)
           c == [calls EXCEPT !.drains = @ - 1]
<1>1. /\ main.in = "idle" /\ calls.drains > 0 /\ main' = m /\ calls' = c
      /\ UNCHANGED <<tq, lock, at, job, slot, flush>>
  BY DEF BeginDrain
<1>2. tq \in Queues /\ main \in Mains /\ calls \in CallsIn /\ ~ flush
  BY <1>1 DEF ShapeOK
<1>3. /\ m \in Mains /\ m.newest = main.newest /\ m.in = "drain" /\ m.next = main.next
      /\ m.left = NFc /\ m.drained = FALSE
  BY <1>2, MainFacts
<1>4. /\ c \in CallsIn /\ c.frames = calls.frames /\ c.kinds = calls.kinds /\ c.whole = calls.whole
  <2>1. calls.drains - 1 \in Nat
    BY <1>1, <1>2 DEF CallsIn
  <2> QED
    BY <1>2, <2>1 DEF CallsIn
<1> HIDE DEF m, c
<1>5. ShapeOK'
  <2>1. m.in = "drain" => m.left >= 1
    BY <1>3, SizeAssumption
  <2>2. flush' \in BOOLEAN /\ ~ flush'
    BY <1>1, <1>2 DEF ShapeOK
  <2>3. m.in # "flush"
    BY <1>3
  <2> QED
    BY <1>1, <1>2, <1>3, <1>4, <2>1, <2>2, <2>3 DEF ShapeOK
<1>6. UnitsOK' /\ SearchOK'
  BY <1>1 DEF UnitsOK, SearchOK
<1>7. ASSUME NEW k \in 0 .. NFc, RingIn(tq, slot, main, k) PROVE RingIn(tq, slot, m, k)
  <2>1. /\ IndexOf(tq, tq.first) = 0 /\ NFc \in Nat /\ NFc >= 2 /\ k \in Nat /\ k <= NFc
        /\ \A x \in Slots : IndexOf(tq, x) \in Nat /\ IndexOf(tq, x) < NFc
    BY <1>2, IndexFacts
  <2>2. main.next \in Slots
    BY <1>2 DEF Mains
  <2>3. IndexOf(tq, m.next) = k \/ (k = NFc /\ m.next = tq.first)
    BY <1>1, <1>3, <1>7 DEF RingIn
  <2>4. /\ m.left >= 1
        /\ m.next = tq.first \/ (IndexOf(tq, m.next) >= k /\ ~ m.drained)
        /\ m.next = tq.first => k <= m.left
        /\ IndexOf(tq, m.next) >= k /\ ~ m.drained => m.left + IndexOf(tq, m.next) = NFc + k
    <3>1. CASE IndexOf(tq, m.next) = k
      BY <1>3, <2>1, <3>1
    <3>2. CASE k = NFc /\ m.next = tq.first
      BY <1>3, <2>1, <3>2
    <3> QED
      BY <2>3, <3>1, <3>2
  <2> QED
    BY <1>3, <1>7, <2>4 DEF RingIn
<1>8. OrderOK'
  BY <1>1, <1>3, <1>4 DEF RingOK, OrderOK, OldestFirst, InProgress
<1>9. ASSUME Orderly PROVE TidyIn(tq, slot, m, c)
  <2>1. ClientIn(slot, main, calls) /\ calls.drains # 0
    BY <1>1, <1>2, <1>9 DEF RingOK, TidyIn, CallsIn
  <2>2. ClientIn(slot, m, c)
    BY <2>1, <1>4 DEF ClientIn
  <2> QED
    BY <1>7, <1>9, <2>2 DEF RingOK, TidyIn
<1>10. RingOK'
  BY <1>1, <1>8, <1>9 DEF RingOK, Orderly
<1> QED
  BY <1>5, <1>6, <1>10

\* rav1d_flush sets c.flush.
LEMMA BeginFlushStep ==
  ASSUME ShapeOK, LockOK, UnitsOK, RingOK, SearchOK, BeginFlush
  PROVE  ShapeOK' /\ UnitsOK' /\ RingOK' /\ SearchOK'
<1> DEFINE m == [main EXCEPT !.in = "flush"]
           c == [calls EXCEPT !.flushes = @ - 1]
<1>1. /\ main.in = "idle" /\ calls.flushes > 0 /\ main' = m /\ calls' = c /\ flush' = TRUE
      /\ UNCHANGED <<tq, lock, at, job, slot>>
  BY DEF BeginFlush
<1>2. tq \in Queues /\ main \in Mains /\ calls \in CallsIn
  BY DEF ShapeOK
<1>3. /\ m \in Mains /\ m.newest = main.newest /\ m.in = "flush" /\ m.next = main.next
  BY <1>2 DEF Mains
<1>4. /\ c \in CallsIn /\ c.frames = calls.frames /\ c.kinds = calls.kinds /\ c.whole = calls.whole
      /\ c.drains = calls.drains
  <2>1. calls.flushes - 1 \in Nat
    BY <1>1, <1>2 DEF CallsIn
  <2> QED
    BY <1>2, <2>1 DEF CallsIn
<1> HIDE DEF m, c
<1>5. ShapeOK'
  BY <1>1, <1>2, <1>3, <1>4 DEF ShapeOK
<1>6. UnitsOf(tq, at, job, slot, TRUE)
  BY DEF UnitsOK, UnitsOf
<1>7. UnitsOK' /\ SearchOK'
  BY <1>1, <1>6 DEF UnitsOK, SearchOK
<1>8. OrderOK'
  BY <1>1, <1>3, <1>4 DEF RingOK, OrderOK, OldestFirst, InProgress
<1>9. ASSUME Orderly PROVE TidyIn(tq, slot, m, c)
  <2>1. ClientIn(slot, main, calls) /\ calls.flushes # 0
    BY <1>1, <1>2, <1>9 DEF RingOK, TidyIn, CallsIn
  <2>2. ClientIn(slot, m, c)
    BY <2>1, <1>3, <1>4 DEF ClientIn
  <2>3. \E k \in 0 .. NFc : RingIn(tq, slot, m, k)
    BY <1>1, <1>3, <1>9 DEF RingOK, TidyIn, RingIn
  <2> QED
    BY <1>9, <2>2, <2>3 DEF RingOK, TidyIn
<1>10. RingOK'
  BY <1>1, <1>8, <1>9 DEF RingOK, Orderly
<1> QED
  BY <1>5, <1>7, <1>10

\* The queue at the start and after a flush.
LEMMA EmptyQueueFacts ==
  /\ EmptyQueue \in Queues /\ EmptyQueue.first = 0 /\ EmptyQueue.cur = NFc /\ EmptyQueue.prev = Nowhere
  /\ EmptyQueue.signaled = FALSE
  /\ \A s \in Slots : EmptyQueue.list[s] = {} /\ EmptyQueue.pend[s] = {} /\ EmptyQueue.prev[s] = NoTask
<1>1. 0 \in Slots /\ NFc \in 0 .. NFc /\ MAX \in 0 .. MAX
  BY SizeAssumption DEF Slots, MAX
<1> QED
  BY <1>1 DEF EmptyQueue, Queues, Nowhere

\* Nothing is in progress, and all workers sleep or wake up.
LEMMA RestFacts ==
  ASSUME NEW S, S \in [Slots -> Frames], NEW e \in [Slots -> BOOLEAN],
         \A s \in Slots : S[s] = [NoFrame EXCEPT !.error = e[s]],
         NEW A, NEW J, \A w \in Workers : A[w] \notin Hands, NEW sc, NEW post
  PROVE  /\ UnitsOf(EmptyQueue, A, J, S, FALSE)
         /\ Skew(EmptyQueue, S, sc) /\ Old(EmptyQueue, S, post)
<1>1. \A s \in Slots : /\ S[s] \in Frames /\ S[s].tiles = 0 /\ S[s].deblock = 0 /\ S[s].done = {}
                       /\ S[s].finished /\ S[s].initDone /\ S[s].frame = 0
  BY NoFrameFacts DEF Frames
<1>2. \A s \in Slots : EmptyQueue.list[s] = {} /\ EmptyQueue.pend[s] = {} /\ EmptyQueue.prev[s] = NoTask
  BY EmptyQueueFacts
<1>3. ASSUME NEW s \in Slots PROVE UnitAt(EmptyQueue, A, J, S, s) /\ WholeAt(EmptyQueue, A, J, S, s)
  <2>1. QueueOf(EmptyQueue, s) = {}
    BY <1>2 DEF QueueOf
  <2>2. /\ In(A, J, {"run"}, s) = {} /\ In(A, J, Posting, s) = {} /\ In(A, J, {"leave"}, s) = {}
    BY DEF In, Hands
  <2>3. Unit({}, {}, {}, {}, S[s]) /\ Whole({}, {}, {}, {}, S[s])
    BY <1>1, UnitFresh
  <2> QED
    BY <2>1, <2>2, <2>3 DEF UnitAt, WholeAt
<1>4. UnitsOf(EmptyQueue, A, J, S, FALSE)
  BY <1>2, <1>3 DEF UnitsOf, Sole
<1>5. Skew(EmptyQueue, S, sc)
  BY <1>2 DEF Skew
<1>6. Old(EmptyQueue, S, post)
  BY <1>1 DEF Old, IsFirst
<1> QED
  BY <1>4, <1>5, <1>6

\* rav1d_flush, once all workers are parked.
LEMMA EndFlushStep ==
  ASSUME ShapeOK, LockOK, UnitsOK, RingOK, SearchOK, EndFlush
  PROVE  ShapeOK' /\ UnitsOK' /\ RingOK' /\ SearchOK'
<1> DEFINE e == [s \in Slots |-> slot[s].error]
           T == [s \in Slots |-> [NoFrame EXCEPT !.error = slot[s].error]]
           m == [Idle(main) EXCEPT !.next = 0, !.newest = 0]
<1>1. /\ main.in = "flush" /\ tq' = EmptyQueue /\ slot' = T /\ main' = m /\ flush' = FALSE
      /\ \A w \in Workers : at[w] \in {"wait", "woken"}
      /\ UNCHANGED <<lock, at, job, calls>>
  BY DEF EndFlush
<1>2. main \in Mains /\ calls \in CallsIn /\ slot \in [Slots -> Frames]
  BY DEF ShapeOK
<1>3. /\ m \in Mains /\ m.newest = 0 /\ m.in = "idle" /\ m.next = 0
  <2>1. Idle(main) \in Mains /\ Idle(main).in = "idle"
    BY <1>2, MainFacts
  <2>2. 0 \in Slots
    BY SizeAssumption DEF Slots
  <2> QED
    BY <2>1, <2>2 DEF Mains
<1>4. /\ e \in [Slots -> BOOLEAN] /\ \A s \in Slots : T[s] = [NoFrame EXCEPT !.error = e[s]]
      /\ \A s \in Slots : e[s] = slot[s].error
  BY <1>2 DEF Frames
<1>5. /\ T \in [Slots -> Frames]
      /\ \A s \in Slots : /\ T[s].frame = 0 /\ T[s].ref = 0 /\ T[s].finished /\ ~ T[s].held
                         /\ T[s].error = slot[s].error
  BY <1>4, NoFrameFacts DEF Frames
<1> HIDE DEF e, T, m
<1>6. ShapeOK'
  BY <1>1, <1>2, <1>3, <1>5, EmptyQueueFacts DEF ShapeOK
<1>7. /\ UnitsOf(EmptyQueue, at, job, T, FALSE)
      /\ Skew(EmptyQueue, T, Scanning(at)) /\ Old(EmptyQueue, T, PostOf(at, job))
  <2>1. \A w \in Workers : at[w] \notin Hands
    BY <1>1 DEF Hands, Posting
  <2> QED
    BY <1>4, <1>5, <2>1, RestFacts
<1>8. UnitsOK' /\ SearchOK'
  BY <1>1, <1>7 DEF UnitsOK, SearchOK
<1>9. OrderOK'
  <2>1. calls.frames \in Nat
    BY <1>2 DEF CallsIn
  <2> QED
    BY <1>1, <1>3, <1>5, <2>1 DEF OrderOK, NumbersIn, OldestFirst, InProgress
<1>10. ASSUME Orderly PROVE TidyIn(EmptyQueue, T, m, calls)
  <2>1. ClientIn(slot, main, calls)
    BY <1>10 DEF RingOK, TidyIn
  <2>2. \A s \in Slots : ~ slot[s].error
    BY <1>1, <2>1 DEF ClientIn
  <2>3. \A s \in Slots : ~ InUse(T[s]) /\ ~ T[s].error
    BY <1>5, <2>2 DEF InUse
  <2>4. RingIn(EmptyQueue, T, m, 0)
    <3>1. IndexOf(EmptyQueue, 0) = 0 /\ \A x \in Slots : IndexOf(EmptyQueue, x) \in Nat
      BY EmptyQueueFacts, IndexFacts
    <3>2. \A x \in Slots : ~ (IndexOf(EmptyQueue, x) < 0)
      BY <3>1
    <3> QED
      BY <1>3, <2>3, <3>1, <3>2 DEF RingIn
  <2>5. AgesIn(EmptyQueue, T)
    BY <2>3 DEF AgesIn
  <2>6. ClientIn(T, m, calls)
    BY <1>1, <1>3, <2>1, <2>3 DEF ClientIn
  <2>7. 0 \in 0 .. NFc
    BY SizeAssumption
  <2> QED
    BY <2>4, <2>5, <2>6, <2>7 DEF TidyIn
<1>11. RingOK'
  BY <1>1, <1>9, <1>10 DEF RingOK, Orderly
<1> QED
  BY <1>6, <1>8, <1>11

\* A step of the caller.
LEMMA CallerStep ==
  ASSUME ShapeOK, LockOK, UnitsOK, RingOK, SearchOK, ordered, Caller
  PROVE  /\ Orderly => ordered'
         /\ ordered' => ShapeOK' /\ UnitsOK' /\ RingOK' /\ SearchOK'
<1>1. ASSUME Submit \/ DrainSlot
      PROVE  /\ Orderly => Keeps /\ TidyIn(tq', slot', main', calls')
             /\ Keeps => ShapeOK' /\ UnitsOK' /\ OrderOK' /\ SearchOK'
  <2>1. OrderOK /\ (Orderly => TidyIn(tq, slot, main, calls))
    BY DEF RingOK
  <2> QED
    BY <1>1, <2>1, SubmitStep, DrainSlotStep, DrainSlotRing
<1>2. CASE (Submit \/ DrainSlot) /\ KeepOrder
  <2>1. ordered' <=> Keeps
    BY <1>2 DEF KeepOrder, Keeps
  <2>2. Keeps => ShapeOK' /\ UnitsOK' /\ RingOK' /\ SearchOK'
    BY <1>1, <1>2 DEF RingOK, Orderly
  <2> QED
    BY <1>1, <1>2, <2>1, <2>2
<1>3. CASE (BeginDrain \/ BeginFlush \/ EndFlush) /\ UNCHANGED ordered
  BY <1>3, BeginDrainStep, BeginFlushStep, EndFlushStep
<1> QED
  BY <1>2, <1>3 DEF Caller

(***************************************************************************)
(* What the workers leave alone.                                           *)
(***************************************************************************)
SameFrame(f, g) ==
  /\ g.frame = f.frame /\ g.ref = f.ref /\ g.held = f.held /\ g.error = f.error
  /\ f.finished => g.finished

\* A frame changes in what a worker changes.
LEMMA FrameSame ==
  ASSUME ShapeOK, NEW s \in Slots, NEW g, SameFrame(slot[s], g)
  PROVE  \A x \in Slots : SameFrame(slot[x], With(slot, s, g)[x])
<1>1. slot \in [Slots -> Frames]
  BY DEF ShapeOK
<1> QED
  BY <1>1 DEF With, SameFrame

\* The ring does not depend on what the workers change.
LEMMA RingKept ==
  ASSUME RingOK, tq'.first = tq.first, UNCHANGED <<main, calls>>,
         \A x \in Slots : SameFrame(slot[x], slot'[x])
  PROVE  RingOK'
<1> DEFINE p == tq'
           T == slot'
<1>1. p.first = tq.first /\ \A x \in Slots : SameFrame(slot[x], T[x])
  OBVIOUS
<1> HIDE DEF p, T
<1>2. \A x \in Slots : Ahead(p, x) = Ahead(tq, x) /\ IndexOf(p, x) = IndexOf(tq, x)
  BY <1>1 DEF Ahead, IndexOf
<1>3. \A x \in Slots : (InUse(T[x]) <=> InUse(slot[x]))
  BY <1>1 DEF SameFrame, InUse
<1>4. NumbersIn(T, calls.frames)
  BY <1>1 DEF RingOK, OrderOK, NumbersIn, SameFrame
<1>5. \A x, y \in Slots : ~ T[x].finished /\ ~ T[y].finished /\ T[x].frame < T[y].frame
                           => Ahead(p, x) < Ahead(p, y)
  BY <1>1, <1>2 DEF RingOK, OrderOK, OldestFirst, InProgress, SameFrame
<1>6. ASSUME Orderly PROVE TidyIn(p, T, main, calls)
  <2>1. AgesIn(tq, slot) /\ ClientIn(slot, main, calls)
    BY <1>6 DEF RingOK, TidyIn
  <2>2. PICK k \in 0 .. NFc : RingIn(tq, slot, main, k)
    BY <1>6 DEF RingOK, TidyIn
  <2>3. IndexOf(p, main.next) = IndexOf(tq, main.next)
    BY <1>1 DEF IndexOf, Ahead
  <2>4. RingIn(p, T, main, k)
    BY <1>1, <1>2, <1>3, <2>2, <2>3 DEF RingIn
  <2>5. AgesIn(p, T)
    BY <1>1, <1>2, <1>3, <2>1 DEF AgesIn, SameFrame
  <2>6. ClientIn(T, main, calls)
    BY <1>1, <2>1 DEF ClientIn, SameFrame
  <2> QED
    BY <2>4, <2>5, <2>6 DEF TidyIn
<1>7. OrderOK'
  BY <1>4, <1>5 DEF RingOK, OrderOK, OldestFirst, InProgress, p, T
<1>8. Orderly' => Orderly
  BY DEF Orderly
<1> QED
  BY <1>6, <1>7, <1>8 DEF RingOK, p, T

(***************************************************************************)
(* The lock, the ring and the sleep of the workers when a worker does a    *)
(* step.                                                                   *)
(***************************************************************************)
SameSlots == \A x \in Slots : SameFrame(slot[x], slot'[x])

LocksWell(w, p) ==
  /\ lock' = lock \/ (lock \subseteq {w} /\ lock' \subseteq {w})
  /\ p \in {"scan", "park"} => w \in lock'
  /\ w \in lock' => p \in {"outer", "scan", "park"}

\* At most one worker holds the lock, and only those that search.
LEMMA LockStep ==
  ASSUME ShapeOK, LockOK, NEW w \in Workers, NEW p, Goes(w, p), LocksWell(w, p)
  PROVE  LockOK'
<1>1. /\ \A v \in Workers \ {w} : at'[v] = at[v] \/ (at[v] = "wait" /\ at'[v] = "woken")
      /\ at'[w] = p
  BY DEF Goes
<1>2. \A v, u \in lock' : v = u
  BY DEF LockOK, LocksWell
<1>3. ASSUME NEW v \in Workers, at'[v] \in {"scan", "park"} PROVE v \in lock'
  <2>1. CASE v = w
    BY <1>1, <1>3, <2>1 DEF LocksWell
  <2>2. CASE v # w
    <3>1. at[v] \in {"scan", "park"}
      BY <1>1, <1>3, <2>2
    <3>2. v \in lock
      BY <3>1 DEF LockOK
    <3> QED
      BY <2>2, <3>2 DEF LocksWell
  <2> QED
    BY <2>1, <2>2
<1>4. ASSUME NEW v \in lock' PROVE at'[v] \in {"outer", "scan", "park"}
  <2>1. CASE v = w
    BY <1>1, <1>4, <2>1 DEF LocksWell
  <2>2. CASE v # w
    <3>1. v \in lock
      BY <1>4, <2>2 DEF LocksWell
    <3>2. at[v] \in {"outer", "scan", "park"}
      BY <3>1 DEF LockOK
    <3>3. v \in Workers
      BY <3>1 DEF ShapeOK
    <3> QED
      BY <1>1, <2>2, <3>2, <3>3
  <2> QED
    BY <2>1, <2>2
<1> QED
  BY <1>2, <1>3, <1>4 DEF LockOK

PendLeft(w, p) ==
  \/ p = "outer"
  \/ \A s \in Slots : tq'.pend[s] = {}
  \/ at[w] # "outer" /\ \A s \in Slots : tq'.pend[s] # {} => tq.pend[s] # {}

\* The worker is awake after the step, and will look at what there is.
LEMMA AwakeSleep ==
  ASSUME LockOK, SleepOK, NEW w \in Workers, NEW p, Goes(w, p), p \notin {"wait", "scan", "park"},
         UNCHANGED flush, tq'.cur = tq.cur \/ lock \subseteq {w}, PendLeft(w, p)
  PROVE  SleepOK'
<1>1. /\ \A v \in Workers \ {w} : at'[v] = at[v] \/ (at[v] = "wait" /\ at'[v] = "woken")
      /\ at'[w] = p
  BY DEF Goes
<1>2. \E v \in Workers : at'[v] \notin {"wait", "scan", "park"}
  BY <1>1
<1>3. ASSUME NEW s \in Slots, ~ flush, tq'.pend[s] # {} PROVE \E v \in Workers : at'[v] = "outer"
  <2>1. CASE p = "outer"
    BY <1>1, <2>1
  <2>2. CASE p # "outer"
    <3>1. at[w] # "outer" /\ tq.pend[s] # {}
      BY <1>3, <2>2 DEF PendLeft
    <3>2. PICK v \in Workers : at[v] = "outer"
      BY <1>3, <3>1 DEF SleepOK
    <3>3. at'[v] = "outer"
      BY <1>1, <3>1, <3>2
    <3> QED
      BY <3>3
  <2> QED
    BY <2>1, <2>2
<1>4. ASSUME NEW v \in Workers, at'[v] = "park" PROVE tq'.cur = NFc
  <2>1. v # w /\ at[v] = "park"
    BY <1>1, <1>4
  <2>2. v \in lock /\ tq.cur = NFc
    BY <2>1 DEF LockOK, SleepOK
  <2> QED
    BY <2>1, <2>2
<1> QED
  BY <1>1, <1>2, <1>3, <1>4 DEF SleepOK

\* ..., and so the lock, the ring and the sleep are as they should be.
LEMMA AwakeStep ==
  ASSUME ShapeOK, LockOK, RingOK, SleepOK, NEW w \in Workers, NEW p, Goes(w, p), p \notin {"wait", "scan", "park"},
         UNCHANGED <<main, flush, calls>>, tq'.first = tq.first, SameSlots, LocksWell(w, p),
         tq'.cur = tq.cur \/ lock \subseteq {w}, PendLeft(w, p)
  PROVE  LockOK' /\ RingOK' /\ SleepOK'
<1>1. LockOK'
  BY LockStep
<1>2. SleepOK'
  BY AwakeSleep
<1>3. RingOK'
  BY RingKept DEF SameSlots
<1> QED
  BY <1>1, <1>2, <1>3

\* No frame changes.
LEMMA SlotsSame ==
  ASSUME slot' = slot
  PROVE  SameSlots
  BY DEF SameSlots, SameFrame

\* What InitReady depends on.
LEMMA InitReadySame ==
  ASSUME slot' = slot, NEW s
  PROVE  /\ tq'.list[s] = tq.list[s] /\ InitReady(tq, s)' => InitReady(tq, s)
         /\ ~ InitReady(tq', s) => ~ InitReady(tq, s)'
  BY DEF InitReady, CdfReady, RefIn

\* The start of the loop.
LEMMA OuterRest ==
  ASSUME ShapeOK, LockOK, UnitsOK, RingOK, SleepOK, NEW w \in Workers, Outer(w)
  PROVE  LockOK' /\ RingOK' /\ SleepOK'
<1> DEFINE q == MergePending(tq)
<1>1. at[w] = "outer" /\ Locks(w) /\ UNCHANGED <<slot, main, flush, calls>>
  BY OuterFacts
<1>2. lock \subseteq {w} /\ SameSlots
  BY <1>1, SlotsSame DEF Locks
<1>3. tq \in Queues
  BY DEF ShapeOK
<1>4. q \in Queues /\ q.first = tq.first /\ \A s \in Slots : q.pend[s] = {}
  BY <1>3, MergeFacts
<1>5. ASSUME NEW v \in Workers, v # w PROVE at[v] # "park" /\ at[v] # "scan"
  BY <1>2, <1>5 DEF LockOK
<1>6. CASE flush /\ tq' = Park(w) /\ lock' = {} /\ Goes(w, "wait") /\ job' = job
  <2>1. tq'.first = tq.first /\ tq'.signaled = FALSE
    BY <1>3, <1>6 DEF Park, Queues
  <2>2. LockOK'
    BY <1>2, <1>6, LockStep DEF LocksWell
  <2>3. RingOK'
    BY <1>1, <1>2, <2>1, RingKept DEF SameSlots
  <2>4. \A v \in Workers : at'[v] # "park"
    BY <1>5, <1>6 DEF Goes
  <2> QED
    BY <1>1, <1>6, <2>1, <2>2, <2>3, <2>4 DEF SleepOK
<1>7. CASE /\ ~ flush /\ tq' = q /\ lock' = {w} /\ Goes(w, "scan") /\ job' = job
           /\ \A s \in Slots : ~ InitReady(q, s)
  <2>1. LockOK'
    BY <1>2, <1>7, LockStep DEF LocksWell
  <2>2. RingOK'
    BY <1>1, <1>2, <1>4, <1>7, RingKept DEF SameSlots
  <2>3. ASSUME NEW s \in Slots PROVE ~ InitReady(tq, s)' /\ tq'.pend[s] = {}
    <3>1. ~ InitReady(tq', s)
      BY <1>7
    <3> QED
      BY <1>1, <1>4, <1>7, <3>1, InitReadySame
  <2>4. at'[w] = "scan" /\ \A v \in Workers : at'[v] # "park"
    BY <1>5, <1>7 DEF Goes
  <2>5. SleepOK'
    BY <2>3, <2>4 DEF SleepOK
  <2> QED
    BY <2>1, <2>2, <2>5
<1>8. CASE /\ ~ flush /\ lock' = {} /\ Goes(w, "run")
           /\ \E s \in Slots : \E t \in {InitTask, InitCdf} :
                /\ t \in q.list[s] /\ ~ slot[s].initDone
                /\ tq' = Taken(q, s, t)
                /\ job' = [job EXCEPT ![w].slot = s, ![w].task = t]
  <2>1. PICK s \in Slots, t \in {InitTask, InitCdf} : tq' = Taken(q, s, t)
    BY <1>8
  <2>2. t \in Tasks /\ ~ (t.type > InitCdf.type)
    BY TaskFacts
  <2> HIDE DEF q
  <2>3. tq'.first = q.first /\ tq'.pend = q.pend
    BY <1>4, <2>1, <2>2, TakenFacts
  <2>4. PendLeft(w, "run")
    BY <1>4, <2>3 DEF PendLeft
  <2>5. LocksWell(w, "run")
    BY <1>2, <1>8 DEF LocksWell
  <2> QED
    BY <1>1, <1>2, <1>4, <1>8, <2>3, <2>4, <2>5, AwakeStep
<1> QED
  BY <1>6, <1>7, <1>8, OuterFacts

\* The end of the search.
LEMMA ScanEndRest ==
  ASSUME ShapeOK, LockOK, UnitsOK, RingOK, SleepOK, NEW w \in Workers, ScanEnd(w)
  PROVE  LockOK' /\ RingOK' /\ SleepOK'
<1> DEFINE p == IF Moves(tq, MAX) THEN "outer" ELSE "park"
<1>1. /\ at[w] = "scan" /\ tq.cur >= NFc /\ tq' = ResetTaskCur(tq, MAX) /\ Go(w, p)
      /\ UNCHANGED <<lock, job, slot, main, flush, calls>>
  BY DEF ScanEnd
<1>2. tq \in Queues /\ at \in [Workers -> Places]
  BY DEF ShapeOK
<1>3. lock = {w} /\ SameSlots
  BY <1>1, SlotsSame DEF LockOK
<1>4. MAX \in Slots \cup {MAX}
  OBVIOUS
<1>5. /\ tq'.first = tq.first /\ tq'.list = tq.list /\ tq'.pend = tq.pend
      /\ ~ Moves(tq, MAX) => tq'.cur = tq.cur
  BY <1>1, <1>2, <1>4, ResetFacts DEF Stays
<1>6. Goes(w, p) /\ \A v \in Workers \ {w} : at'[v] = at[v]
  <2>1. p \in Places
    BY DEF Places
  <2> HIDE DEF p
  <2> QED
    BY <1>1, <1>2, <2>1, GoFacts
<1>7. CASE Moves(tq, MAX)
  <2>1. LocksWell(w, "outer") /\ PendLeft(w, "outer")
    BY <1>1, <1>3 DEF LocksWell, PendLeft
  <2> QED
    BY <1>1, <1>3, <1>5, <1>6, <1>7, <2>1, AwakeStep
<1>8. CASE ~ Moves(tq, MAX)
  <2>1. tq.cur = NFc
    BY <1>1, <1>2, SizeAssumption DEF Queues
  <2>2. at'[w] = "park"
    BY <1>6, <1>8 DEF Goes
  <2>3. LockOK'
    BY <1>1, <1>3, <1>6, <1>8, LockStep DEF LocksWell
  <2>4. RingOK'
    BY <1>1, <1>3, <1>5, RingKept DEF SameSlots
  <2>5. ASSUME NEW s \in Slots, ~ flush, InitReady(tq, s)'
        PROVE  \E v \in Workers : at'[v] \notin {"wait", "scan", "park"}
    <3>1. InitReady(tq, s)
      BY <1>1, <1>5, <2>5, InitReadySame
    <3>2. PICK v \in Workers : at[v] \notin {"wait", "scan", "park"}
      BY <2>5, <3>1 DEF SleepOK
    <3> QED
      BY <1>1, <1>6, <3>2
  <2>6. ASSUME NEW s \in Slots, ~ flush, tq'.pend[s] # {} PROVE \E v \in Workers : at'[v] = "outer"
    <3>1. PICK v \in Workers : at[v] = "outer"
      BY <1>5, <2>6 DEF SleepOK
    <3> QED
      BY <1>1, <1>6, <3>1
  <2>7. SleepOK'
    BY <1>1, <1>5, <1>8, <2>1, <2>2, <2>5, <2>6 DEF SleepOK
  <2> QED
    BY <2>3, <2>4, <2>7
<1> QED
  BY <1>7, <1>8

\* The worker parks: who merged has left nothing to do.
LEMMA ParkingRest ==
  ASSUME ShapeOK, LockOK, UnitsOK, RingOK, SleepOK, NEW w \in Workers, Parking(w)
  PROVE  LockOK' /\ RingOK' /\ SleepOK'
<1>1. at[w] = "park" /\ UNCHANGED <<job, slot, main, flush, calls>>
  BY DEF Parking
<1>2. tq \in Queues /\ at \in [Workers -> Places]
  BY DEF ShapeOK
<1>3. lock = {w} /\ SameSlots
  BY <1>1, SlotsSame DEF LockOK
<1>4. CASE AnyPending(tq)
  <2>1. tq' = MergePending(tq) /\ Go(w, "outer") /\ UNCHANGED lock
    BY <1>4 DEF Parking
  <2>2. tq'.first = tq.first
    BY <1>2, <2>1, MergeFacts
  <2>3. Goes(w, "outer")
    BY <1>2, <2>1, GoFacts DEF Places
  <2>4. LocksWell(w, "outer") /\ PendLeft(w, "outer")
    BY <2>1, <1>3 DEF LocksWell, PendLeft
  <2> QED
    BY <1>1, <1>3, <2>2, <2>3, <2>4, AwakeStep
<1>5. CASE ~ AnyPending(tq)
  <2>1. tq' = Park(w) /\ Go(w, "wait") /\ lock' = {}
    BY <1>5 DEF Parking
  <2>2. /\ tq'.first = tq.first /\ tq'.list = tq.list /\ tq'.pend = tq.pend /\ tq'.cur = tq.cur
        /\ tq'.signaled = FALSE
    BY <1>2, <2>1 DEF Park, Queues
  <2>3. Goes(w, "wait") /\ \A v \in Workers \ {w} : at'[v] = at[v]
    BY <1>2, <2>1, GoFacts DEF Places
  <2>4. LockOK'
    BY <1>3, <2>1, <2>3, LockStep DEF LocksWell
  <2>5. RingOK'
    BY <1>1, <1>3, <2>2, RingKept DEF SameSlots
  <2>6. tq'.cur = NFc
    BY <1>1, <2>2 DEF SleepOK
  <2>7. ASSUME NEW s \in Slots, ~ flush, InitReady(tq, s)'
        PROVE  \E v \in Workers : at'[v] \notin {"wait", "scan", "park"}
    <3>1. InitReady(tq, s)
      BY <1>1, <2>2, <2>7, InitReadySame
    <3>2. PICK v \in Workers : at[v] \notin {"wait", "scan", "park"}
      BY <2>7, <3>1 DEF SleepOK
    <3> QED
      BY <1>1, <2>3, <3>2
  <2>8. \A s \in Slots : tq'.pend[s] = {}
    BY <1>5, <2>2 DEF AnyPending
  <2>9. SleepOK'
    BY <1>1, <2>2, <2>6, <2>7, <2>8 DEF SleepOK
  <2> QED
    BY <2>4, <2>5, <2>9
<1> QED
  BY <1>4, <1>5

\* The worker wakes up.
LEMMA WokenRest ==
  ASSUME ShapeOK, LockOK, UnitsOK, RingOK, SleepOK, NEW w \in Workers, Woken(w)
  PROVE  LockOK' /\ RingOK' /\ SleepOK'
<1>1. /\ at[w] = "woken" /\ lock = {} /\ tq' = ResetTaskCur(tq, MAX) /\ lock' = {w} /\ Go(w, "outer")
      /\ UNCHANGED <<job, slot, main, flush, calls>>
  BY DEF Woken
<1>2. tq \in Queues /\ at \in [Workers -> Places]
  BY DEF ShapeOK
<1>3. MAX \in Slots \cup {MAX}
  OBVIOUS
<1>4. tq'.first = tq.first
  BY <1>1, <1>2, <1>3, ResetFacts
<1>5. Goes(w, "outer")
  BY <1>1, <1>2, GoFacts DEF Places
<1>6. LocksWell(w, "outer") /\ PendLeft(w, "outer") /\ lock \subseteq {w} /\ SameSlots
  BY <1>1, SlotsSame DEF LocksWell, PendLeft
<1> QED
  BY <1>1, <1>4, <1>5, <1>6, AwakeStep

\* The search in a frame: an InitCdf that it finds there is somebody else's to look for.
LEMMA ScanRest ==
  ASSUME ShapeOK, LockOK, UnitsOK, RingOK, SleepOK, NEW w \in Workers, Scan(w)
  PROVE  LockOK' /\ RingOK' /\ SleepOK'
<1> DEFINE c == AtCursor(tq)
           q == MergeFrame(tq, c)
<1>1. /\ at[w] = "scan" /\ tq.cur < NFc /\ UNCHANGED <<slot, main, flush, calls>>
      /\ c \in Slots /\ Ahead(tq, c) = CursorOf(tq)
      /\ \E ts \in After(q, c) :
                  \/ /\ \A t \in ts : ~ Ready(c, t)
                     /\ tq' = Beyond(q, c, ts)
                     /\ lock' = {w} /\ job' = job /\ at' = at
                  \/ \E t \in ts :
                       /\ Ready(c, t) /\ \A u \in ts : Before(u, t) => ~ Ready(c, u)
                       /\ tq' = Taken(Opened(q, c, UpTo(ts, t), NextCols(t)), c, t)
                       /\ lock' = {} /\ job' = [job EXCEPT ![w].slot = c, ![w].task = t]
                       /\ Goes(w, "run")
  BY ScanFacts
<1>2. tq \in Queues /\ at \in [Workers -> Places]
  BY DEF ShapeOK
<1>3. lock = {w} /\ SameSlots
  BY <1>1, SlotsSame DEF LockOK
<1>4. /\ q \in Queues /\ q.first = tq.first /\ q.pend[c] = {}
      /\ flush => q.list[c] = tq.list[c]
      /\ ~ flush => q.list[c] = tq.list[c] \cup tq.pend[c]
      /\ \A x \in Slots : x # c => q.list[x] = tq.list[x] /\ q.pend[x] = tq.pend[x]
      /\ CursorOf(q) <= Ahead(tq, c)
  BY <1>1, <1>2, MergeFrameFacts
<1>5. c \in Slots
  BY <1>1
<1> HIDE DEF c, q
<1>6. q.cur < NFc /\ CursorOf(q) <= Ahead(q, c)
  <2>1. /\ CursorOf(q) = tq.first + q.cur /\ CursorOf(tq) = tq.first + tq.cur
        /\ tq.first \in Nat /\ q.cur \in Nat /\ tq.cur \in Nat
    BY <1>2, <1>4, RingFacts DEF CursorOf
  <2>2. Ahead(q, c) = Ahead(tq, c)
    BY <1>4 DEF Ahead
  <2> QED
    BY <2>1, <2>2, <1>1, <1>4, SizeAssumption
<1>7. PICK ts \in After(q, c) :
                  \/ /\ \A t \in ts : ~ Ready(c, t)
                     /\ tq' = Beyond(q, c, ts)
                     /\ lock' = {w} /\ job' = job /\ at' = at
                  \/ \E t \in ts :
                       /\ Ready(c, t) /\ \A u \in ts : Before(u, t) => ~ Ready(c, u)
                       /\ tq' = Taken(Opened(q, c, UpTo(ts, t), NextCols(t)), c, t)
                       /\ lock' = {} /\ job' = [job EXCEPT ![w].slot = c, ![w].task = t]
                       /\ Goes(w, "run")
  BY <1>1
<1>8. ts \subseteq Tasks /\ ts \subseteq q.list[c] /\ ts \in After(q, c)
  <2>1. q \in Queues /\ ts \in After(q, c)
    BY <1>4
  <2> QED
    BY ONLY <1>5, <2>1, AfterFacts
<1>9. CASE tq' = Beyond(q, c, ts) /\ lock' = {w} /\ at' = at
  <2>1. tq'.first = q.first /\ tq'.list = q.list /\ tq'.pend = q.pend
    <3>1. q \in Queues
      BY <1>4
    <3>2. LET n == Beyond(q, c, ts) IN n.first = q.first /\ n.list = q.list /\ n.pend = q.pend
      BY ONLY <3>1, <1>5, <1>6, <1>8, PassFacts
    <3> QED
      BY <1>9, <3>2
  <2>2. Goes(w, "scan")
    BY <1>1, <1>2, <1>9 DEF Goes
  <2>3. LockOK'
    BY <1>3, <1>9, <2>2, LockStep DEF LocksWell
  <2>4. RingOK'
    BY <1>1, <1>3, <1>4, <2>1, RingKept DEF SameSlots
  <2>5. ASSUME NEW s \in Slots, ~ flush, tq'.pend[s] # {} PROVE \E v \in Workers : at'[v] = "outer"
    <3>1. tq.pend[s] # {}
      BY <1>4, <2>1, <2>5
    <3> QED
      BY <1>9, <2>5, <3>1 DEF SleepOK
  <2>6. ASSUME NEW s \in Slots, ~ flush, InitReady(tq, s)'
        PROVE  \E v \in Workers : at'[v] \notin {"wait", "scan", "park"}
    <3>1. CASE s = c /\ tq.pend[s] # {}
      <4>1. PICK v \in Workers : at[v] = "outer"
        BY <2>6, <3>1 DEF SleepOK
      <4> QED
        BY <1>9, <4>1
    <3>2. CASE tq'.list[s] = tq.list[s]
      <4>1. InitReady(tq, s)
        BY <1>1, <2>6, <3>2, InitReadySame
      <4> QED
        BY <1>9, <2>6, <4>1 DEF SleepOK
    <3> QED
      BY <1>4, <2>1, <2>6, <3>1, <3>2
  <2>7. \A v \in Workers : at'[v] # "park"
    BY <1>1, <1>3, <1>9 DEF LockOK
  <2>8. SleepOK'
    BY <1>1, <1>9, <2>5, <2>6, <2>7 DEF SleepOK
  <2> QED
    BY <2>3, <2>4, <2>8
<1>10. CASE \E t \in ts :
              /\ tq' = Taken(Opened(q, c, UpTo(ts, t), NextCols(t)), c, t)
              /\ lock' = {} /\ Goes(w, "run")
  <2>1. PICK t \in ts : /\ tq' = Taken(Opened(q, c, UpTo(ts, t), NextCols(t)), c, t)
                        /\ lock' = {} /\ Goes(w, "run")
    BY <1>10
  <2> DEFINE E == UpTo(ts, t)
             ns == NextCols(t)
             x == Opened(q, c, E, ns)
             n == Taken(x, c, t)
  <2>2. t \in Tasks /\ E \in SUBSET Tasks
    BY <1>8 DEF UpTo
  <2>3. ns \in SUBSET Tasks
    BY <2>2, NextColsFacts
  <2>4. /\ x \in Queues /\ x.first = q.first /\ x.pend = q.pend
        /\ \A d \in Slots : d # c => x.list[d] = q.list[d]
        /\ flush => x.list[c] = q.list[c]
        /\ ~ flush => x.list[c] = q.list[c] \cup ns
        /\ CursorOf(x) <= Ahead(x, c)
    <3>1. q \in Queues /\ E \in SUBSET Tasks /\ ns \in SUBSET Tasks /\ CursorOf(q) <= Ahead(q, c)
      BY <1>4, <1>6, <2>2, <2>3
    <3> HIDE DEF E, ns
    <3> QED
      BY ONLY <3>1, <1>5, OpenFacts
  <2> HIDE DEF E, ns, x
  <2>5. n.first = x.first /\ n.pend = x.pend
    <3>1. x \in Queues /\ (t.type > InitCdf.type => CursorOf(x) <= Ahead(x, c))
      BY <2>4
    <3> QED
      BY ONLY <1>5, <2>2, <3>1, TakenFacts
  <2>6. tq' = n
    BY <2>1 DEF E, ns, x
  <2> HIDE DEF n
  <2>7. PendLeft(w, "run")
    BY <1>1, <1>4, <2>4, <2>5, <2>6 DEF PendLeft
  <2>8. LocksWell(w, "run")
    BY <1>3, <2>1 DEF LocksWell
  <2> QED
    BY <1>1, <1>3, <1>4, <2>1, <2>4, <2>5, <2>6, <2>7, <2>8, AwakeStep
<1> QED
  BY <1>7, <1>9, <1>10

\* What AddPending does.
LEMMA AddPendingFacts ==
  ASSUME NEW q, q \in Queues, NEW s, NEW ts
  PROVE  LET p == AddPending(q, s, ts) IN p.first = q.first /\ p.cur = q.cur
  BY DEF AddPending, Queues

\* A worker with a task goes on to p.
LEMMA HandRest ==
  ASSUME ShapeOK, LockOK, RingOK, SleepOK, NEW w \in Workers, at[w] \in Hands, NEW p, Goes(w, p),
         p \in Hands \cup {"outer"}, UNCHANGED <<main, flush, calls>>, SameSlots,
         tq'.first = tq.first, p = "outer" \/ tq'.pend = tq.pend,
         (lock' = lock /\ tq'.cur = tq.cur) \/ (lock = {} /\ lock' = {w} /\ p = "outer")
  PROVE  LockOK' /\ RingOK' /\ SleepOK'
<1>1. at[w] \notin {"outer", "scan", "park"} /\ p \notin {"wait", "scan", "park"} /\ w \notin lock
  BY DEF Hands, Posting, LockOK
<1>2. PendLeft(w, p)
  BY <1>1 DEF PendLeft
<1>3. LocksWell(w, p)
  BY <1>1 DEF LocksWell
<1>4. tq'.cur = tq.cur \/ lock \subseteq {w}
  OBVIOUS
<1> QED
  BY <1>1, <1>2, <1>3, <1>4, AwakeStep

\* The worker of a task that only changes its frame.
LEMMA FramesSame ==
  ASSUME ShapeOK, NEW s \in Slots, NEW r,
         \/ slot' = [slot EXCEPT ![s].initDone = TRUE]
         \/ slot' = [slot EXCEPT ![s].tiles = r]
         \/ slot' = [slot EXCEPT ![s].tiles = Sbh, ![s].cdf = TRUE, ![s].counter = @ - 1]
         \/ slot' = [slot EXCEPT ![s].deblock = r]
         \/ slot' = [slot EXCEPT ![s].done = @ \cup {r}]
         \/ ~ slot[s].finished /\ slot' = [slot EXCEPT ![s] = Count(@, r)]
  PROVE  SameSlots
<1> DEFINE f == slot[s]
           T == slot'
<1>1. slot \in [Slots -> Frames] /\ f \in Frames
  BY DEF ShapeOK
<1>2. PICK g : T = [slot EXCEPT ![s] = g] /\ SameFrame(f, g)
  <2>1. CASE T = [slot EXCEPT ![s] = [f EXCEPT !.initDone = TRUE]]
    BY <1>1, <2>1 DEF SameFrame, Frames
  <2>2. CASE T = [slot EXCEPT ![s] = [f EXCEPT !.tiles = r]]
    BY <1>1, <2>2 DEF SameFrame, Frames
  <2>3. CASE T = [slot EXCEPT ![s] = [f EXCEPT !.tiles = Sbh, !.cdf = TRUE, !.counter = @ - 1]]
    BY <1>1, <2>3 DEF SameFrame, Frames
  <2>4. CASE T = [slot EXCEPT ![s] = [f EXCEPT !.deblock = r]]
    BY <1>1, <2>4 DEF SameFrame, Frames
  <2>5. CASE T = [slot EXCEPT ![s] = [f EXCEPT !.done = @ \cup {r}]]
    BY <1>1, <2>5 DEF SameFrame, Frames
  <2>6. CASE ~ f.finished /\ T = [slot EXCEPT ![s] = Count(f, r)]
    <3> DEFINE g == Count(f, r)
    <3>1. SameFrame(f, g)
      BY <1>1, <2>6 DEF SameFrame, Frames, Count
    <3> HIDE DEF g
    <3>2. T = [slot EXCEPT ![s] = g]
      BY <2>6 DEF g
    <3> QED
      BY <3>1, <3>2
  <2> QED
    BY <1>1, <2>1, <2>2, <2>3, <2>4, <2>5, <2>6
<1> QED
  BY <1>1, <1>2 DEF SameSlots, SameFrame

\* The types of what a worker with a task uses.
LEMMA JobFacts ==
  ASSUME ShapeOK, NEW w \in Workers
  PROVE  /\ tq \in Queues /\ at \in [Workers -> Places] /\ Of(w) \in Slots
         /\ "outer" \in Places /\ "run" \in Places /\ "async" \in Places /\ "swap" \in Places
         /\ "signal" \in Places /\ "publish" \in Places /\ "leave" \in Places
         /\ "run" \in Hands /\ "async" \in Hands /\ "swap" \in Hands /\ "signal" \in Hands
         /\ "publish" \in Hands /\ "leave" \in Hands
  BY DEF ShapeOK, Jobs, Of, Places, Hands, Posting

\* The tasks, one after the other.
LEMMA RunInitCdfRest ==
  ASSUME ShapeOK, LockOK, UnitsOK, RingOK, SleepOK, NEW w \in Workers, RunInitCdf(w)
  PROVE  LockOK' /\ RingOK' /\ SleepOK'
<1>1. /\ at[w] = "run" /\ Go(w, "outer") /\ UNCHANGED <<lock, main, flush, calls>>
      /\ tq' = AddPending(tq, Of(w), {Tile(0), DeblockCols(0)})
      /\ slot' = [slot EXCEPT ![Of(w)].initDone = TRUE]
  BY DEF RunInitCdf, Runs
<1>2. /\ tq \in Queues /\ at \in [Workers -> Places] /\ Of(w) \in Slots /\ at[w] \in Hands
  BY <1>1, JobFacts
<1>3. Goes(w, "outer")
  BY <1>1, <1>2, GoFacts, JobFacts
<1>4. SameSlots
  BY <1>1, <1>2, FramesSame
<1>5. tq'.first = tq.first /\ tq'.cur = tq.cur
  BY <1>1, <1>2, AddPendingFacts
<1> QED
  BY <1>1, <1>2, <1>3, <1>4, <1>5, HandRest

LEMMA RunTileRest ==
  ASSUME ShapeOK, LockOK, UnitsOK, RingOK, SleepOK, NEW w \in Workers, RunTile(w)
  PROVE  LockOK' /\ RingOK' /\ SleepOK'
<1>1. /\ at[w] = "run" /\ Go(w, "outer") /\ UNCHANGED <<lock, main, flush, calls>>
      /\ tq' = AddPending(tq, Of(w), {Tile(Task(w).row + 1)})
      /\ slot' = [slot EXCEPT ![Of(w)].tiles = Task(w).row + 1]
  BY DEF RunTile, Runs
<1>2. /\ tq \in Queues /\ at \in [Workers -> Places] /\ Of(w) \in Slots /\ at[w] \in Hands
  BY <1>1, JobFacts
<1>3. Goes(w, "outer")
  BY <1>1, <1>2, GoFacts, JobFacts
<1>4. SameSlots
  BY <1>1, <1>2, FramesSame
<1>5. tq'.first = tq.first /\ tq'.cur = tq.cur
  BY <1>1, <1>2, AddPendingFacts
<1> QED
  BY <1>1, <1>2, <1>3, <1>4, <1>5, HandRest

LEMMA RunInitRest ==
  ASSUME ShapeOK, LockOK, UnitsOK, RingOK, SleepOK, NEW w \in Workers, RunInit(w)
  PROVE  LockOK' /\ RingOK' /\ SleepOK'
<1>1. /\ at[w] = "run" /\ UNCHANGED <<slot, lock, main, flush, calls>>
      /\ \/ UNCHANGED <<tq, at>>
         \/ tq' = AddPending(tq, Of(w), {InitCdf}) /\ Go(w, "outer")
  BY DEF RunInit, Runs
<1>2. /\ tq \in Queues /\ at \in [Workers -> Places] /\ Of(w) \in Slots /\ at[w] \in Hands
  BY <1>1, JobFacts
<1>3. SameSlots
  BY <1>1, SlotsSame
<1>4. CASE UNCHANGED <<tq, at>>
  <2>1. Goes(w, "run")
    BY <1>1, <1>2, <1>4 DEF Goes
  <2> QED
    BY <1>1, <1>2, <1>3, <1>4, <2>1, HandRest
<1>5. CASE tq' = AddPending(tq, Of(w), {InitCdf}) /\ Go(w, "outer")
  <2>1. Goes(w, "outer")
    BY <1>2, <1>5, GoFacts, JobFacts
  <2>2. tq'.first = tq.first /\ tq'.cur = tq.cur
    BY <1>2, <1>5, AddPendingFacts
  <2> QED
    BY <1>1, <1>2, <1>3, <2>1, <2>2, HandRest
<1> QED
  BY <1>1, <1>4, <1>5

LEMMA RunColsRest ==
  ASSUME ShapeOK, LockOK, UnitsOK, RingOK, SleepOK, NEW w \in Workers, RunCols(w)
  PROVE  LockOK' /\ RingOK' /\ SleepOK'
<1>1. /\ at[w] = "run" /\ UNCHANGED <<slot, lock, main, flush, calls>>
      /\ \/ UNCHANGED <<tq, at>>
         \/ tq' = AddPending(tq, Of(w), {DeblockRows(Task(w).row)}) /\ Go(w, "outer")
  BY DEF RunCols, Runs
<1>2. /\ tq \in Queues /\ at \in [Workers -> Places] /\ Of(w) \in Slots /\ at[w] \in Hands
  BY <1>1, JobFacts
<1>3. SameSlots
  BY <1>1, SlotsSame
<1>4. CASE UNCHANGED <<tq, at>>
  <2>1. Goes(w, "run")
    BY <1>1, <1>2, <1>4 DEF Goes
  <2> QED
    BY <1>1, <1>2, <1>3, <1>4, <2>1, HandRest
<1>5. CASE tq' = AddPending(tq, Of(w), {DeblockRows(Task(w).row)}) /\ Go(w, "outer")
  <2>1. Goes(w, "outer")
    BY <1>2, <1>5, GoFacts, JobFacts
  <2>2. tq'.first = tq.first /\ tq'.cur = tq.cur
    BY <1>2, <1>5, AddPendingFacts
  <2> QED
    BY <1>1, <1>2, <1>3, <2>1, <2>2, HandRest
<1> QED
  BY <1>1, <1>4, <1>5

LEMMA RunRowsRest ==
  ASSUME ShapeOK, LockOK, UnitsOK, RingOK, SleepOK, NEW w \in Workers, RunRows(w)
  PROVE  LockOK' /\ RingOK' /\ SleepOK'
<1>1. /\ at[w] = "run" /\ Go(w, "async") /\ UNCHANGED <<tq, lock, main, flush, calls>>
      /\ slot' = [slot EXCEPT ![Of(w)].deblock = Task(w).row + 1]
  BY DEF RunRows, Runs
<1>2. /\ tq \in Queues /\ at \in [Workers -> Places] /\ Of(w) \in Slots /\ at[w] \in Hands
  BY <1>1, JobFacts
<1>3. Goes(w, "async") /\ "async" \in Hands
  BY <1>1, <1>2, GoFacts, JobFacts
<1>4. SameSlots
  BY <1>1, <1>2, FramesSame
<1> QED
  BY <1>1, <1>2, <1>3, <1>4, HandRest

LEMMA PublishRest ==
  ASSUME ShapeOK, LockOK, UnitsOK, RingOK, SleepOK, NEW w \in Workers, Publish(w)
  PROVE  LockOK' /\ RingOK' /\ SleepOK'
<1>1. /\ at[w] = "publish" /\ Go(w, "leave") /\ UNCHANGED <<tq, lock, main, flush, calls>>
      /\ slot' = [slot EXCEPT ![Of(w)].done = @ \cup {Task(w).row}]
  BY DEF Publish
<1>2. /\ tq \in Queues /\ at \in [Workers -> Places] /\ Of(w) \in Slots /\ at[w] \in Hands
  BY <1>1, JobFacts
<1>3. Goes(w, "leave") /\ "leave" \in Hands
  BY <1>1, <1>2, GoFacts, JobFacts
<1>4. SameSlots
  BY <1>1, <1>2, FramesSame
<1> QED
  BY <1>1, <1>2, <1>3, <1>4, HandRest

LEMMA AsyncFirstRest ==
  ASSUME ShapeOK, LockOK, UnitsOK, RingOK, SleepOK, NEW w \in Workers, AsyncFirst(w)
  PROVE  LockOK' /\ RingOK' /\ SleepOK'
<1>1. /\ at[w] = "async" /\ Go(w, "swap") /\ UNCHANGED <<tq, lock, main, flush, calls>>
      /\ slot' = slot
  BY DEF AsyncFirst
<1>2. /\ tq \in Queues /\ at \in [Workers -> Places] /\ Of(w) \in Slots /\ at[w] \in Hands
  BY <1>1, JobFacts
<1>3. Goes(w, "swap") /\ "swap" \in Hands
  BY <1>1, <1>2, GoFacts, JobFacts
<1>4. SameSlots
  BY <1>1, <1>2, SlotsSame
<1> QED
  BY <1>1, <1>2, <1>3, <1>4, HandRest

LEMMA AsyncSwapRest ==
  ASSUME ShapeOK, LockOK, UnitsOK, RingOK, SleepOK, NEW w \in Workers, AsyncSwap(w)
  PROVE  LockOK' /\ RingOK' /\ SleepOK'
<1>1. /\ at[w] = "swap" /\ UNCHANGED <<slot, lock, main, flush, calls>>
      /\ tq' = [tq EXCEPT !.reset = job[w].idx] /\ (UNCHANGED at \/ Go(w, "signal"))
  BY DEF AsyncSwap
<1>2. /\ tq \in Queues /\ at \in [Workers -> Places] /\ Of(w) \in Slots /\ at[w] \in Hands
  BY <1>1, JobFacts
<1>3. /\ SameSlots
      /\ tq'.first = tq.first /\ tq'.cur = tq.cur /\ tq'.pend = tq.pend
  BY <1>1, <1>2, SlotsSame DEF Queues
<1>4. CASE UNCHANGED at
  <2>1. Goes(w, "swap")
    BY <1>1, <1>2, <1>4 DEF Goes
  <2> QED
    BY <1>1, <1>2, <1>3, <2>1, HandRest
<1>5. CASE Go(w, "signal")
  <2>1. Goes(w, "signal") /\ "signal" \in Hands
    BY <1>2, <1>5, GoFacts, JobFacts
  <2> QED
    BY <1>1, <1>2, <1>3, <2>1, HandRest
<1> QED
  BY <1>1, <1>4, <1>5

LEMMA AsyncSignalRest ==
  ASSUME ShapeOK, LockOK, UnitsOK, RingOK, SleepOK, NEW w \in Workers, AsyncSignal(w)
  PROVE  LockOK' /\ RingOK' /\ SleepOK'
<1> DEFINE q == TakenBack(w, tq)
<1>1. at[w] = "signal" /\ UNCHANGED <<slot, lock, main, flush, calls>> /\ Signal(w, "publish", q)
  BY DEF AsyncSignal
<1>2. /\ tq \in Queues /\ at \in [Workers -> Places] /\ Of(w) \in Slots /\ at[w] \in Hands
  BY <1>1, JobFacts
<1>3. q.first = tq.first /\ q.cur = tq.cur /\ q.pend = tq.pend
  BY <1>2 DEF TakenBack, Queues
<1> HIDE DEF q
<1>4. Goes(w, "publish") /\ tq' = [q EXCEPT !.signaled = TRUE] /\ "publish" \in Hands
  BY <1>1, <1>2, SignalFacts, JobFacts
<1>5. q \in Queues
  <2>1. MAX \in 0 .. MAX
    BY SizeAssumption DEF MAX
  <2> QED
    BY <1>2, <2>1 DEF q, TakenBack, Queues
<1>6. SameSlots /\ tq'.first = tq.first /\ tq'.cur = tq.cur /\ tq'.pend = tq.pend
  BY <1>1, <1>3, <1>4, <1>5, SlotsSame DEF Queues
<1> QED
  BY <1>1, <1>2, <1>4, <1>6, HandRest

LEMMA RunLastTileRest ==
  ASSUME ShapeOK, LockOK, UnitsOK, RingOK, SleepOK, NEW w \in Workers, RunLastTile(w)
  PROVE  LockOK' /\ RingOK' /\ SleepOK'
<1> DEFINE q == ResetTaskCur(tq, Of(w))
<1>1. /\ at[w] = "run" /\ lock = {} /\ lock' = {w} /\ UNCHANGED <<main, flush, calls>>
      /\ slot' = [slot EXCEPT ![Of(w)].tiles = Sbh, ![Of(w)].cdf = TRUE, ![Of(w)].counter = @ - 1]
      /\ Signal(w, "outer", q)
  BY DEF RunLastTile, Runs
<1>2. /\ tq \in Queues /\ at \in [Workers -> Places] /\ Of(w) \in Slots /\ at[w] \in Hands
  BY <1>1, JobFacts
<1>3. Of(w) \in Slots \cup {MAX}
  BY <1>2
<1>4. q \in Queues /\ q.first = tq.first
  BY <1>2, <1>3, ResetFacts
<1> HIDE DEF q
<1>5. Goes(w, "outer") /\ tq' = [q EXCEPT !.signaled = TRUE]
  BY <1>1, <1>2, SignalFacts, JobFacts
<1>6. SameSlots
  BY <1>1, <1>2, FramesSame
<1>7. tq'.first = tq.first
  BY <1>4, <1>5 DEF Queues
<1> QED
  BY <1>1, <1>2, <1>5, <1>6, <1>7, HandRest

\* A worker has a task only of a frame in progress.
LEMMA BusyFacts ==
  ASSUME ShapeOK, UnitsOK, NEW w \in Workers, at[w] = "leave"
  PROVE  ~ slot[Of(w)].finished
<1>1. Of(w) \in Slots /\ UnitAt(tq, at, job, slot, Of(w))
  BY JobFacts DEF UnitsOK, UnitsOf
<1>2. In(at, job, {"leave"}, Of(w)) # {}
  BY DEF In, Of
<1> QED
  BY <1>1, <1>2 DEF UnitAt, Unit, StagesIn

LEMMA LeaveRest ==
  ASSUME ShapeOK, LockOK, UnitsOK, RingOK, SleepOK, NEW w \in Workers, Leave(w)
  PROVE  LockOK' /\ RingOK' /\ SleepOK'
<1>1. /\ at[w] = "leave" /\ lock = {} /\ lock' = {w} /\ UNCHANGED <<main, flush, calls>>
      /\ slot' = [slot EXCEPT ![Of(w)] = Count(@, RowsOut(Of(w)) = Sbh)]
      /\ tq' = ResetTaskCur(tq, Of(w)) /\ Go(w, "outer")
  BY DEF Leave
<1>2. /\ tq \in Queues /\ at \in [Workers -> Places] /\ Of(w) \in Slots /\ at[w] \in Hands
  BY <1>1, JobFacts
<1>3. Of(w) \in Slots \cup {MAX}
  BY <1>2
<1>4. tq'.first = tq.first
  BY <1>1, <1>2, <1>3, ResetFacts
<1>5. Goes(w, "outer")
  BY <1>1, <1>2, GoFacts, JobFacts
<1>6. ~ slot[Of(w)].finished
  BY <1>1, <1>2, BusyFacts
<1>7. SameSlots
  BY <1>1, <1>2, <1>6, FramesSame
<1> QED
  BY <1>1, <1>2, <1>4, <1>5, <1>7, HandRest

\* The rest of what a step of a worker keeps.
LEMMA WorkerRest ==
  ASSUME ShapeOK, LockOK, UnitsOK, RingOK, SleepOK, NEW w \in Workers, Worker(w)
  PROVE  LockOK' /\ RingOK' /\ SleepOK'
  BY OuterRest, ScanRest, ScanEndRest, ParkingRest, WokenRest, RunInitRest, RunInitCdfRest,
     RunTileRest, RunLastTileRest, RunColsRest, RunRowsRest, AsyncFirstRest, AsyncSwapRest,
     AsyncSignalRest, PublishRest, LeaveRest DEF Worker

(***************************************************************************)
(* The lock and the sleep of the workers when the caller does a step.      *)
(***************************************************************************)
LEMMA GiveUpQueue ==
  ASSUME tq \in Queues, NEW s \in Slots
  PROVE  LET p == GiveUp(s)
         IN  /\ p \in Queues /\ p.list = tq.list /\ p.pend = tq.pend /\ p.signaled = tq.signaled
             /\ tq.cur = NFc => p.cur = NFc
<1> DEFINE a == AdvanceFirst(tq)
<1>1. /\ a \in Queues /\ a.list = tq.list /\ a.pend = tq.pend /\ a.signaled = tq.signaled
      /\ a.cur = (IF tq.cur # 0 /\ tq.cur < NFc THEN tq.cur - 1 ELSE tq.cur)
  BY AdvanceFacts
<1>2. tq.cur = NFc => a.cur = NFc
  BY <1>1, SizeAssumption
<1>3. GiveUp(s) = IF Used(s) THEN a ELSE tq
  BY DEF GiveUp
<1> HIDE DEF a
<1> QED
  BY <1>1, <1>2, <1>3

\* The workers do not move while the caller does a step under ttd.lock.
LEMMA CallerLock ==
  ASSUME ShapeOK, LockOK, UNCHANGED lock,
         \A v \in Workers : at'[v] = at[v] \/ (at[v] = "wait" /\ at'[v] = "woken")
  PROVE  LockOK'
<1>1. lock \subseteq Workers
  BY DEF ShapeOK
<1> QED
  BY <1>1 DEF LockOK

\* A frame that was decoded has its CDF: if it is no more in its slot nobody waits less.
LEMMA CdfStays ==
  ASSUME ShapeOK, UnitsOK, NEW s \in Slots, slot[s].finished, NEW g \in Frames,
         g.initDone, slot' = With(slot, s, g), g.frame = 0,
         NEW x \in Slots, InitReady(tq, x)', tq'.list = tq.list
  PROVE  InitReady(tq, x)
<1> DEFINE T == slot'
<1>1. slot \in [Slots -> Frames] /\ T[s] = g /\ \A y \in Slots : y # s => T[y] = slot[y]
  BY WithFacts DEF ShapeOK
<1>2. slot[s].frame # 0 => slot[s].cdf
  BY DEF UnitsOK, UnitsOf, UnitAt, Unit, CountIn
<1>3. x # s /\ ~ slot[x].initDone
  BY <1>1 DEF InitReady
<1>4. ASSUME \A p \in Slots : T[x].ref # 0 /\ T[p].frame = T[x].ref => T[p].cdf
      PROVE  CdfReady(x)
  <2>1. T[x] = slot[x]
    BY <1>1, <1>3
  <2>2. ASSUME NEW p \in Slots, slot[x].ref # 0, slot[p].frame = slot[x].ref PROVE slot[p].cdf
    <3>1. CASE p = s
      BY <1>2, <2>2, <3>1
    <3>2. CASE p # s
      BY <1>1, <1>4, <2>1, <2>2, <3>2
    <3> QED
      BY <3>1, <3>2
  <2> QED
    BY <2>2 DEF CdfReady, RefIn
<1>5. CdfReady(x)' => \A p \in Slots : T[x].ref # 0 /\ T[p].frame = T[x].ref => T[p].cdf
  BY DEF CdfReady, RefIn
<1> QED
  BY <1>3, <1>4, <1>5 DEF InitReady

\* The frame that was in the slot has its CDF: nobody waits for less because it is gone.
LEMMA EmptiedRest ==
  ASSUME ShapeOK, LockOK, UnitsOK, SleepOK, slot[main.next].finished, lock = {},
         NEW g, IsEmpty(g), Emptied(main.next, g), UNCHANGED <<lock, flush>>
  PROVE  LockOK' /\ SleepOK'
<1> DEFINE s == main.next
<1>1. tq' = GiveUp(s) /\ slot' = With(slot, s, g) /\ at' = at
  BY DEF Emptied
<1>2. tq \in Queues /\ s \in Slots
  BY DEF ShapeOK, Mains
<1>3. g \in Frames /\ g.initDone /\ g.frame = 0
  BY DEF IsEmpty
<1> HIDE DEF s
<1>4. /\ tq'.list = tq.list /\ tq'.pend = tq.pend /\ tq'.signaled = tq.signaled
      /\ tq.cur = NFc => tq'.cur = NFc
  BY <1>1, <1>2, GiveUpQueue
<1>5. slot[s].finished
  BY DEF s
<1>6. \A x \in Slots : InitReady(tq, x)' => InitReady(tq, x)
  BY <1>1, <1>2, <1>3, <1>4, <1>5, CdfStays
<1>7. SleepOK'
  BY <1>1, <1>4, <1>6 DEF SleepOK
<1>8. LockOK'
  BY <1>1, CallerLock
<1> QED
  BY <1>7, <1>8

\* Somebody is awake after a frame was accepted.
LEMMA AcceptRest ==
  ASSUME ShapeOK, LockOK, SleepOK, NEW frame, NEW ref,
         Accept(main.next, frame, ref, Insert(GiveUp(main.next), main.next, {InitTask})), lock = {},
         UNCHANGED <<lock, flush>>
  PROVE  LockOK' /\ SleepOK'
<1> DEFINE s == main.next
           p == GiveUp(s)
           i == Insert(p, s, {InitTask})
<1>1. tq' = [i EXCEPT !.signaled = TRUE] /\ (IF i.signaled THEN UNCHANGED at ELSE NotifyOne)
  BY DEF Accept
<1>2. tq \in Queues /\ s \in Slots /\ at \in [Workers -> Places]
  BY DEF ShapeOK, Mains
<1>3. /\ p \in Queues /\ p.pend = tq.pend /\ p.signaled = tq.signaled
  BY <1>2, GiveUpQueue
<1>4. {InitTask} \subseteq Tasks /\ {InitTask} # {}
  BY TaskFacts
<1> HIDE DEF s, p
<1>5. i \in Queues /\ i.pend = p.pend /\ i.signaled = p.signaled
  <2> DEFINE ns == {InitTask}
  <2>1. ns \subseteq Tasks /\ ns # {}
    BY <1>4
  <2>2. i = Insert(p, s, ns)
    OBVIOUS
  <2> HIDE DEF ns, i
  <2> QED
    BY <1>2, <1>3, <2>1, <2>2, InsertFacts
<1> HIDE DEF i
<1>6. \A v \in Workers : at'[v] = at[v] \/ (at[v] = "wait" /\ at'[v] = "woken")
  BY <1>1, <1>2, NotifyOneFacts
<1>7. \A v \in Workers : at'[v] \notin {"scan", "park"}
  BY <1>6 DEF LockOK
<1>8. \E v \in Workers : at'[v] # "wait"
  <2>1. CASE i.signaled
    BY <1>1, <1>3, <1>5, <2>1 DEF SleepOK
  <2>2. CASE ~ i.signaled /\ Sleeping = {}
    BY <1>1, <2>2, WorkersAssumption DEF NotifyOne, Sleeping
  <2>3. CASE ~ i.signaled /\ Sleeping # {}
    <3>1. PICK v \in Sleeping : at' = [at EXCEPT ![v] = "woken"]
      BY <1>1, <2>3 DEF NotifyOne
    <3> QED
      BY <1>2, <3>1 DEF Sleeping
  <2> QED
    BY <2>1, <2>2, <2>3
<1>9. tq'.pend = tq.pend
  BY <1>1, <1>3, <1>5 DEF Queues
<1>10. ASSUME NEW x \in Slots, ~ flush, tq'.pend[x] # {} PROVE \E v \in Workers : at'[v] = "outer"
  <2>1. PICK v \in Workers : at[v] = "outer"
    BY <1>9, <1>10 DEF SleepOK
  <2> QED
    BY <1>6, <2>1
<1>11. \E v \in Workers : at'[v] \notin {"wait", "scan", "park"}
  BY <1>7, <1>8
<1>12. SleepOK'
  BY <1>7, <1>8, <1>10, <1>11 DEF SleepOK
<1>13. LockOK'
  BY <1>6, CallerLock
<1> QED
  BY <1>12, <1>13

\* drain_picture changes nothing that a worker waits for.
LEMMA DrainSlotRest ==
  ASSUME ShapeOK, LockOK, UnitsOK, SleepOK, DrainSlot
  PROVE  LockOK' /\ SleepOK'
<1> DEFINE s == main.next
<1>1. /\ tq' = GiveUp(s) /\ slot' = [slot EXCEPT ![s].held = FALSE]
      /\ UNCHANGED <<lock, at, job, flush, calls>>
  BY DEF DrainSlot
<1>2. tq \in Queues /\ s \in Slots /\ slot \in [Slots -> Frames]
  BY DEF ShapeOK, Mains
<1> HIDE DEF s
<1>3. /\ tq'.list = tq.list /\ tq'.pend = tq.pend /\ tq'.signaled = tq.signaled
      /\ tq.cur = NFc => tq'.cur = NFc
  BY <1>1, <1>2, GiveUpQueue
<1> DEFINE T == slot'
<1>4. \A x \in Slots : /\ T[x].initDone = slot[x].initDone /\ T[x].ref = slot[x].ref
                       /\ T[x].frame = slot[x].frame /\ T[x].cdf = slot[x].cdf
  BY <1>1, <1>2 DEF Frames
<1>5. ASSUME NEW x \in Slots, InitReady(tq, x)' PROVE InitReady(tq, x)
  <2>1. CdfReady(x)' => CdfReady(x)
    BY <1>4 DEF CdfReady, RefIn
  <2> QED
    BY <1>3, <1>4, <1>5, <2>1 DEF InitReady
<1>6. SleepOK'
  BY <1>1, <1>3, <1>5 DEF SleepOK
<1>7. LockOK'
  BY <1>1, CallerLock
<1> QED
  BY <1>6, <1>7

\* A step of the caller.
LEMMA CallerRest ==
  ASSUME ShapeOK, LockOK, UnitsOK, SleepOK, Caller
  PROVE  LockOK' /\ SleepOK'
<1>1. CASE Submit
  <2>1. slot[main.next].finished /\ lock = {} /\ UNCHANGED <<lock, flush>>
    BY <1>1 DEF Submit
  <2>2. CASE Reject(main.next) \/ ShowExisting(main.next)
    <3>1. PICK g : IsEmpty(g) /\ Emptied(main.next, g)
      BY <2>2, EmptiedFacts DEF ShapeOK, Mains
    <3> QED
      BY <2>1, <3>1, EmptiedRest
  <2>3. CASE \E ref \in References :
               Accept(main.next, calls.frames + 1, ref, Insert(GiveUp(main.next), main.next, {InitTask}))
    BY <2>1, <2>3, AcceptRest
  <2> QED
    BY <1>1, <2>2, <2>3 DEF Submit
<1>2. CASE BeginDrain
  <2>1. UNCHANGED <<tq, lock, at, job, slot, flush>>
    BY <1>2 DEF BeginDrain
  <2>2. \A x \in Slots : InitReady(tq, x)' => InitReady(tq, x)
    BY <2>1, InitReadySame
  <2> QED
    BY <2>1, <2>2 DEF LockOK, SleepOK
<1>3. CASE DrainSlot
  BY <1>3, DrainSlotRest
<1>4. CASE BeginFlush
  BY <1>4 DEF BeginFlush, LockOK, SleepOK
<1>5. CASE EndFlush
  <2>1. /\ tq' = EmptyQueue /\ slot' = [s \in Slots |-> [NoFrame EXCEPT !.error = slot[s].error]]
        /\ UNCHANGED <<lock, at>> /\ \A w \in Workers : at[w] \in {"wait", "woken"}
    BY <1>5 DEF EndFlush
  <2>2. \A x \in Slots : slot'[x].initDone
    BY <2>1, NoFrameFacts DEF Frames
  <2>3. /\ tq'.signaled = FALSE /\ tq'.cur = NFc /\ \A x \in Slots : tq'.pend[x] = {} /\ ~ InitReady(tq, x)'
    BY <2>1, <2>2, EmptyQueueFacts DEF InitReady
  <2> QED
    BY <2>1, <2>3 DEF LockOK, SleepOK
<1> QED
  BY <1>1, <1>2, <1>3, <1>4, <1>5 DEF Caller

\* What holds as long as the frames are in order; and that the clients of Orderly keep
\* them so.
SearchInv == ShapeOK /\ LockOK /\ UnitsOK /\ RingOK /\ SearchOK /\ SleepOK

IInv == (Orderly => ordered) /\ (ordered => SearchInv)

\* The invariant holds at the start, ...
LEMMA InitInv ==
  ASSUME Init
  PROVE  IInv
<1> DEFINE e == [s \in Slots |-> FALSE]
<1>1. /\ tq = EmptyQueue /\ lock = {} /\ at = [w \in Workers |-> "outer"]
      /\ job = [w \in Workers |-> [slot |-> 0, task |-> NoTask, idx |-> MAX, first |-> 0]]
      /\ slot = [s \in Slots |-> NoFrame]
      /\ main = [in |-> "idle", next |-> 0, left |-> 0, drained |-> FALSE, newest |-> 0]
      /\ flush = FALSE
  BY DEF Init
<1>2. PICK c \in Clients : calls = [frames |-> 0, kinds |-> c.kinds, flushes |-> c.flushes,
                                    drains |-> c.drains, whole |-> c.whole]
  BY DEF Init
<1>3. 0 \in Slots /\ 0 \in 0 .. NFc /\ MAX \in 0 .. MAX
  BY SizeAssumption DEF Slots, MAX
<1>4. slot \in [Slots -> Frames] /\ main \in Mains
  BY <1>1, <1>3, NoFrameFacts DEF Mains
<1>5. calls \in CallsIn
  BY <1>2, ClientsAssumption DEF CallsIn, Kinds
<1>6. ShapeOK
  <2>1. at \in [Workers -> Places]
    BY <1>1 DEF Places
  <2>2. job \in [Workers -> Jobs]
    BY <1>1, <1>3 DEF Jobs
  <2> QED
    BY <1>1, <1>4, <1>5, <2>1, <2>2, EmptyQueueFacts DEF ShapeOK
<1>7. LockOK
  BY <1>1 DEF LockOK
<1>8. /\ UnitsOf(EmptyQueue, at, job, slot, FALSE)
      /\ Skew(EmptyQueue, slot, Scanning(at)) /\ Old(EmptyQueue, slot, PostOf(at, job))
  <2>1. \A w \in Workers : at[w] \notin Hands
    BY <1>1 DEF Hands, Posting
  <2>2. e \in [Slots -> BOOLEAN]
    OBVIOUS
  <2>4. \A s \in Slots : e[s] = FALSE
    OBVIOUS
  <2> HIDE DEF e
  <2> DEFINE T == [s \in Slots |-> [NoFrame EXCEPT !.error = e[s]]]
  <2>5. \A s \in Slots : T[s] = [NoFrame EXCEPT !.error = e[s]]
    OBVIOUS
  <2> HIDE DEF T
  <2>6. \A s \in Slots : T[s] = NoFrame
    BY <2>2, <2>4, <2>5 DEF NoFrame
  <2>3. \A s \in Slots : slot[s] = [NoFrame EXCEPT !.error = e[s]]
    BY <1>1, <2>5, <2>6
  <2> QED
    BY <1>4, <2>1, <2>2, <2>3, RestFacts
<1>9. UnitsOK /\ SearchOK
  BY <1>1, <1>8 DEF UnitsOK, SearchOK
<1>10. \A x \in Slots : slot[x].frame = 0 /\ slot[x].ref = 0 /\ ~ InUse(slot[x]) /\ ~ slot[x].error
  BY <1>1, NoFrameFacts DEF InUse
<1>11. RingIn(EmptyQueue, slot, main, 0)
  <2>1. IndexOf(EmptyQueue, 0) = 0 /\ \A x \in Slots : IndexOf(EmptyQueue, x) \in Nat
    BY EmptyQueueFacts, IndexFacts
  <2>2. \A x \in Slots : ~ (IndexOf(EmptyQueue, x) < 0)
    BY <2>1
  <2>3. main.in = "idle" /\ main.next = 0
    BY <1>1
  <2> QED
    BY <1>10, <2>1, <2>2, <2>3 DEF RingIn
<1>12. OrderOK
  <2>1. calls.frames = 0 /\ main.newest = 0
    BY <1>1, <1>2
  <2>2. InProgress = {}
    BY <1>1, NoFrameFacts DEF InProgress
  <2> QED
    BY <1>10, <2>1, <2>2 DEF OrderOK, NumbersIn, OldestFirst
<1>13. ASSUME Orderly PROVE TidyIn(EmptyQueue, slot, main, calls)
  <2>1. main.in = "idle"
    BY <1>1
  <2>2. ClientIn(slot, main, calls)
    BY <1>2, <1>10, <1>13, <2>1 DEF ClientIn, Orderly
  <2>3. AgesIn(EmptyQueue, slot)
    BY <1>10 DEF AgesIn
  <2> QED
    BY <1>3, <1>11, <2>2, <2>3 DEF TidyIn
<1>14. RingOK
  BY <1>1, <1>12, <1>13 DEF RingOK
<1>15. SleepOK
  BY <1>1, NoFrameFacts, EmptyQueueFacts DEF SleepOK, InitReady
<1> QED
  BY <1>6, <1>7, <1>9, <1>14, <1>15 DEF IInv, SearchInv, Init

\* ..., and each step keeps it.
LEMMA NextInv ==
  ASSUME IInv, [Next]_vars
  PROVE  IInv'
<1>1. CASE ~ ordered
  <2>1. CASE UNCHANGED vars
    <3>1. ordered' = ordered
      BY <2>1 DEF vars
    <3> QED
      BY <1>1, <3>1 DEF IInv, Orderly
  <2>2. CASE Next
    <3>1. ~ ordered'
      BY <1>1, <2>2, Zenon DEF Next, Caller, KeepOrder
    <3> QED
      BY <1>1, <3>1 DEF IInv, Orderly
  <2> QED
    BY <2>1, <2>2
<1>2. CASE ordered
  <2>1. SearchInv
    BY <1>2 DEF IInv
  <2>2. CASE Caller
    <3>1. /\ Orderly => ordered'
          /\ ordered' => ShapeOK' /\ UnitsOK' /\ RingOK' /\ SearchOK'
      BY <1>2, <2>1, <2>2, CallerStep DEF SearchInv
    <3>2. LockOK' /\ SleepOK'
      BY <2>1, <2>2, CallerRest DEF SearchInv
    <3> QED
      BY <3>1, <3>2 DEF IInv, SearchInv, Orderly
  <2>3. ASSUME NEW w \in Workers, Worker(w), UNCHANGED ordered PROVE IInv'
    <3>1. ShapeOK' /\ UnitsOK' /\ SearchOK'
      BY <2>1, <2>3, WorkerStep DEF SearchInv, RingOK
    <3>2. LockOK' /\ RingOK' /\ SleepOK'
      BY <2>1, <2>3, WorkerRest DEF SearchInv
    <3> QED
      BY <1>2, <2>3, <3>1, <3>2 DEF IInv, SearchInv
  <2>4. CASE UNCHANGED vars
    <3>1. UNCHANGED <<tq, lock, at, job, slot, main, flush, calls>> /\ ordered' = ordered
      BY <2>4 DEF vars
    <3>2. ShapeOK' /\ LockOK' /\ UnitsOK'
      BY <2>1, <3>1 DEF SearchInv, ShapeOK, LockOK, UnitsOK
    <3>3. RingOK' /\ SearchOK'
      BY <2>1, <3>1 DEF SearchInv, RingOK, OrderOK, OldestFirst, InProgress, Orderly, SearchOK
    <3>4. SleepOK'
      <4>1. \A x \in Slots : InitReady(tq, x)' => InitReady(tq, x)
        BY <3>1, InitReadySame
      <4> QED
        BY <2>1, <3>1, <4>1 DEF SearchInv, SleepOK
    <3> QED
      BY <1>2, <3>1, <3>2, <3>3, <3>4 DEF IInv, SearchInv
  <2> QED
    BY <2>2, <2>3, <2>4 DEF Next
<1> QED
  BY <1>1, <1>2

\* IInv holds in all states.
THEOREM Invariance == Spec => []IInv
<1>1. Init => IInv
  BY InitInv
<1>2. IInv /\ [Next]_vars => IInv'
  BY NextInv
<1> QED
  BY <1>1, <1>2, PTL DEF Spec

\* The oldest frame is the first in the ring.
LEMMA OldestIsFirst ==
  ASSUME tq \in Queues, InProgress # {}
  PROVE  IsFirst(tq, slot, Oldest(tq, InProgress))
<1>1. InProgress \subseteq Slots
  BY DEF InProgress
<1>2. LET o == Oldest(tq, InProgress)
      IN  o \in InProgress /\ \A r \in InProgress : Ahead(tq, o) <= Ahead(tq, r)
  BY <1>1, OldestFacts
<1> DEFINE o == Oldest(tq, InProgress)
<1>3. o \in InProgress /\ \A r \in InProgress : Ahead(tq, o) <= Ahead(tq, r)
  BY <1>2
<1> HIDE DEF o
<1>4. IsFirst(tq, slot, o)
  BY <1>3 DEF IsFirst, InProgress
<1> QED
  BY <1>4 DEF o

\* The oldest frame waits for no CDF.
LEMMA OldestCdf ==
  ASSUME ShapeOK, UnitsOK, OrderOK, NEW s \in Slots, IsFirst(tq, slot, s)
  PROVE  CdfReady(s)
<1>1. ASSUME NEW p \in Slots, RefIn(s, p) PROVE slot[p].cdf
  <2>1. slot[p].finished /\ slot[p].frame # 0
    BY <1>1, RefIsOlder DEF RefIn
  <2>2. UnitAt(tq, at, job, slot, p)
    BY DEF UnitsOK, UnitsOf
  <2> QED
    BY <2>1, <2>2 DEF UnitAt, Unit, CountIn
<1> QED
  BY <1>1 DEF CdfReady

\* A frame that nobody works on, and none of whose tasks is ready, waits for its
\* first task.
LEMMA Stuck ==
  ASSUME NEW Q, NEW f, f \in Frames, Unit(Q, {}, {}, {}, f), Whole(Q, {}, {}, {}, f), ~ f.finished,
         \A t \in Q : ~ ReadyOf(f, t)
  PROVE  ~ f.initDone /\ (InitTask \in Q \/ InitCdf \in Q)
<1>1. /\ \A r \in Rows : DeblockRows(r) \in Q => f.deblock <= r
      /\ \A r \in f.done : r < f.deblock
  BY DEF Unit, RowsIn
<1>2. /\ f.counter >= 1
      /\ f.counter = Cardinality(Rows \ {r \in f.done : DeblockRows(r) \notin {}})
                     + (IF f.tiles = Sbh THEN 0 ELSE 1)
  BY DEF Unit, CountIn
<1>3. /\ ~ f.initDone => InitTask \in Q \/ InitCdf \in Q
      /\ f.initDone /\ f.tiles < Sbh => Tile(f.tiles) \in Q
      /\ f.initDone => \A r \in Rows : \/ DeblockRows(r) \in Q \/ r \in f.done
                                       \/ \E c \in 0 .. r : DeblockCols(c) \in Q
  BY DEF Whole, AllIn, StartedIn
<1>4. f.tiles \in 0 .. Sbh /\ f.deblock \in 0 .. Sbh /\ f.done \subseteq Rows
  BY DEF Frames
<1>5. Sbh \in Nat
  BY RowFacts
<1>6. ASSUME f.initDone PROVE FALSE
  <2>1. f.tiles = Sbh
    <3> SUFFICES ASSUME f.tiles # Sbh PROVE FALSE
      OBVIOUS
    <3>1. f.tiles \in Rows /\ f.tiles < Sbh /\ f.tiles >= f.tiles
      BY <1>4, <1>5 DEF Rows
    <3>2. Tile(f.tiles) \in Q
      BY <1>3, <1>6, <3>1
    <3>3. ReadyOf(f, Tile(f.tiles))
      BY <3>1 DEF ReadyOf
    <3> QED
      BY <3>2, <3>3
  <2>2. ASSUME NEW c \in Rows PROVE DeblockCols(c) \notin Q
    <3>1. f.tiles > c
      BY <2>1, RowFacts
    <3> QED
      BY <3>1 DEF ReadyOf
  <2>3. ASSUME NEW r \in Rows PROVE DeblockRows(r) \in Q \/ r \in f.done
    <3>1. \A c \in 0 .. r : c \in Rows
      BY <1>5 DEF Rows
    <3> QED
      BY <1>3, <1>6, <2>2, <3>1
  <2>4. f.deblock = Sbh
    <3> SUFFICES ASSUME f.deblock # Sbh PROVE FALSE
      OBVIOUS
    <3>1. f.deblock \in Rows /\ f.deblock >= f.deblock /\ ~ (f.deblock < f.deblock)
      BY <1>4, <1>5 DEF Rows
    <3>2. DeblockRows(f.deblock) \in Q
      BY <1>1, <2>3, <3>1
    <3>3. ReadyOf(f, DeblockRows(f.deblock))
      BY <3>1 DEF ReadyOf
    <3> QED
      BY <3>2, <3>3
  <2>5. f.done = Rows
    <3>1. ASSUME NEW r \in Rows PROVE r \in f.done
      <4>1. ~ (f.deblock <= r)
        BY <2>4, RowFacts
      <4> QED
        BY <1>1, <2>3, <4>1
    <3> QED
      BY <1>4, <3>1
  <2>6. Rows \ {r \in f.done : DeblockRows(r) \notin {}} = {}
    BY <2>5
  <2>7. f.counter = 0
    BY <1>2, <2>1, <2>6, FS_EmptySet
  <2> QED
    BY <1>2, <2>7
<1> QED
  BY <1>3, <1>6

\* When all workers sleep, everything is done: the oldest frame has a task that somebody
\* would have found, or is finished.
LEMMA QuietMeansDone ==
  ASSUME SearchInv, \A w \in Workers : at[w] = "wait", ~ flush
  PROVE  InProgress = {}
<1> SUFFICES ASSUME InProgress # {} PROVE FALSE
  OBVIOUS
<1> DEFINE s == Oldest(tq, InProgress)
<1>1. tq \in Queues /\ slot \in [Slots -> Frames]
  BY DEF SearchInv, ShapeOK
<1>2. IsFirst(tq, slot, s)
  BY <1>1, OldestIsFirst
<1> HIDE DEF s
<1>3. s \in Slots /\ ~ slot[s].finished
  BY <1>2 DEF IsFirst
<1>4. tq.pend[s] = {} /\ ~ InitReady(tq, s) /\ tq.cur = NFc
  BY <1>3 DEF SearchInv, SleepOK
<1>5. \A C \in SUBSET Hands : In(at, job, C, s) = {}
  BY DEF In, Hands, Posting
<1>6. {"run"} \in SUBSET Hands /\ Posting \in SUBSET Hands /\ {"leave"} \in SUBSET Hands
  BY DEF Hands
<1>7. UnitAt(tq, at, job, slot, s) /\ WholeAt(tq, at, job, slot, s)
  BY <1>3 DEF SearchInv, UnitsOK, UnitsOf
<1>8. /\ Unit(tq.list[s], {}, {}, {}, slot[s]) /\ Whole(tq.list[s], {}, {}, {}, slot[s])
  <2>1. QueueOf(tq, s) = tq.list[s]
    BY <1>4 DEF QueueOf
  <2>2. In(at, job, {"run"}, s) = {} /\ In(at, job, Posting, s) = {} /\ In(at, job, {"leave"}, s) = {}
    BY <1>5, <1>6
  <2> QED
    BY <1>7, <2>1, <2>2 DEF UnitAt, WholeAt
<1>9. \A t \in tq.list[s] : ~ ReadyOf(slot[s], t)
  <2>1. Old(tq, slot, PostOf(at, job))
    BY DEF SearchInv, SearchOK
  <2>2. s \notin PostOf(at, job)
    BY DEF PostOf, Post, Posting
  <2>3. Ahead(tq, s) < CursorOf(tq)
    BY <1>1, <1>3, <1>4, RingFacts DEF CursorOf
  <2> QED
    BY <1>2, <1>3, <1>4, <2>1, <2>2, <2>3 DEF Old, OverIn
<1>10. ~ slot[s].initDone /\ (InitTask \in tq.list[s] \/ InitCdf \in tq.list[s])
  BY <1>1, <1>3, <1>8, <1>9, Stuck
<1>11. CdfReady(s)
  BY <1>2, <1>3, OldestCdf DEF SearchInv, RingOK
<1> QED
  BY <1>4, <1>10, <1>11 DEF InitReady

\* The parts of CursorSound.
LEMMA CursorIsSound ==
  ASSUME SearchInv
  PROVE  /\ TypeOK
         /\ InProgress # {} => LET s == Oldest(tq, InProgress)
                               IN  (flush \/ LeadsOn(s)) /\ (Settled => ReadyAhead(s))
<1>1. /\ tq \in Queues /\ slot \in [Slots -> Frames] /\ lock \in SUBSET Workers
      /\ at \in [Workers -> Places] /\ main \in Mains /\ flush \in BOOLEAN
  BY DEF SearchInv, ShapeOK
<1>2. TypeOK
  <2>1. /\ tq.first \in Slots /\ tq.cur \in 0 .. NFc /\ tq.reset \in Pos /\ tq.signaled \in BOOLEAN
        /\ \A s \in Slots : /\ tq.prev[s] \in Tasks \cup {NoTask, Gone}
                            /\ tq.pend[s] \subseteq Tasks /\ tq.list[s] \subseteq Tasks
    BY <1>1 DEF Queues, Pos
  <2>2. \A s \in Slots : slot[s].counter \in 0 .. Sbh + 1 /\ slot[s].tiles \in 0 .. Sbh
    BY <1>1 DEF Frames
  <2>3. main.next \in Slots
    BY <1>1 DEF Mains
  <2>4. /\ \A v, w \in lock : v = w
        /\ \A w \in Workers : at[w] \in {"scan", "park"} => w \in lock
    BY DEF SearchInv, LockOK
  <2> QED
    BY <1>1, <2>1, <2>2, <2>3, <2>4 DEF TypeOK
<1> DEFINE o == Oldest(tq, InProgress)
<1>4. ASSUME InProgress # {}
      PROVE  (flush \/ LeadsOn(o)) /\ (Settled => ReadyAhead(o))
  <2>1. IsFirst(tq, slot, o)
    BY <1>1, <1>4, OldestIsFirst
  <2> HIDE DEF o
  <2>2. o \in Slots
    BY <2>1 DEF IsFirst
  <2>3. ASSUME ~ flush PROVE LeadsOn(o)
    <3>1. Old(tq, slot, PostOf(at, job))
      BY <2>3 DEF SearchInv, SearchOK
    <3> QED
      BY <2>1, <2>2, <3>1 DEF Old, LeadsOn
  <2>4. ASSUME Settled PROVE ReadyAhead(o)
    <3> SUFFICES ASSUME NEW t \in tq.list[o], Ready(o, t), Passed(o, t) PROVE FALSE
      BY DEF ReadyAhead
    <3>2. ~ flush /\ \A w \in Workers : at[w] \in {"wait", "woken", "run"}
      BY <2>4 DEF Settled
    <3>3. ReadyOf(slot[o], t)
      BY DEF Ready, ReadyOf
    <3>4. OverIn(tq, o, t)
      BY DEF Passed, OverIn, CursorOf
    <3>5. tq.pend[o] = {}
      BY <2>2, <3>2 DEF SearchInv, SleepOK
    <3>6. o \notin PostOf(at, job)
      BY <3>2 DEF PostOf, Post, Posting
    <3>7. Old(tq, slot, PostOf(at, job))
      BY <3>2 DEF SearchInv, SearchOK
    <3> QED
      BY <2>1, <2>2, <3>3, <3>4, <3>5, <3>6, <3>7 DEF Old
  <2> QED
    BY <2>3, <2>4
<1> QED
  BY <1>2, <1>4

\* As long as the frames are in order: when all workers sleep and no flush is on, every
\* frame that was accepted is finished (NoTaskMissed): merge_pending, reset_task_cur and the
\* signals of cond_signaled leave no ready task to a search that has gone past it.
THEOREM NoTaskIsMissed == Spec => []NoTaskMissed
<1>1. Spec => []IInv
  BY Invariance
<1>2. IInv => NoTaskMissed
  BY QuietMeansDone DEF IInv, NoTaskMissed, InProgress
<1> QED
  BY <1>1, <1>2, PTL

\* As long as the frames are in order: reset_task_cur and reset_task_cur_async leave no ready
\* task of the oldest frame behind the cursor (CursorSound), and its cur_prev leads on.
THEOREM CursorIsWhereItShouldBe == Spec => []CursorSound
<1>1. Spec => []IInv
  BY Invariance
<1>2. IInv => CursorSound
  BY CursorIsSound DEF IInv, CursorSound
<1> QED
  BY <1>1, <1>2, PTL

\* A client of Orderly keeps the frames in order: rav1d_submit_frame and drain_picture move
\* ttd.first with the oldest of them.
THEOREM OrderIsKept == Orderly => (Spec => []ordered)
<1> SUFFICES ASSUME Orderly PROVE Spec => []ordered
  OBVIOUS
<1>1. Spec => []IInv
  BY Invariance
<1>2. IInv => ordered
  BY DEF IInv
<1> QED
  BY <1>1, <1>2, PTL

\* A call of drain_picture does not wait for a frame that nobody works on (DrainReturns): what a
\* client that takes pictures one by one can break, a client of Orderly cannot.
THEOREM DrainIsServed == Orderly => (Spec => []DrainReturns)
<1> SUFFICES ASSUME Orderly PROVE Spec => []DrainReturns
  OBVIOUS
<1>1. Spec => []IInv
  BY Invariance
<1>2. ASSUME IInv PROVE DrainReturns
  <2> SUFFICES ASSUME \A w \in Workers : at[w] = "wait", main.in = "drain"
               PROVE  slot[main.next].finished
    BY DEF DrainReturns
  <2>1. SearchInv
    BY <1>2 DEF IInv
  <2>2. main.next \in Slots /\ ~ flush
    BY <2>1 DEF SearchInv, ShapeOK, Mains
  <2> QED
    BY <2>1, <2>2, QuietMeansDone DEF InProgress
<1> QED
  BY <1>1, <1>2, PTL
=============================================================================
