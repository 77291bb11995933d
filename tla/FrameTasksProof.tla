--------------------------- MODULE FrameTasksProof ---------------------------
(***************************************************************************)
(* Proofs about FrameTasks: the frame.  Which tasks there are, how they    *)
(* are counted, who leaves a frame and what is left behind, for any number *)
(* of workers, frame contexts, frames, rows and tiles.                     *)
(***************************************************************************)
EXTENDS FrameTasks, TLAPS, FiniteSetTheorems, WellFoundedInduction

Unfinished(s) == ~fc[s].finished
Filters(s) == pics[fc[s].pic].filters

\* What a task is, by its type and the filters of its frame.
TaskOK(t, filters) ==
  /\ t.type \in {"Init", "InitCdf", "TileEntropy", "EntropyProgress"} => TwoPass
  /\ t.type \in InitTypes \/ IsTile(t) => t.recon = 0
  /\ IsTile(t) => /\ RowStart[TileRow(t.tile)] <= t.sby
                  /\ t.sby < RowStart[TileRow(t.tile) + 1]
  /\ t.recon # 0 => t.recon = t.sby + 1
  /\ t.type = "EntropyProgress" => t.recon # 0
  /\ t.type = "ReconstructionProgress" => t.recon # 0 /\ filters = {}
  /\ t.type = "DeblockCols" => t.recon # 0 /\ "deblock" \in filters
  /\ t.type = "DeblockRows" => IF t.recon # 0 THEN filters = {"cdef"}
                               ELSE "deblock" \in filters /\ t.deblock = t.sby
  /\ t.type = "Cdef" => t.recon = 0 /\ filters = {"cdef"}

\* Where a worker may be with a task.
PlaceOK(l, type) ==
  \/ l = "start"
  \/ l = "Init" /\ type = "Init"
  \/ l \in {"InitCdf", "create"} /\ type = "InitCdf"
  \/ l \in {"tileDone", "tileFailed"} /\ type \in {"TileEntropy", "TileReconstruction"}
  \/ l = "EntropyProgress" /\ type = "EntropyProgress"
  \/ l = "DeblockCols" /\ type = "DeblockCols"
  \/ l = "DeblockRows" /\ type \in {"DeblockCols", "DeblockRows"}
  \/ l = "Cdef" /\ type \in {"DeblockCols", "DeblockRows", "Cdef"}
  \/ l = "ReconstructionProgress" /\ type = "ReconstructionProgress"
  \/ l = "publish" /\ type \in {"DeblockCols", "DeblockRows", "Cdef", "ReconstructionProgress"}
  \/ l = "count" /\ type \in {"EntropyProgress", "DeblockCols", "DeblockRows", "Cdef", "ReconstructionProgress"}

TasksOK(s) ==
  /\ \A t \in fc[s].queue : t.slot = None /\ TaskOK(t, Filters(s))
  /\ \A w \in Workers : Busy(w, s) =>
       TaskOK(task[w], Filters(s)) /\ PlaceOK(at[w], task[w].type)

Apart(s) ==
  /\ \A t, u \in fc[s].queue : t = u \/ Units(t) \cap Units(u) = {}
  /\ \A w \in Workers :
       /\ \A t \in fc[s].queue : Mine(w, s) \cap Units(t) = {}
       /\ \A v \in Workers : v = w \/ Mine(w, s) \cap Mine(v, s) = {}

\* next_tile_row is the row of tiles of the next row of the chain.
ChainOK(s) ==
  \A t \in fc[s].queue : t.recon # 0 =>
    LET ntr == fc[s].nextTileRow[Pass(t)]
    IN RowStart[ntr] <= t.sby /\ t.sby < RowStart[ntr + 1]

\* The tasks of a pass are not created yet.
Before(s, p) ==
  \/ \E t \in fc[s].queue : t.type \in InitTypes
  \/ \E w \in Workers : Busy(w, s) /\ task[w].type \in InitTypes /\ (p = 1 => at[w] # "create")

\* What a worker has not finished: rows it publishes or counts are.
Open(w, s) == IF at[w] \in {"publish", "count"} THEN {} ELSE Mine(w, s)

\* A row that still has to get into the bitmap of rows, or into entropy.
RowOpen(s, p, r) ==
  \/ \E t \in fc[s].queue : <<p, "row", r>> \in Units(t)
  \/ \E w \in Workers : <<p, "row", r>> \in Open(w, s)

Publishing(s) == \E w \in Workers : Busy(w, s) /\ at[w] = "publish"

RowsOK(s) ==
  /\ ~Before(s, 0) =>
       /\ \A r \in Rows : r \in fc[s].frame <=> ~RowOpen(s, 0, r)
       /\ Rows \subseteq fc[s].frame => fc[s].done[0] \/ Publishing(s)
  /\ TwoPass /\ ~Before(s, 1) => (fc[s].done[1] <=> ~RowOpen(s, 1, Sbh - 1))

FrameOK(s) ==
  /\ fc[s].pic \in 1 .. Number
  /\ TasksOK(s)
  /\ Apart(s)
  /\ fc[s].counter = Cardinality(ToDo(s)) /\ ToDo(s) # {}
  /\ ChainOK(s)
  /\ RowsOK(s)

Clean(s) == fc[s].queue = {} /\ \A w \in Workers : ~Busy(w, s)

IInv ==
  /\ TypeOK
  /\ \A w \in Workers : at[w] # "search" => Slot(w) \in Slots
  /\ \A s \in Slots : IF fc[s].finished THEN Clean(s) ELSE FrameOK(s)
  /\ \A s, x \in Slots : Unfinished(s) /\ Unfinished(x) /\ s # x => fc[s].pic # fc[x].pic
  /\ last \in 0 .. Number
  /\ ~TwoPass /\ main # "wait" => \A s \in Slots : fc[s].finished
----------------------------------------------------------------------------
(* The constants *)

\* What the assumption on the configurations says of the present one.
LEMMA SetupFacts ==
  ASSUME setup \in DOMAIN Setups
  PROVE  /\ TwoPass \in BOOLEAN
         /\ TileCols \in Nat \ {0} /\ TileRows \in Nat \ {0}
         /\ RowStart \in [0 .. TileRows -> Nat]
         /\ Sbh \in Nat \ {0} /\ RowStart[0] = 0
         /\ \A r \in 0 .. TileRows : RowStart[r] \in 0 .. Sbh
         /\ \A q, r \in 0 .. TileRows : q < r => RowStart[q] < RowStart[r]
         /\ \A r \in 0 .. TileRows - 1 : RowStart[r] \in Rows
         /\ \A r \in Rows : Reach[r] \in 0 .. Sbh
         /\ Setups[setup].flushes \in Nat
         /\ Setups[setup].kinds \subseteq [refresh : BOOLEAN, filters : SUBSET {"deblock", "cdef"}]
         /\ 0 \in Rows /\ 0 \in Tiles
<1> DEFINE c == Setups[setup]
<1>1. SetupType(c)
  BY SetupAssumption
<1> HIDE DEF c
<1>2. /\ c.twoPass \in BOOLEAN /\ c.tileCols \in Nat \ {0} /\ c.tileRows \in Nat \ {0}
      /\ c.rowStart \in [0 .. c.tileRows -> Nat] /\ c.rowStart[0] = 0
      /\ \A q, r \in 0 .. c.tileRows : q < r => c.rowStart[q] < c.rowStart[r]
      /\ c.reach \in [0 .. c.rowStart[c.tileRows] - 1 -> 0 .. c.rowStart[c.tileRows]]
      /\ c.kinds \subseteq [refresh : BOOLEAN, filters : SUBSET {"deblock", "cdef"}]
      /\ c.flushes \in Nat
  BY <1>1 DEF SetupType
<1>3. c.rowStart[c.tileRows] \in Nat \ {0}
  BY <1>2
<1>5. ASSUME NEW r \in 0 .. c.tileRows - 1
      PROVE  c.rowStart[r] \in 0 .. c.rowStart[c.tileRows] - 1
  <2>1. r \in 0 .. c.tileRows /\ c.tileRows \in 0 .. c.tileRows /\ r < c.tileRows
    BY <1>2
  <2>2. c.rowStart[r] \in Nat /\ c.rowStart[r] < c.rowStart[c.tileRows]
    BY <1>2, <2>1
  <2> QED
    BY <1>3, <2>2
<1>4. ASSUME NEW r \in 0 .. c.tileRows
      PROVE  c.rowStart[r] \in 0 .. c.rowStart[c.tileRows]
  <2>1. CASE r = c.tileRows
    BY <1>3, <2>1
  <2>2. CASE r \in 0 .. c.tileRows - 1
    BY <1>3, <1>5, <2>2
  <2> QED
    BY <1>2, <2>1, <2>2
<1>6. 0 \in 0 .. c.tileRows * c.tileCols - 1
  BY <1>2
<1>7. QED
  BY <1>2, <1>3, <1>4, <1>5, <1>6
  DEF c, TwoPass, TileCols, TileRows, RowStart, Sbh, Rows, Reach, Tiles

\* A tile is in one of the rows of tiles.
LEMMA TileRowType ==
  ASSUME setup \in DOMAIN Setups, NEW i \in Tiles
  PROVE  /\ TileRow(i) \in 0 .. TileRows - 1 /\ TileRow(i) + 1 \in 0 .. TileRows
         /\ RowStart[TileRow(i)] \in Rows /\ RowStart[TileRow(i) + 1] \in 0 .. Sbh
         /\ RowStart[TileRow(i)] < RowStart[TileRow(i) + 1]
<1>1. \A m, n \in Nat \ {0} : \A j \in 0 .. m * n - 1 : j \div n \in 0 .. m - 1
  OBVIOUS
<1>2. TileRow(i) \in 0 .. TileRows - 1
  BY SetupFacts, <1>1 DEF TileRow, Tiles
<1>3. QED
  BY SetupFacts, <1>2

\* The configuration never changes, nor what it defines.
LEMMA SameSetup ==
  ASSUME setup' = setup
  PROVE  /\ Slots' = Slots /\ TwoPass' = TwoPass /\ TileCols' = TileCols
         /\ TileRows' = TileRows /\ RowStart' = RowStart /\ Reach' = Reach
         /\ Sbh' = Sbh /\ Rows' = Rows /\ Tiles' = Tiles
         /\ TILE_ERROR' = TILE_ERROR /\ FRAME_ERROR' = FRAME_ERROR /\ AllRows' = AllRows
         /\ Tasks' = Tasks /\ Frames' = Frames /\ Pictures' = Pictures
         /\ AllUnits' = AllUnits
         /\ \A t : Units(t)' = Units(t)
         /\ \A t, filters : TaskOK(t, filters)' <=> TaskOK(t, filters)
<1>1. /\ Slots' = Slots /\ TwoPass' = TwoPass /\ TileCols' = TileCols
      /\ TileRows' = TileRows /\ RowStart' = RowStart /\ Reach' = Reach
  BY DEF Slots, TwoPass, TileCols, TileRows, RowStart, Reach
<1>2. Sbh' = Sbh
  BY <1>1 DEF Sbh
<1>3. Rows' = Rows /\ Tiles' = Tiles
  BY <1>1, <1>2 DEF Rows, Tiles
<1>4. /\ TILE_ERROR' = TILE_ERROR /\ FRAME_ERROR' = FRAME_ERROR /\ AllRows' = AllRows
  BY <1>2 DEF TILE_ERROR, FRAME_ERROR, AllRows
<1>5. Tasks' = Tasks
  BY <1>1, <1>2, <1>3 DEF Tasks
<1>6. Frames' = Frames
  BY <1>1, <1>3, <1>4, <1>5 DEF Frames
<1>7. Pictures' = Pictures
  BY <1>3, <1>4 DEF Pictures, Progress
<1>8. \A p : PassUnits(p)' = PassUnits(p)
  BY <1>3 DEF PassUnits
<1>9. AllUnits' = AllUnits
  BY <1>1, <1>8 DEF AllUnits
<1>10. \A t : Units(t)' = Units(t)
  BY <1>2, <1>9 DEF Units
<1>11. \A i : TileRow(i)' = TileRow(i)
  BY <1>1 DEF TileRow
<1>12. \A t, filters : TaskOK(t, filters)' <=> TaskOK(t, filters)
  BY <1>1, <1>11 DEF TaskOK
<1> QED
  BY <1>1, <1>2, <1>3, <1>4, <1>5, <1>6, <1>7, <1>9, <1>10, <1>12

----------------------------------------------------------------------------
(* Units of work *)

\* The units of a pass, and of all passes.
LEMMA InUnits ==
  ASSUME setup \in DOMAIN Setups
  PROVE  /\ \A p, i : <<p, "tile", i>> \in AllUnits <=>
              p \in (IF TwoPass THEN {0, 1} ELSE {0}) /\ i \in Tiles
         /\ \A p, r : <<p, "row", r>> \in AllUnits <=>
              p \in (IF TwoPass THEN {0, 1} ELSE {0}) /\ r \in Rows
         /\ PassUnits(0) \subseteq AllUnits
         /\ TwoPass => PassUnits(1) \subseteq AllUnits
         /\ AllUnits = IF TwoPass THEN PassUnits(0) \cup PassUnits(1) ELSE PassUnits(0)
         /\ PassUnits(0) \cap PassUnits(1) = {}
<1>1. AllUnits = IF TwoPass THEN PassUnits(0) \cup PassUnits(1) ELSE PassUnits(0)
  BY SetupFacts DEF AllUnits
<1>2. PassUnits(0) \cap PassUnits(1) = {}
  BY DEF PassUnits
<1>3. \A p, i : <<p, "tile", i>> \in AllUnits <=>
        p \in (IF TwoPass THEN {0, 1} ELSE {0}) /\ i \in Tiles
  BY <1>1, SetupFacts DEF PassUnits
<1>4. \A p, r : <<p, "row", r>> \in AllUnits <=>
        p \in (IF TwoPass THEN {0, 1} ELSE {0}) /\ r \in Rows
  BY <1>1, SetupFacts DEF PassUnits
<1> QED
  BY <1>1, <1>2, <1>3, <1>4, SetupFacts

\* A set of n units of a kind has n elements.
LEMMA KindCount ==
  ASSUME NEW p, NEW kind, NEW n \in Nat
  PROVE  /\ IsFiniteSet({p} \X {kind} \X (0 .. n - 1))
         /\ Cardinality({p} \X {kind} \X (0 .. n - 1)) = n
<1> DEFINE S == 0 .. n - 1
           T == {p} \X {kind} \X S
           g == [i \in S |-> <<p, kind, i>>]
<1>1. IsFiniteSet(S) /\ Cardinality(S) = n
  BY FS_Interval
<1>2. g \in Bijection(S, T)
  <2>1. g \in [S -> T]
    OBVIOUS
  <2>2. \A a, b \in S : g[a] = g[b] => a = b
    OBVIOUS
  <2>3. \A t \in T : \E s \in S : g[s] = t
    OBVIOUS
  <2> QED
    BY <2>1, <2>2, <2>3 DEF Bijection, Injection, Surjection, IsInjective
<1>3. ExistsBijection(S, T)
  BY <1>2 DEF ExistsBijection
<1> HIDE DEF S, T
<1>4. IsFiniteSet(T) /\ Cardinality(T) = Cardinality(S)
  BY <1>1, <1>3, FS_Bijection
<1> QED
  BY <1>1, <1>4 DEF S, T

\* A pass has as many units as the frame has tiles and rows.
LEMMA PassCount ==
  ASSUME setup \in DOMAIN Setups, NEW p
  PROVE  IsFiniteSet(PassUnits(p)) /\ Cardinality(PassUnits(p)) = TileRows * TileCols + Sbh
<1> DEFINE T == {p} \X {"tile"} \X Tiles
           R == {p} \X {"row"} \X Rows
<1>1. TileRows * TileCols \in Nat /\ Sbh \in Nat
  BY SetupFacts
<1>2. IsFiniteSet(T) /\ Cardinality(T) = TileRows * TileCols
  BY <1>1, KindCount DEF Tiles
<1>3. IsFiniteSet(R) /\ Cardinality(R) = Sbh
  BY <1>1, KindCount DEF Rows
<1>4. T \cap R = {}
  OBVIOUS
<1>5. Cardinality(T \cap R) = 0
  BY <1>4, FS_EmptySet
<1>6. /\ IsFiniteSet(T \cup R)
      /\ Cardinality(T \cup R) = Cardinality(T) + Cardinality(R) - Cardinality(T \cap R)
  BY <1>2, <1>3, FS_Union
<1>7. PassUnits(p) = T \cup R
  BY DEF PassUnits
<1> QED
  BY <1>1, <1>2, <1>3, <1>5, <1>6, <1>7

\* task_counter starts at the number of all units.
LEMMA AllCount ==
  ASSUME setup \in DOMAIN Setups
  PROVE  IsFiniteSet(AllUnits) /\ Cardinality(AllUnits) = TaskCount /\ TaskCount \in Nat
<1> DEFINE n == TileRows * TileCols + Sbh
<1>0. n \in Nat
  BY SetupFacts
<1>1. \A p : IsFiniteSet(PassUnits(p)) /\ Cardinality(PassUnits(p)) = n
  BY PassCount
<1>2. TaskCount = IF TwoPass THEN n * 2 ELSE n * 1
  BY SetupFacts DEF TaskCount
<1> HIDE DEF n
<1>3. CASE TwoPass
  <2>1. PassUnits(0) \cap PassUnits(1) = {} /\ AllUnits = PassUnits(0) \cup PassUnits(1)
    BY <1>3, InUnits
  <2>2. Cardinality(PassUnits(0) \cap PassUnits(1)) = 0
    BY <2>1, FS_EmptySet
  <2>3. /\ IsFiniteSet(PassUnits(0) \cup PassUnits(1))
        /\ Cardinality(PassUnits(0) \cup PassUnits(1))
             = Cardinality(PassUnits(0)) + Cardinality(PassUnits(1))
               - Cardinality(PassUnits(0) \cap PassUnits(1))
    BY <1>1, FS_Union
  <2> QED
    BY <1>0, <1>1, <1>2, <1>3, <2>1, <2>2, <2>3
<1>4. CASE ~TwoPass
  BY <1>0, <1>1, <1>2, <1>4, InUnits
<1> QED
  BY <1>3, <1>4

\* Every task stands for something, and for no more than there is.
LEMMA UnitsFacts ==
  ASSUME setup \in DOMAIN Setups, NEW t \in Tasks, NEW filters, TaskOK(t, filters)
  PROVE  /\ Units(t) \subseteq AllUnits /\ Units(t) # {}
         /\ t.type \in InitTypes => Units(t) = AllUnits
         /\ IsTile(t) => Units(t) = {<<Pass(t), "tile", t.tile>>}
         /\ t.type \notin InitTypes /\ ~IsTile(t) =>
              /\ <<Pass(t), "row", t.sby>> \in Units(t)
              /\ t.recon = 0 => Units(t) = {<<Pass(t), "row", t.sby>>}
              /\ t.recon # 0 => Units(t) = RowUnits(Pass(t), t.sby .. Sbh - 1)
         /\ Pass(t) \in IF TwoPass THEN {0, 1} ELSE {0}
<1>1. /\ t.sby \in Rows /\ t.tile \in Tiles /\ t.type \in TaskTypes
      /\ t.recon # 0 => ~IsTile(t) /\ t.type \notin InitTypes
      /\ t.type \in {"Init", "InitCdf", "TileEntropy", "EntropyProgress"} => TwoPass
  BY DEF Tasks, TaskOK
<1>2. Pass(t) \in IF TwoPass THEN {0, 1} ELSE {0}
  BY <1>1 DEF Pass
<1>3. t.sby .. Sbh - 1 \subseteq Rows /\ t.sby \in t.sby .. Sbh - 1
  BY <1>1, SetupFacts DEF Rows
<1>4. CASE t.type \in InitTypes
  <2>1. <<0, "tile", 0>> \in AllUnits
    BY InUnits, SetupFacts
  <2> QED
    BY <1>4, <2>1, <1>2 DEF Units, InitTypes, IsTile
<1>5. CASE IsTile(t)
  <2>1. t.type \notin InitTypes
    BY <1>5 DEF InitTypes, IsTile
  <2>2. <<Pass(t), "tile", t.tile>> \in AllUnits
    BY <1>1, <1>2, InUnits
  <2>3. Units(t) = {<<Pass(t), "tile", t.tile>>}
    BY <2>1, <1>5 DEF Units
  <2> QED
    BY <1>5, <2>1, <2>2, <2>3, <1>2
<1>6. CASE t.type \notin InitTypes /\ ~IsTile(t)
  <2>1. Units(t) = RowUnits(Pass(t), IF t.recon # 0 THEN t.sby .. Sbh - 1 ELSE {t.sby})
    BY <1>6 DEF Units
  <2>2. \A r \in Rows : <<Pass(t), "row", r>> \in AllUnits
    BY <1>2, InUnits
  <2>3. Units(t) \subseteq AllUnits
    BY <2>1, <2>2, <1>3, <1>1 DEF RowUnits
  <2>4. <<Pass(t), "row", t.sby>> \in Units(t)
    BY <2>1, <1>3 DEF RowUnits
  <2>5. t.recon = 0 => Units(t) = {<<Pass(t), "row", t.sby>>}
    BY <2>1 DEF RowUnits
  <2> QED
    BY <1>6, <2>1, <2>3, <2>4, <2>5, <1>2
<1> QED
  BY <1>4, <1>5, <1>6

\* A busy worker has something to do.
LEMMA MineFacts ==
  ASSUME setup \in DOMAIN Setups, task \in [Workers -> Tasks], NEW s, NEW w \in Workers,
         TasksOK(s)
  PROVE  /\ Mine(w, s) \subseteq AllUnits
         /\ Busy(w, s) <=> Mine(w, s) # {}
         /\ Busy(w, s) /\ task[w].type \in InitTypes =>
              Mine(w, s) = IF at[w] = "create" THEN PassUnits(0) ELSE AllUnits
         /\ Busy(w, s) /\ IsTile(task[w]) =>
              Mine(w, s) = {<<Pass(task[w]), "tile", task[w].tile>>}
         /\ Busy(w, s) /\ task[w].type \notin InitTypes /\ ~IsTile(task[w]) =>
              Mine(w, s) = {<<Pass(task[w]), "row", task[w].sby>>}
<1>1. CASE ~Busy(w, s)
  BY <1>1 DEF Mine
<1>2. CASE Busy(w, s)
  <2>1. /\ TaskOK(task[w], Filters(s)) /\ PlaceOK(at[w], task[w].type) /\ task[w] \in Tasks
    BY <1>2 DEF TasksOK
  <2>2. /\ Units(task[w]) \subseteq AllUnits /\ Units(task[w]) # {}
        /\ task[w].type \in InitTypes => Units(task[w]) = AllUnits
        /\ IsTile(task[w]) => Units(task[w]) = {<<Pass(task[w]), "tile", task[w].tile>>}
        /\ task[w].type \notin InitTypes /\ ~IsTile(task[w]) =>
             <<Pass(task[w]), "row", task[w].sby>> \in Units(task[w])
    BY <2>1, UnitsFacts
  <2>3. at[w] = "create" => task[w].type \in InitTypes
    BY <2>1 DEF PlaceOK, InitTypes
  <2>4. PassUnits(0) \subseteq AllUnits /\ PassUnits(0) # {}
    BY InUnits, SetupFacts DEF PassUnits
  <2>5. IsTile(task[w]) => task[w].type \notin InitTypes
    BY DEF IsTile, InitTypes
  <2>6. RowUnits(Pass(task[w]), {task[w].sby}) = {<<Pass(task[w]), "row", task[w].sby>>}
    BY DEF RowUnits
  <2> QED
    BY <1>2, <2>2, <2>3, <2>4, <2>5, <2>6 DEF Mine
<1> QED
  BY <1>1, <1>2

----------------------------------------------------------------------------
(* Work that changes hands *)

\* Worker w gives back the tasks In for the tasks Out of the queue of s, and
\* loses some units.
Exchange(w, s, In, Out, lost) ==
  /\ Out \subseteq fc[s].queue
  /\ fc'[s].queue = (fc[s].queue \ Out) \cup In
  /\ \A u : (u \in Mine(w, s) \/ \E t \in Out : u \in Units(t)) <=>
            (u \in lost \/ u \in Mine(w, s)' \/ \E t \in In : u \in Units(t))
  /\ \A t, u \in In : t = u \/ Units(t) \cap Units(u) = {}
  /\ \A t \in In : Mine(w, s)' \cap Units(t) = {} /\ lost \cap Units(t) = {}
  /\ lost \cap Mine(w, s)' = {}

\* Then no unit is in two hands, and nothing else is lost.
LEMMA Move ==
  ASSUME setup' = setup, NEW s \in Slots, NEW w \in Workers, Apart(s),
         NEW In, NEW Out, NEW lost, Exchange(w, s, In, Out, lost),
         \A v \in Workers \ {w} : Mine(v, s)' = Mine(v, s)
  PROVE  Apart(s)' /\ ToDo(s)' = ToDo(s) \ lost
<1> DEFINE Q == fc[s].queue
           Q2 == fc'[s].queue
           M(v) == Mine(v, s)
           M2(v) == Mine(v, s)'
<1>1. \A t : Units(t)' = Units(t)
  BY SameSetup
<1>2. AllUnits' = AllUnits
  BY SameSetup
<1>a. /\ \A t, u \in Q : t = u \/ Units(t) \cap Units(u) = {}
      /\ \A v \in Workers : \A t \in Q : M(v) \cap Units(t) = {}
      /\ \A v, x \in Workers : x = v \/ M(v) \cap M(x) = {}
  BY DEF Apart
<1>b. Q2 = (Q \ Out) \cup In /\ Out \subseteq Q
  BY DEF Exchange
<1>c. \A v \in Workers \ {w} : M2(v) = M(v)
  OBVIOUS
<1>d. \A u : (u \in M(w) \/ \E t \in Out : u \in Units(t)) <=>
             (u \in lost \/ u \in M2(w) \/ \E t \in In : u \in Units(t))
  BY DEF Exchange
<1>e. /\ \A t, u \in In : t = u \/ Units(t) \cap Units(u) = {}
      /\ \A t \in In : M2(w) \cap Units(t) = {} /\ lost \cap Units(t) = {}
      /\ lost \cap M2(w) = {}
  BY DEF Exchange
<1>f. Apart(s)' <=> /\ \A t, u \in Q2 : t = u \/ Units(t) \cap Units(u) = {}
                    /\ \A v \in Workers :
                         /\ \A t \in Q2 : M2(v) \cap Units(t) = {}
                         /\ \A x \in Workers : x = v \/ M2(v) \cap M2(x) = {}
  BY <1>1 DEF Apart
<1>g. /\ ToDo(s) = {u \in AllUnits : \/ \E t \in Q : u \in Units(t)
                                     \/ \E v \in Workers : u \in M(v)}
      /\ ToDo(s)' = {u \in AllUnits : \/ \E t \in Q2 : u \in Units(t)
                                      \/ \E v \in Workers : u \in M2(v)}
  BY <1>1, <1>2 DEF ToDo
<1> HIDE DEF Q, Q2, M, M2
<1>3. \A t \in In, u \in Q \ Out : Units(t) \cap Units(u) = {}
  BY <1>a, <1>b, <1>d
<1>4. \A t \in Q \ Out : M2(w) \cap Units(t) = {} /\ lost \cap Units(t) = {}
  BY <1>a, <1>b, <1>d
<1>5. \A v \in Workers \ {w} : /\ M2(w) \cap M(v) = {} /\ lost \cap M(v) = {}
                               /\ \A t \in In : M(v) \cap Units(t) = {}
  BY <1>a, <1>b, <1>d
<1>6. \A t, u \in Q2 : t = u \/ Units(t) \cap Units(u) = {}
  BY <1>a, <1>b, <1>e, <1>3
<1>7. \A v \in Workers, t \in Q2 : M2(v) \cap Units(t) = {}
  BY <1>a, <1>b, <1>c, <1>e, <1>4, <1>5
<1>8. \A v, x \in Workers : x = v \/ M2(v) \cap M2(x) = {}
  BY <1>a, <1>c, <1>5
<1>9. ToDo(s)' = ToDo(s) \ lost
  <2>1. ASSUME NEW u \in ToDo(s)' PROVE u \in ToDo(s) \ lost
    BY <2>1, <1>a, <1>b, <1>c, <1>d, <1>e, <1>g, <1>4, <1>5
  <2>2. ASSUME NEW u \in ToDo(s), u \notin lost PROVE u \in ToDo(s)'
    BY <2>2, <1>b, <1>c, <1>d, <1>g
  <2> QED
    BY <2>1, <2>2
<1> QED
  BY <1>f, <1>6, <1>7, <1>8, <1>9

----------------------------------------------------------------------------
(* Steps of a worker *)

\* What a step of worker w in the frame context s leaves alone.
Touch(w, s) ==
  /\ setup' = setup /\ main' = main /\ last' = last
  /\ Number' = Number
  /\ \A n \in 1 .. Number : pics'[n].filters = pics[n].filters
  /\ \A x \in Slots \ {s} : fc'[x] = fc[x]
  /\ fc'[s].pic = fc[s].pic
  /\ \A v \in Workers \ {w} : at'[v] = at[v] /\ task'[v] = task[v]
  /\ at[w] # "search" => Slot(w) = s
  /\ at'[w] # "search" => task'[w].slot = s

\* ... which includes what other workers do, and the filters of the frames.
LEMMA TouchFacts ==
  ASSUME NEW s \in Slots, NEW w \in Workers, Touch(w, s)
  PROVE  /\ Slots' = Slots
         /\ \A v \in Workers \ {w} : \A x :
              /\ Busy(v, x)' <=> Busy(v, x)
              /\ Mine(v, x)' = Mine(v, x)
              /\ Open(v, x)' = Open(v, x)
         /\ \A x \in Slots \ {s} : Mine(w, x) = {} /\ Mine(w, x)' = {}
         /\ \A x \in Slots \ {s} : ~Busy(w, x) /\ ~Busy(w, x)'
         /\ Busy(w, s) <=> at[w] # "search"
         /\ Busy(w, s)' <=> at'[w] # "search"
         /\ \A x \in Slots : fc[x].pic \in 1 .. Number => Filters(x)' = Filters(x)
<1>1. Slots' = Slots
  BY SameSetup DEF Touch
<1>2. \A v \in Workers \ {w} : \A x : Busy(v, x)' <=> Busy(v, x)
  BY DEF Touch, Busy, Slot
<1>3. AllUnits' = AllUnits /\ Tiles' = Tiles /\ Rows' = Rows /\ \A t : Units(t)' = Units(t)
  BY SameSetup DEF Touch
<1>4. PassUnits(0)' = PassUnits(0)
  BY <1>3 DEF PassUnits
<1>5. \A v \in Workers \ {w} : \A x : Mine(v, x)' = Mine(v, x)
  BY <1>2, <1>3, <1>4 DEF Touch, Mine
<1>6. \A v \in Workers \ {w} : \A x : Open(v, x)' = Open(v, x)
  BY <1>5 DEF Touch, Open
<1>7. \A x \in Slots \ {s} : ~Busy(w, x) /\ ~Busy(w, x)'
  BY DEF Touch, Busy, Slot
<1>8. \A x \in Slots \ {s} : Mine(w, x) = {} /\ Mine(w, x)' = {}
  BY <1>7 DEF Mine
<1>9. (Busy(w, s) <=> at[w] # "search") /\ (Busy(w, s)' <=> at'[w] # "search")
  BY DEF Touch, Busy, Slot
<1>10. ASSUME NEW x \in Slots, fc[x].pic \in 1 .. Number
       PROVE  Filters(x)' = Filters(x)
  <2>1. fc'[x].pic = fc[x].pic
    BY DEF Touch
  <2> QED
    BY <2>1, <1>10 DEF Touch, Filters
<1> QED
  BY <1>1, <1>2, <1>5, <1>6, <1>7, <1>8, <1>9, <1>10

\* A frame context that looks the same to the invariant is as good as before.
LEMMA SameFrame ==
  ASSUME NEW x \in Slots, setup' = setup, 1 .. Number \subseteq 1 .. Number',
         fc'[x] = fc[x],
         fc[x].pic \in 1 .. Number => Filters(x)' = Filters(x),
         \A v \in Workers : /\ Busy(v, x)' <=> Busy(v, x)
                            /\ Mine(v, x)' = Mine(v, x) /\ Open(v, x)' = Open(v, x)
                            /\ Busy(v, x) => at'[v] = at[v] /\ task'[v] = task[v]
  PROVE  (Clean(x) => Clean(x)') /\ (FrameOK(x) => FrameOK(x)')
<1>1. Clean(x) => Clean(x)'
  BY DEF Clean
<1> SUFFICES ASSUME FrameOK(x) PROVE FrameOK(x)'
  BY <1>1
<1>2. Filters(x)' = Filters(x) /\ fc[x].pic \in 1 .. Number
  BY DEF FrameOK
<1>3. /\ AllUnits' = AllUnits /\ \A t : Units(t)' = Units(t)
      /\ \A t, filters : TaskOK(t, filters)' <=> TaskOK(t, filters)
      /\ RowStart' = RowStart /\ Rows' = Rows /\ Sbh' = Sbh /\ TwoPass' = TwoPass
  BY SameSetup
<1>4. TasksOK(x)'
  <2>1. TasksOK(x)
    BY DEF FrameOK
  <2>2. \A t \in fc'[x].queue : t.slot = None /\ TaskOK(t, Filters(x))'
    BY <2>1, <1>2, <1>3 DEF TasksOK
  <2>3. ASSUME NEW v \in Workers, Busy(v, x)'
        PROVE  TaskOK(task[v], Filters(x))' /\ PlaceOK(at[v], task[v].type)'
    <3>1. Busy(v, x) /\ at'[v] = at[v] /\ task'[v] = task[v]
      BY <2>3
    <3>2. TaskOK(task[v], Filters(x)) /\ PlaceOK(at[v], task[v].type)
      BY <3>1, <2>1 DEF TasksOK
    <3>3. TaskOK(task[v], Filters(x))'
      BY <3>1, <3>2, <1>2, SameSetup DEF TaskOK, TileRow
    <3> QED
      BY <3>1, <3>2, <3>3 DEF PlaceOK
  <2> QED
    BY <2>2, <2>3 DEF TasksOK
<1>5. Apart(x)'
  BY <1>3 DEF FrameOK, Apart
<1>6. ToDo(x)' = ToDo(x)
  BY <1>3 DEF ToDo
<1>7. ChainOK(x)'
  BY <1>3 DEF FrameOK, ChainOK, Pass
<1>8. RowsOK(x)'
  <2>1. \A p : Before(x, p)' <=> Before(x, p)
    BY DEF Before
  <2>2. \A p, r : RowOpen(x, p, r)' <=> RowOpen(x, p, r)
    BY <1>3 DEF RowOpen
  <2>3. Publishing(x)' <=> Publishing(x)
    BY DEF Publishing
  <2> QED
    BY <2>1, <2>2, <2>3, <1>3 DEF FrameOK, RowsOK
<1> QED
  BY <1>2, <1>4, <1>5, <1>6, <1>7, <1>8 DEF FrameOK

\* The other frame contexts are as good as before.
LEMMA Elsewhere ==
  ASSUME NEW s \in Slots, NEW w \in Workers, Touch(w, s), NEW x \in Slots \ {s}
  PROVE  (Clean(x) => Clean(x)') /\ (FrameOK(x) => FrameOK(x)')
<1>1. setup' = setup /\ 1 .. Number \subseteq 1 .. Number' /\ fc'[x] = fc[x]
  BY DEF Touch
<1>2. fc[x].pic \in 1 .. Number => Filters(x)' = Filters(x)
  BY TouchFacts
<1>3. ASSUME NEW v \in Workers
      PROVE  /\ Busy(v, x)' <=> Busy(v, x)
             /\ Mine(v, x)' = Mine(v, x) /\ Open(v, x)' = Open(v, x)
             /\ Busy(v, x) => at'[v] = at[v] /\ task'[v] = task[v]
  <2>1. CASE v # w
    BY <2>1, TouchFacts DEF Touch
  <2>2. CASE v = w
    <3>1. Mine(w, x) = {} /\ Mine(w, x)' = {} /\ ~Busy(w, x) /\ ~Busy(w, x)'
      BY TouchFacts
    <3> QED
      BY <2>2, <3>1 DEF Open
  <2> QED
    BY <2>1, <2>2
<1> QED
  BY <1>1, <1>2, <1>3, SameFrame

\* It is enough to look at the frame that a worker is in.
LEMMA StepInv ==
  ASSUME IInv, NEW s \in Slots, NEW w \in Workers, Touch(w, s), Unfinished(s), TypeOK',
         IF fc'[s].finished THEN Clean(s)' ELSE FrameOK(s)'
  PROVE  IInv'
<1>1. Slots' = Slots
  BY TouchFacts
<1>2. ASSUME NEW x \in Slots
      PROVE  IF fc'[x].finished THEN Clean(x)' ELSE FrameOK(x)'
  BY Elsewhere DEF Touch, IInv
<1>3. \A v \in Workers : at'[v] # "search" => Slot(v)' \in Slots
  BY DEF IInv, Touch, Slot
<1>4. \A x, y \in Slots : Unfinished(x)' /\ Unfinished(y)' /\ x # y => fc'[x].pic # fc'[y].pic
  BY DEF IInv, Touch, Unfinished
<1>5. TwoPass' \/ main' = "wait"
  BY SameSetup DEF IInv, Touch, Unfinished
<1>6. last' \in 0 .. Number'
  BY DEF IInv, Touch
<1> QED
  BY <1>1, <1>2, <1>3, <1>4, <1>5, <1>6 DEF IInv

\* The frame that a worker is in.
LEMMA BusyFacts ==
  ASSUME IInv, NEW w \in Workers, at[w] # "search", NEW s, s = Slot(w)
  PROVE  /\ s \in Slots /\ Busy(w, s) /\ Unfinished(s) /\ FrameOK(s)
         /\ Frame(w) = fc[s] /\ task[w].slot = s
         /\ fc[s] \in Frames /\ fc[s].pic \in 1 .. Number /\ ~fc[s].finished
         /\ task[w] \in Tasks /\ TaskOK(task[w], Filters(s)) /\ PlaceOK(at[w], task[w].type)
         /\ setup \in DOMAIN Setups /\ task \in [Workers -> Tasks]
         /\ TasksOK(s) /\ Apart(s) /\ RowsOK(s) /\ ChainOK(s)
         /\ Picture(w) = pics[fc[s].pic] /\ Picture(w).filters = Filters(s)
         /\ pics[fc[s].pic] \in Pictures /\ pics \in [1 .. Number -> Pictures] /\ Number \in Nat
         /\ Number <= MaxFrames
         /\ Filters(s) \subseteq {"deblock", "cdef"}
<1>1. s \in Slots /\ Busy(w, s)
  BY DEF IInv, Busy
<1>2. ~fc[s].finished
  BY <1>1 DEF IInv, Clean
<1>3. FrameOK(s) /\ Unfinished(s)
  BY <1>1, <1>2 DEF IInv, Unfinished
<1>4. /\ fc \in [Slots -> Frames] /\ task \in [Workers -> Tasks] /\ setup \in DOMAIN Setups
      /\ pics \in Seq(Pictures) /\ Number <= MaxFrames
  BY DEF IInv, TypeOK
<1>5. pics \in [1 .. Number -> Pictures] /\ Number \in Nat
  BY <1>4 DEF Number
<1>6. fc[s].pic \in 1 .. Number /\ TasksOK(s) /\ Apart(s) /\ RowsOK(s) /\ ChainOK(s)
  BY <1>3 DEF FrameOK
<1>7. TaskOK(task[w], Filters(s)) /\ PlaceOK(at[w], task[w].type)
  BY <1>1, <1>6 DEF TasksOK
<1>8. pics[fc[s].pic] \in Pictures
  BY <1>5, <1>6
<1>9. Filters(s) \subseteq {"deblock", "cdef"}
  BY <1>8 DEF Filters, Pictures
<1> QED
  BY <1>1, <1>2, <1>3, <1>4, <1>5, <1>6, <1>7, <1>8, <1>9 DEF Frame, Slot, Picture, Filters

\* They are tasks of the frame, next to next_tile_row, and w is where it may be.
Fits(w, s, In, Out) ==
  /\ \A t \in In : t.slot = None /\ TaskOK(t, Filters(s))
  /\ at'[w] # "search" => TaskOK(task'[w], Filters(s)) /\ PlaceOK(at'[w], task'[w].type)
  /\ \A t \in In : t.recon # 0 =>
       LET ntr == fc'[s].nextTileRow[Pass(t)]
       IN RowStart[ntr] <= t.sby /\ t.sby < RowStart[ntr + 1]
  /\ \A t \in fc[s].queue \ Out : t.recon # 0 =>
       fc'[s].nextTileRow[Pass(t)] = fc[s].nextTileRow[Pass(t)]

\* Tasks that change hands within a frame.
LEMMA Turn ==
  ASSUME IInv, NEW s \in Slots, NEW w \in Workers, Touch(w, s), FrameOK(s),
         NEW In, NEW Out, NEW lost, Exchange(w, s, In, Out, lost), Fits(w, s, In, Out)
  PROVE  /\ (fc[s].pic \in 1 .. Number)' /\ TasksOK(s)' /\ Apart(s)' /\ ChainOK(s)'
         /\ ToDo(s)' = ToDo(s) \ lost
<1>1. setup' = setup /\ fc'[s].pic = fc[s].pic /\ Number' = Number
  BY DEF Touch
<1>2. \A v \in Workers \ {w} : Mine(v, s)' = Mine(v, s)
  BY TouchFacts
<1>4. fc[s].pic \in 1 .. Number /\ TasksOK(s) /\ ChainOK(s) /\ Apart(s)
  BY DEF FrameOK
<1>3. Apart(s)' /\ ToDo(s)' = ToDo(s) \ lost
  BY <1>1, <1>2, <1>4, Move
<1>5. Filters(s)' = Filters(s)
  BY <1>4, TouchFacts
<1>6. \A t, filters : TaskOK(t, filters)' <=> TaskOK(t, filters)
  BY <1>1, SameSetup
<1>e. Out \subseteq fc[s].queue /\ fc'[s].queue = (fc[s].queue \ Out) \cup In
  BY DEF Exchange
<1>7. TasksOK(s)'
  <2>1. \A t \in fc'[s].queue : t.slot = None /\ TaskOK(t, Filters(s))'
    BY <1>4, <1>5, <1>6, <1>e DEF TasksOK, Fits
  <2>2. ASSUME NEW v \in Workers, Busy(v, s)'
        PROVE  TaskOK(task[v], Filters(s))' /\ PlaceOK(at[v], task[v].type)'
    <3>1. TaskOK(task'[v], Filters(s)) /\ PlaceOK(at'[v], task'[v].type)
      <4>1. CASE v = w
        BY <4>1, <2>2, TouchFacts DEF Fits
      <4>2. CASE v # w
        <5>1. Busy(v, s) /\ at'[v] = at[v] /\ task'[v] = task[v]
          BY <4>2, <2>2, TouchFacts DEF Touch
        <5> QED
          BY <5>1, <1>4 DEF TasksOK
      <4> QED
        BY <4>1, <4>2
    <3>2. TaskOK(task[v], Filters(s))'
      BY <3>1, <1>1, <1>5, SameSetup DEF TaskOK, TileRow
    <3> QED
      BY <3>1, <3>2 DEF PlaceOK
  <2> QED
    BY <2>1, <2>2 DEF TasksOK
<1>8. ChainOK(s)'
  <2>1. RowStart' = RowStart /\ \A t : Pass(t)' = Pass(t)
    BY <1>1, SameSetup DEF Pass
  <2>2. ASSUME NEW t \in fc'[s].queue, t.recon # 0
        PROVE  /\ RowStart[fc'[s].nextTileRow[Pass(t)]] <= t.sby
               /\ t.sby < RowStart[fc'[s].nextTileRow[Pass(t)] + 1]
    <3>1. CASE t \in In
      BY <3>1, <2>2 DEF Fits
    <3>2. CASE t \in fc[s].queue \ Out
      BY <3>2, <2>2, <1>4 DEF ChainOK, Fits
    <3> QED
      BY <3>1, <3>2, <1>e
  <2> QED
    BY <2>1, <2>2 DEF ChainOK
<1> QED
  BY <1>1, <1>3, <1>4, <1>7, <1>8

\* The rows that are still open after that.
LEMMA OpenKept ==
  ASSUME NEW s \in Slots, NEW w \in Workers, Touch(w, s),
         NEW In, NEW Out, Out \subseteq fc[s].queue,
         fc'[s].queue = (fc[s].queue \ Out) \cup In, NEW p, NEW r,
         (<<p, "row", r>> \in Open(w, s) \/ \E t \in Out : <<p, "row", r>> \in Units(t)) <=>
         (<<p, "row", r>> \in Open(w, s)' \/ \E t \in In : <<p, "row", r>> \in Units(t))
  PROVE  RowOpen(s, p, r)' <=> RowOpen(s, p, r)
<1> DEFINE u == <<p, "row", r>>
<1>1. \A t : Units(t)' = Units(t)
  BY SameSetup DEF Touch
<1>2. \A v \in Workers \ {w} : Open(v, s)' = Open(v, s)
  BY TouchFacts
<1>3. RowOpen(s, p, r) <=> \/ \E t \in fc[s].queue \ Out : u \in Units(t)
                           \/ \E t \in Out : u \in Units(t)
                           \/ u \in Open(w, s)
                           \/ \E v \in Workers \ {w} : u \in Open(v, s)
  BY DEF RowOpen
<1>4. RowOpen(s, p, r)' <=> \/ \E t \in fc[s].queue \ Out : u \in Units(t)
                            \/ \E t \in In : u \in Units(t)
                            \/ u \in Open(w, s)'
                            \/ \E v \in Workers \ {w} : u \in Open(v, s)
  BY <1>1, <1>2 DEF RowOpen
<1> QED
  BY <1>3, <1>4

\* A row is in the same hands before and after, or in none.
Trades(w, s, In, Out, p, r) ==
  /\ Out \subseteq fc[s].queue /\ fc'[s].queue = (fc[s].queue \ Out) \cup In
  /\ (<<p, "row", r>> \in Open(w, s) \/ \E t \in Out : <<p, "row", r>> \in Units(t)) <=>
     (<<p, "row", r>> \in Open(w, s)' \/ \E t \in In : <<p, "row", r>> \in Units(t))

\* Then it is open after the step if it was before.
LEMMA Traded ==
  ASSUME NEW s \in Slots, NEW w \in Workers, Touch(w, s), NEW In, NEW Out, NEW p, NEW r,
         Trades(w, s, In, Out, p, r)
  PROVE  RowOpen(s, p, r)' <=> RowOpen(s, p, r)
<1>1. Out \subseteq fc[s].queue /\ fc'[s].queue = (fc[s].queue \ Out) \cup In
  BY DEF Trades
<1>2. (<<p, "row", r>> \in Open(w, s) \/ \E t \in Out : <<p, "row", r>> \in Units(t)) <=>
      (<<p, "row", r>> \in Open(w, s)' \/ \E t \in In : <<p, "row", r>> \in Units(t))
  BY DEF Trades
<1> QED
  BY <1>1, <1>2, OpenKept

\* A row that the worker has neither before nor after stays as it is.
LEMMA OpenStays ==
  ASSUME NEW s \in Slots, NEW w \in Workers, Touch(w, s), fc'[s].queue = fc[s].queue,
         NEW p, NEW r, <<p, "row", r>> \in Open(w, s) <=> <<p, "row", r>> \in Open(w, s)'
  PROVE  RowOpen(s, p, r)' <=> RowOpen(s, p, r)
<1>1. fc'[s].queue = (fc[s].queue \ {}) \cup {}
  OBVIOUS
<1>2. Trades(w, s, {}, {}, p, r)
  BY <1>1 DEF Trades
<1> QED
  BY <1>2, Traded

\* What worker w has open is the unit u, no more after the step.
Closes(w, s, u) ==
  /\ fc'[s].queue = fc[s].queue
  /\ Open(w, s) = {u} /\ Open(w, s)' = {}

\* A worker that finishes its row closes that one.
LEMMA OpenClosed ==
  ASSUME IInv, NEW s \in Slots, NEW w \in Workers, Touch(w, s), FrameOK(s),
         NEW p, NEW r, NEW q, NEW i, Closes(w, s, <<q, "row", i>>)
  PROVE  RowOpen(s, p, r)' <=> RowOpen(s, p, r) /\ ~(p = q /\ r = i)
<1> DEFINE u == <<p, "row", r>>
<1>0. fc'[s].queue = fc[s].queue /\ Open(w, s) = {<<q, "row", i>>} /\ Open(w, s)' = {}
  BY DEF Closes
<1>1. \A t : Units(t)' = Units(t)
  BY SameSetup DEF Touch
<1>2. \A v \in Workers \ {w} : Open(v, s)' = Open(v, s)
  BY TouchFacts
<1>3. RowOpen(s, p, r) <=> \/ \E t \in fc[s].queue : u \in Units(t)
                           \/ u = <<q, "row", i>>
                           \/ \E v \in Workers \ {w} : u \in Open(v, s)
  BY <1>0 DEF RowOpen
<1>4. RowOpen(s, p, r)' <=> \/ \E t \in fc[s].queue : u \in Units(t)
                            \/ \E v \in Workers \ {w} : u \in Open(v, s)
  BY <1>0, <1>1, <1>2 DEF RowOpen
<1>5. <<q, "row", i>> \in Mine(w, s)
  BY <1>0 DEF Open
<1>6. /\ \A t \in fc[s].queue : <<q, "row", i>> \notin Units(t)
      /\ \A v \in Workers \ {w} : <<q, "row", i>> \notin Open(v, s)
  BY <1>5 DEF FrameOK, Apart, Open
<1> QED
  BY <1>3, <1>4, <1>6

\* Tasks that start no frame.
NoStart(w, s, In, Out) ==
  /\ Out \subseteq fc[s].queue
  /\ fc'[s].queue = (fc[s].queue \ Out) \cup In
  /\ \A t \in In \cup Out : t.type \notin InitTypes
  /\ Busy(w, s) => task[w].type \notin InitTypes
  /\ Busy(w, s)' => task'[w].type \notin InitTypes

\* They do not change which passes are created.
LEMMA BeforeKept ==
  ASSUME NEW s \in Slots, NEW w \in Workers, Touch(w, s),
         NEW In, NEW Out, NoStart(w, s, In, Out)
  PROVE  \A p : Before(s, p)' <=> Before(s, p)
<1>1. \A v \in Workers \ {w} : Busy(v, s)' <=> Busy(v, s)
  BY TouchFacts
<1>2. (\E t \in fc'[s].queue : t.type \in InitTypes) <=> \E t \in fc[s].queue : t.type \in InitTypes
  BY DEF NoStart
<1>3. ASSUME NEW p
      PROVE  (\E v \in Workers : Busy(v, s) /\ task[v].type \in InitTypes /\ (p = 1 => at[v] # "create"))'
             <=> \E v \in Workers : Busy(v, s) /\ task[v].type \in InitTypes /\ (p = 1 => at[v] # "create")
  <2>1. Busy(w, s) => task[w].type \notin InitTypes
    BY DEF NoStart
  <2>2. Busy(w, s)' => task'[w].type \notin InitTypes
    BY DEF NoStart
  <2> QED
    BY <1>1, <2>1, <2>2 DEF Touch, InitTypes
<1> QED
  BY <1>2, <1>3 DEF Before, InitTypes

----------------------------------------------------------------------------
(* The ways in which a worker goes on *)

\* What is to do is finite, and includes what is in anybody's hands.
LEMMA ToDoFacts ==
  ASSUME setup \in DOMAIN Setups, task \in [Workers -> Tasks], fc \in [Slots -> Frames],
         NEW s \in Slots, TasksOK(s)
  PROVE  /\ IsFiniteSet(ToDo(s))
         /\ \A t \in fc[s].queue : t \in Tasks /\ Units(t) \subseteq ToDo(s) /\ Units(t) # {}
         /\ \A v \in Workers : Mine(v, s) \subseteq ToDo(s)
         /\ ToDo(s) \subseteq AllUnits
<1>1. ToDo(s) \subseteq AllUnits
  BY DEF ToDo
<1>2. IsFiniteSet(ToDo(s))
  BY <1>1, AllCount, FS_Subset
<1>3. \A t \in fc[s].queue : t \in Tasks
  BY DEF Frames
<1>4. \A t \in fc[s].queue : TaskOK(t, Filters(s))
  BY DEF TasksOK
<1>5. \A t \in fc[s].queue : Units(t) \subseteq AllUnits /\ Units(t) # {}
  BY <1>3, <1>4, UnitsFacts
<1>6. \A v \in Workers : Mine(v, s) \subseteq AllUnits
  BY MineFacts
<1> QED
  BY <1>1, <1>2, <1>3, <1>5, <1>6 DEF ToDo

\* A worker that has all there is to do is alone in its frame.
LEMMA Alone ==
  ASSUME IInv, NEW w \in Workers, at[w] # "search", NEW s, s = Slot(w),
         ToDo(s) \subseteq Mine(w, s)
  PROVE  fc[s].queue = {} /\ \A v \in Workers \ {w} : ~Busy(v, s)
<1>1. /\ s \in Slots /\ TasksOK(s) /\ Apart(s) /\ setup \in DOMAIN Setups
      /\ task \in [Workers -> Tasks] /\ fc \in [Slots -> Frames]
  BY BusyFacts DEF IInv, TypeOK
<1>2. /\ \A t \in fc[s].queue : Units(t) \subseteq ToDo(s) /\ Units(t) # {}
      /\ \A v \in Workers : Mine(v, s) \subseteq ToDo(s)
  BY <1>1, ToDoFacts
<1>3. fc[s].queue = {}
  BY <1>1, <1>2 DEF Apart
<1>4. \A v \in Workers \ {w} : Mine(v, s) = {}
  BY <1>1, <1>2 DEF Apart
<1>5. \A v \in Workers \ {w} : ~Busy(v, s)
  BY <1>1, <1>4, MineFacts
<1> QED
  BY <1>3, <1>5

\* Nothing changes in the rows.
LEMMA RowsKept ==
  ASSUME NEW s \in Slots, setup' = setup, RowsOK(s),
         fc'[s].frame = fc[s].frame, fc'[s].done = fc[s].done,
         Before(s, 0)' <=> Before(s, 0), Before(s, 1)' <=> Before(s, 1),
         \A r \in Rows : /\ RowOpen(s, 0, r)' <=> RowOpen(s, 0, r)
                         /\ RowOpen(s, 1, r)' <=> RowOpen(s, 1, r),
         Publishing(s)' <=> Publishing(s), Sbh - 1 \in Rows
  PROVE  RowsOK(s)'
<1>1. Rows' = Rows /\ Sbh' = Sbh /\ TwoPass' = TwoPass
  BY SameSetup
<1>2. RowOpen(s, 1, Sbh - 1)' <=> RowOpen(s, 1, Sbh - 1)
  <2> PICK r \in Rows : r = Sbh - 1
    OBVIOUS
  <2>1. RowOpen(s, 1, r)' <=> RowOpen(s, 1, r)
    OBVIOUS
  <2>2. r = (Sbh - 1)'
    BY <1>1
  <2> QED
    BY <2>1, <2>2 DEF RowOpen
<1> QED
  BY <1>1, <1>2 DEF RowsOK

\* The worker keeps what it has.
LEMMA Stay ==
  ASSUME IInv, NEW w \in Workers, at[w] # "search", NEW s, s = Slot(w), Touch(w, s), TypeOK',
         fc'[s].queue = fc[s].queue, fc'[s].counter = fc[s].counter,
         fc'[s].nextTileRow = fc[s].nextTileRow, ~fc'[s].finished,
         Mine(w, s)' = Mine(w, s), TaskOK(task'[w], Filters(s)),
         PlaceOK(at'[w], task'[w].type), RowsOK(s)'
  PROVE  IInv'
<1>1. s \in Slots /\ FrameOK(s) /\ Unfinished(s)
  BY BusyFacts
<1>2. Exchange(w, s, {}, {}, {}) /\ Fits(w, s, {}, {})
  BY DEF Exchange, Fits
<1>3. /\ (fc[s].pic \in 1 .. Number)' /\ TasksOK(s)' /\ Apart(s)' /\ ChainOK(s)'
      /\ ToDo(s)' = ToDo(s) \ {}
  BY <1>1, <1>2, Turn
<1>4. FrameOK(s)'
  BY <1>1, <1>3 DEF FrameOK
<1> QED
  BY <1>1, <1>4, StepInv

\* The worker puts it back into the queue.
LEMMA Back ==
  ASSUME IInv, NEW w \in Workers, at[w] # "search", NEW s, s = Slot(w), Touch(w, s), TypeOK',
         NEW t, fc'[s].queue = fc[s].queue \cup {t}, fc'[s].counter = fc[s].counter,
         fc'[s].nextTileRow = fc[s].nextTileRow, ~fc'[s].finished,
         Units(t) = Mine(w, s), TaskOK(t, Filters(s)), t.slot = None, t.recon = 0,
         at'[w] = "search", RowsOK(s)'
  PROVE  IInv'
<1>1. s \in Slots /\ FrameOK(s) /\ Unfinished(s)
  BY BusyFacts
<1>2. Mine(w, s)' = {}
  BY DEF Mine, Busy
<1>3. Exchange(w, s, {t}, {}, {})
  BY <1>2 DEF Exchange
<1>a. Fits(w, s, {t}, {})
  BY DEF Fits
<1>4. /\ (fc[s].pic \in 1 .. Number)' /\ TasksOK(s)' /\ Apart(s)' /\ ChainOK(s)'
      /\ ToDo(s)' = ToDo(s) \ {}
  BY <1>1, <1>a, <1>3, Turn
<1>5. FrameOK(s)'
  BY <1>1, <1>4 DEF FrameOK
<1> QED
  BY <1>1, <1>5, StepInv

\* What the last task of a frame finds: every pass is done.
LEMMA LastDone ==
  ASSUME IInv, NEW w \in Workers, at[w] \in {"tileDone", "tileFailed", "count"},
         NEW s, s = Slot(w), ToDo(s) \subseteq Mine(w, s)
  PROVE  fc[s].done[0] /\ (TwoPass => fc[s].done[1])
<1>1. /\ s \in Slots /\ RowsOK(s) /\ TasksOK(s) /\ setup \in DOMAIN Setups
      /\ task \in [Workers -> Tasks] /\ PlaceOK(at[w], task[w].type) /\ Busy(w, s)
  BY BusyFacts
<1>2. fc[s].queue = {} /\ \A v \in Workers \ {w} : ~Busy(v, s)
  BY Alone
<1>3. task[w].type \notin InitTypes /\ (at[w] # "count" => IsTile(task[w]))
  BY <1>1 DEF PlaceOK, InitTypes, IsTile
<1>4. ~Before(s, 0) /\ ~Before(s, 1)
  BY <1>2, <1>3 DEF Before
<1>5. ~Publishing(s)
  BY <1>2 DEF Publishing
<1>6. \A p, r : ~RowOpen(s, p, r)
  <2>1. \A v \in Workers \ {w} : Open(v, s) = {}
    BY <1>2 DEF Open, Mine
  <2>2. \A p, r : <<p, "row", r>> \notin Open(w, s)
    BY <1>1, <1>3, MineFacts DEF Open
  <2> QED
    BY <1>2, <2>1, <2>2 DEF RowOpen
<1>7. Rows \subseteq fc[s].frame
  BY <1>1, <1>4, <1>6 DEF RowsOK
<1> QED
  BY <1>1, <1>4, <1>5, <1>6, <1>7 DEF RowsOK

\* Leaving a frame changes only the error and that it is finished ...
LEMMA LeftTypes ==
  ASSUME NEW f \in Frames, NEW fail \in BOOLEAN
  PROVE  /\ Left(f, fail) \in Frames /\ Left(f, fail).finished
         /\ Left(f, fail).queue = f.queue /\ Left(f, fail).pic = f.pic
         /\ Left(f, fail).counter = f.counter
<1>1. NotCompliant(f, fail) \in BOOLEAN
  BY DEF NotCompliant
<1> QED
  BY <1>1 DEF Left, Frames

\* ... and, of its picture, neither the filters nor what it refers to.
LEMMA LeftPicTypes ==
  ASSUME setup \in DOMAIN Setups, NEW f, NEW fail \in BOOLEAN, NEW p \in Pictures
  PROVE  /\ LeftPic(f, p, fail) \in Pictures
         /\ LeftPic(f, p, fail).filters = p.filters
         /\ LeftPic(f, p, fail).ref = p.ref /\ LeftPic(f, p, fail).outCdf = p.outCdf
         /\ LeftPic(f, p, fail).refresh = p.refresh
         /\ LeftPic(f, p, fail).filtered = p.filtered
         /\ LeftPic(f, p, fail).damaged = p.damaged
         /\ LeftPic(f, p, fail).status # "decoding"
<1>1. NotCompliant(f, fail) \in BOOLEAN
  BY DEF NotCompliant
<1>2. FRAME_ERROR \in 0 .. TILE_ERROR
  BY SetupFacts DEF FRAME_ERROR, TILE_ERROR
<1> DEFINE nc == NotCompliant(f, fail)
           prog == IF nc THEN [p.progress EXCEPT ![1] = FRAME_ERROR] ELSE p.progress
           x == LeftPic(f, p, fail)
<1> HIDE DEF nc
<1>3. prog \in Progress
  BY <1>2 DEF Pictures, Progress
<1>4. x = [p EXCEPT !.status = IF fail \/ nc THEN "failed" ELSE "ok",
                    !.progress = prog,
                    !.cdf = IF ~p.refresh THEN @ ELSE IF fail \/ nc THEN "error" ELSE "ok"]
  BY DEF LeftPic, nc, Pictures, Progress
<1> QED
  BY <1>3, <1>4 DEF Pictures

\* The invariant after a task is counted, whatever else it did to its frame f
\* and its picture p: the last one leaves the frame with nothing behind.
LEMMA Counted ==
  ASSUME IInv, NEW w \in Workers, at[w] \in {"tileDone", "tileFailed", "count"},
         NEW s, s = Slot(w), NEW f \in Frames, NEW p \in Pictures,
         f.queue = fc[s].queue, f.counter = fc[s].counter, f.frame = fc[s].frame,
         f.done = fc[s].done, f.nextTileRow = fc[s].nextTileRow,
         f.finished = fc[s].finished, f.pic = fc[s].pic, p.filters = Filters(s),
         CountTask(w, f, p), UNCHANGED <<task, caller>>
  PROVE  IInv'
<1>1. /\ s \in Slots /\ Busy(w, s) /\ FrameOK(s) /\ fc[s] \in Frames /\ Unfinished(s)
      /\ fc[s].pic \in 1 .. Number /\ Number \in Nat /\ pics \in [1 .. Number -> Pictures]
      /\ setup \in DOMAIN Setups /\ task \in [Workers -> Tasks] /\ task[w] \in Tasks
      /\ TasksOK(s) /\ RowsOK(s) /\ Filters(s) = pics[fc[s].pic].filters /\ ~fc[s].finished
      /\ PlaceOK(at[w], task[w].type) /\ TaskOK(task[w], Filters(s))
  BY BusyFacts
<1>2. /\ fc \in [Slots -> Frames] /\ at \in [Workers -> Places] /\ pics \in Seq(Pictures)
      /\ Number <= MaxFrames
  BY DEF IInv, TypeOK
<1>3. PICK g : g = [f EXCEPT !.counter = @ - 1]
  OBVIOUS
<1>4. PICK h : h = IF Complete(g) THEN Left(g, ExitError(g)) ELSE g
  OBVIOUS
<1>5. PICK q : q = IF Complete(g) THEN LeftPic(g, p, ExitError(g)) ELSE p
  OBVIOUS
<1>6. /\ fc' = [fc EXCEPT ![s] = h]
      /\ pics' = [pics EXCEPT ![fc[s].pic] = q]
      /\ at' = [at EXCEPT ![w] = "search"]
      /\ task' = task /\ setup' = setup /\ main' = main /\ last' = last
      /\ flush' = flush /\ flushes' = flushes
  BY <1>3, <1>4, <1>5 DEF CountTask, Goto, caller, Frames
<1>7. task[w].type \notin InitTypes /\ (at[w] # "count" => IsTile(task[w]))
  BY <1>1 DEF PlaceOK, InitTypes, IsTile
<1>8. PICK u : Mine(w, s) = {u} /\ (u = <<Pass(task[w]), "tile", task[w].tile>> \/ at[w] = "count")
  BY <1>1, <1>7, MineFacts
<1>9. /\ IsFiniteSet(ToDo(s)) /\ u \in ToDo(s) /\ fc[s].counter = Cardinality(ToDo(s))
      /\ \A t \in fc[s].queue : Units(t) \subseteq ToDo(s) /\ Units(t) # {}
  BY <1>1, <1>2, <1>8, ToDoFacts DEF FrameOK
<1>10. /\ IsFiniteSet(ToDo(s) \ {u}) /\ Cardinality(ToDo(s) \ {u}) = fc[s].counter - 1
       /\ fc[s].counter - 1 \in Nat
  <2>1. /\ IsFiniteSet(ToDo(s) \ {u})
        /\ Cardinality(ToDo(s) \ {u}) = Cardinality(ToDo(s)) - 1
    BY <1>9, FS_RemoveElement
  <2>2. Cardinality(ToDo(s) \ {u}) \in Nat
    BY <2>1, FS_CardinalityType
  <2> QED
    BY <1>9, <2>1, <2>2
<1>11. /\ g \in Frames /\ g.counter = fc[s].counter - 1 /\ g.queue = f.queue /\ g.frame = f.frame
       /\ g.done = f.done /\ g.nextTileRow = f.nextTileRow /\ g.finished = f.finished
       /\ g.pic = f.pic /\ g.error = f.error
  BY <1>3, <1>10 DEF Frames
<1>12. g.error \in BOOLEAN
  BY <1>11 DEF Frames
<1>13. /\ h \in Frames /\ h.queue = f.queue /\ h.pic = f.pic /\ h.counter = g.counter
       /\ Complete(g) => h.finished
       /\ ~Complete(g) => h = g
  BY <1>4, <1>11, <1>12, LeftTypes DEF ExitError
<1>14. q \in Pictures /\ q.filters = p.filters
  BY <1>1, <1>5, <1>12, LeftPicTypes DEF ExitError
<1>15. TypeOK'
  <2>1. fc' \in [Slots -> Frames] /\ at' \in [Workers -> Places]
    BY <1>2, <1>6, <1>13 DEF Places
  <2>2. pics' \in Seq(Pictures) /\ Number' = Number
    BY <1>1, <1>2, <1>6, <1>14 DEF Number
  <2> QED
    BY <1>1, <1>2, <1>6, <2>1, <2>2, SameSetup DEF IInv, TypeOK, PicIds
<1>16. fc'[s] = h
  BY <1>1, <1>2, <1>6
<1>17. Touch(w, s)
  <2>1. Number' = Number /\ \A n \in 1 .. Number : pics'[n].filters = pics[n].filters
    BY <1>1, <1>2, <1>6, <1>14 DEF Number
  <2>2. \A x \in Slots \ {s} : fc'[x] = fc[x]
    BY <1>2, <1>6
  <2>3. \A v \in Workers \ {w} : at'[v] = at[v] /\ task'[v] = task[v]
    BY <1>2, <1>6
  <2>4. at'[w] = "search"
    BY <1>2, <1>6
  <2> QED
    BY <1>6, <1>13, <1>16, <2>1, <2>2, <2>3, <2>4 DEF Touch
<1>18. at'[w] = "search" /\ Mine(w, s)' = {} /\ ~Busy(w, s)'
  BY <1>2, <1>6 DEF Mine, Busy
<1>19. ToDo(s) \ {u} = {} <=> fc[s].counter - 1 = 0
  BY <1>10, FS_EmptySet
<1>20. Complete(g) <=> ToDo(s) \ {u} = {}
  <2>1. ASSUME ToDo(s) \ {u} = {}
        PROVE  fc[s].done[0] /\ (TwoPass => fc[s].done[1])
    <3>1. ToDo(s) \subseteq Mine(w, s)
      BY <2>1, <1>8
    <3> QED
      BY <3>1, LastDone
  <2> QED
    BY <2>1, <1>19, <1>11 DEF Complete
<1>21. IF fc'[s].finished THEN Clean(s)' ELSE FrameOK(s)'
  <2>1. CASE Complete(g)
    <3>1. ToDo(s) \subseteq Mine(w, s)
      BY <2>1, <1>20, <1>8
    <3>2. fc[s].queue = {} /\ \A v \in Workers \ {w} : ~Busy(v, s)
      BY <3>1, <1>1, Alone DEF Busy
    <3>3. \A v \in Workers : ~Busy(v, s)'
      BY <3>2, <1>1, <1>17, <1>18, TouchFacts
    <3>4. Clean(s)'
      BY <3>2, <3>3, <1>13, <1>16 DEF Clean
    <3> QED
      BY <3>4, <2>1, <1>13, <1>16
  <2>2. CASE ~Complete(g)
    <3>1. Exchange(w, s, {}, {}, {u}) /\ Fits(w, s, {}, {})
      BY <2>2, <1>8, <1>11, <1>13, <1>16, <1>18 DEF Exchange, Fits
    <3>2. /\ (fc[s].pic \in 1 .. Number)' /\ TasksOK(s)' /\ Apart(s)' /\ ChainOK(s)'
          /\ ToDo(s)' = ToDo(s) \ {u}
      BY <1>1, <1>17, <3>1, Turn
    <3>3. (fc[s].counter = Cardinality(ToDo(s)) /\ ToDo(s) # {})'
      BY <2>2, <3>2, <1>10, <1>11, <1>13, <1>16, <1>20
    <3>4. fc'[s].frame = fc[s].frame /\ fc'[s].done = fc[s].done /\ fc'[s].queue = fc[s].queue
      BY <2>2, <1>11, <1>13, <1>16
    <3>5. \A b : Before(s, b)' <=> Before(s, b)
      <4>1. NoStart(w, s, {}, {})
        BY <3>4, <1>7, <1>18 DEF NoStart
      <4> QED
        BY <4>1, <1>1, <1>17, BeforeKept
    <3>6. ASSUME NEW b, NEW r
          PROVE  RowOpen(s, b, r)' <=> RowOpen(s, b, r)
      <4>1. Open(w, s)' = {}
        BY <1>18 DEF Open
      <4>2. <<b, "row", r>> \notin Open(w, s)
        BY <1>8 DEF Open
      <4> QED
        BY <4>1, <4>2, <3>4, <1>1, <1>17, OpenStays
    <3>7. Publishing(s)' <=> Publishing(s)
      BY <1>1, <1>17, <1>18, TouchFacts DEF Publishing, Touch
    <3>8. Sbh - 1 \in Rows
      BY <1>1, SetupFacts DEF Rows
    <3>9. RowsOK(s)'
      BY <1>1, <1>6, <3>4, <3>5, <3>6, <3>7, <3>8, RowsKept
    <3>10. FrameOK(s)'
      BY <3>2, <3>3, <3>9 DEF FrameOK
    <3> QED
      BY <3>10, <2>2, <1>1, <1>11, <1>13, <1>16
  <2> QED
    BY <2>1, <2>2
<1> QED
  BY <1>1, <1>15, <1>17, <1>21, StepInv

----------------------------------------------------------------------------
(* The steps of a worker, one after the other *)

\* A step that gives worker w, its task, its frame and its picture new values.
StepTo(w, l, k, g, q) ==
  /\ at' = [at EXCEPT ![w] = l]
  /\ task' = [task EXCEPT ![w] = k]
  /\ fc' = [fc EXCEPT ![Slot(w)] = g]
  /\ pics' = [pics EXCEPT ![Frame(w).pic] = q]
  /\ UNCHANGED caller

\* It keeps the types, and leaves other frames alone.
LEMMA Step ==
  ASSUME IInv, NEW w \in Workers, at[w] # "search", NEW s, s = Slot(w),
         NEW l \in Places, NEW k \in Tasks, NEW g \in Frames, NEW q \in Pictures,
         StepTo(w, l, k, g, q), g.pic = fc[s].pic, q.filters = Filters(s),
         l # "search" => k.slot = s
  PROVE  /\ TypeOK' /\ Touch(w, s)
         /\ fc'[s] = g /\ at'[w] = l /\ task'[w] = k /\ pics'[fc[s].pic] = q
         /\ setup' = setup
<1>1. /\ s \in Slots /\ fc[s].pic \in 1 .. Number /\ Number \in Nat
      /\ pics \in [1 .. Number -> Pictures]
      /\ setup \in DOMAIN Setups /\ task \in [Workers -> Tasks]
      /\ Filters(s) = pics[fc[s].pic].filters /\ Frame(w) = fc[s]
  BY BusyFacts DEF Filters
<1>2. /\ fc \in [Slots -> Frames] /\ at \in [Workers -> Places] /\ pics \in Seq(Pictures)
      /\ Number <= MaxFrames
  BY DEF IInv, TypeOK
<1>3. /\ at' = [at EXCEPT ![w] = l] /\ task' = [task EXCEPT ![w] = k]
      /\ fc' = [fc EXCEPT ![s] = g] /\ pics' = [pics EXCEPT ![fc[s].pic] = q]
      /\ setup' = setup /\ main' = main /\ last' = last /\ flush' = flush /\ flushes' = flushes
  BY <1>1 DEF StepTo, caller
<1>4. /\ fc' \in [Slots -> Frames] /\ at' \in [Workers -> Places] /\ task' \in [Workers -> Tasks]
  BY <1>1, <1>2, <1>3
<1>5. pics' \in Seq(Pictures) /\ Number' = Number
  BY <1>1, <1>2, <1>3 DEF Number
<1>6. TypeOK'
  BY <1>1, <1>2, <1>3, <1>4, <1>5, SameSetup DEF IInv, TypeOK, PicIds
<1>7. fc'[s] = g /\ at'[w] = l /\ task'[w] = k /\ pics'[fc[s].pic] = q
  BY <1>1, <1>2, <1>3
<1>8. \A n \in 1 .. Number : pics'[n].filters = pics[n].filters
  BY <1>1, <1>3
<1>9. /\ \A x \in Slots \ {s} : fc'[x] = fc[x]
      /\ \A v \in Workers \ {w} : at'[v] = at[v] /\ task'[v] = task[v]
  BY <1>1, <1>2, <1>3
<1>10. Touch(w, s)
  BY <1>3, <1>5, <1>7, <1>8, <1>9 DEF Touch
<1> QED
  BY <1>3, <1>6, <1>7, <1>10

\* A worker that goes on with its task still has the same work.
LEMMA SameMine ==
  ASSUME NEW w \in Workers, NEW s, setup' = setup, Busy(w, s), Busy(w, s)',
         task'[w].type = task[w].type, task'[w].sby = task[w].sby, task'[w].tile = task[w].tile,
         task'[w].recon = task[w].recon,
         at[w] # "create", at'[w] # "create"
  PROVE  Mine(w, s)' = Mine(w, s)
<1>1. AllUnits' = AllUnits /\ Sbh' = Sbh
  BY SameSetup
<1> QED
  BY <1>1 DEF Mine, Units, IsTile, Pass, RowUnits

\* ... so that no row is opened or closed, and no pass created.
LEMMA StayRows ==
  ASSUME IInv, NEW w \in Workers, at[w] # "search", NEW s, s = Slot(w), Touch(w, s),
         fc'[s].queue = fc[s].queue, Mine(w, s)' = Mine(w, s), at'[w] # "search",
         task'[w].type = task[w].type,
         at[w] \notin {"create", "publish", "count"}, at'[w] \notin {"create", "publish", "count"}
  PROVE  /\ \A p : Before(s, p)' <=> Before(s, p)
         /\ \A p, r : RowOpen(s, p, r)' <=> RowOpen(s, p, r)
         /\ Publishing(s)' <=> Publishing(s)
<1>1. s \in Slots /\ Busy(w, s)
  BY BusyFacts
<1>2. Busy(w, s)' /\ \A v \in Workers \ {w} : Busy(v, s)' <=> Busy(v, s)
  BY <1>1, TouchFacts
<1>3. ASSUME NEW p PROVE Before(s, p)' <=> Before(s, p)
  <2>1. ASSUME NEW v \in Workers
        PROVE  (Busy(v, s) /\ task[v].type \in InitTypes /\ (p = 1 => at[v] # "create"))'
               <=> Busy(v, s) /\ task[v].type \in InitTypes /\ (p = 1 => at[v] # "create")
    BY <1>1, <1>2 DEF Touch, InitTypes
  <2> QED
    BY <2>1 DEF Before, InitTypes
<1>4. ASSUME NEW p, NEW r PROVE RowOpen(s, p, r)' <=> RowOpen(s, p, r)
  <2>1. Open(w, s)' = Open(w, s)
    BY DEF Open
  <2> QED
    BY <1>1, <2>1, OpenStays
<1>5. Publishing(s)' <=> Publishing(s)
  BY <1>1, <1>2 DEF Publishing, Touch
<1> QED
  BY <1>3, <1>4, <1>5

\* What the invariant reads of a frame.
Like(f, g) ==
  /\ g.pic = f.pic /\ g.queue = f.queue /\ g.counter = f.counter
  /\ g.nextTileRow = f.nextTileRow /\ g.finished = f.finished
  /\ g.frame = f.frame /\ g.done = f.done

\* All together, for a step that changes nothing but errors, tile progress,
\* entropy, deblock or copyLpf.
LEMMA GoesOn ==
  ASSUME IInv, NEW w \in Workers, at[w] # "search", NEW s, s = Slot(w),
         NEW l \in Places, NEW k \in Tasks, NEW g \in Frames, NEW q \in Pictures,
         StepTo(w, l, k, g, q), q.filters = Filters(s), k.slot = s,
         Like(fc[s], g), k.type = task[w].type, k.tile = task[w].tile, k.recon = task[w].recon,
         k.sby = task[w].sby \/ IsTile(task[w]), TaskOK(k, Filters(s)), PlaceOK(l, k.type),
         at[w] \notin {"create", "publish", "count"},
         l \notin {"search", "create", "publish", "count"}
  PROVE  IInv'
<1>1. /\ s \in Slots /\ Busy(w, s) /\ RowsOK(s) /\ ~fc[s].finished /\ setup \in DOMAIN Setups
  BY BusyFacts
<1>a. /\ g.pic = fc[s].pic /\ g.queue = fc[s].queue /\ g.counter = fc[s].counter
      /\ g.nextTileRow = fc[s].nextTileRow /\ g.finished = fc[s].finished
      /\ g.frame = fc[s].frame /\ g.done = fc[s].done
  BY DEF Like
<1>2. /\ TypeOK' /\ Touch(w, s) /\ setup' = setup
      /\ fc'[s] = g /\ at'[w] = l /\ task'[w] = k
  BY <1>a, Step
<1>3. Busy(w, s)'
  BY <1>1, <1>2, TouchFacts
<1>4. Mine(w, s)' = Mine(w, s)
  <2>1. CASE k.sby = task[w].sby
    BY <2>1, <1>1, <1>2, <1>3, SameMine
  <2>2. CASE IsTile(task[w])
    <3>1. /\ Mine(w, s) = {<<Pass(task[w]), "tile", task[w].tile>>}
          /\ Mine(w, s)' = {<<Pass(task'[w]), "tile", task'[w].tile>>}
      <4>1. task[w].type \notin InitTypes /\ IsTile(task'[w])
        BY <2>2, <1>2 DEF IsTile, InitTypes
      <4>2. at[w] # "create" /\ at'[w] # "create"
        BY <1>2
      <4> QED
        BY <4>1, <4>2, <2>2, <1>1, <1>2, <1>3 DEF Mine, Units, IsTile, Pass, InitTypes
    <3> QED
      BY <3>1, <1>2 DEF Pass
  <2> QED
    BY <2>1, <2>2
<1>5. /\ \A p : Before(s, p)' <=> Before(s, p)
      /\ \A p, r : RowOpen(s, p, r)' <=> RowOpen(s, p, r)
      /\ Publishing(s)' <=> Publishing(s)
  BY <1>2, <1>4, <1>a, StayRows
<1>6. Sbh - 1 \in Rows
  BY <1>1, SetupFacts DEF Rows
<1>7. RowsOK(s)'
  BY <1>1, <1>2, <1>5, <1>6, <1>a, RowsKept
<1> QED
  BY <1>1, <1>2, <1>4, <1>7, <1>a, Stay

\* A worker puts its task back, to wait for something.
LEMMA PutBack ==
  ASSUME IInv, NEW w \in Workers, at[w] \notin {"search", "create", "publish", "count"},
         NEW s, s = Slot(w), task[w].type \notin InitTypes,
         NEW g \in Frames, NEW q \in Pictures, NEW t,
         StepTo(w, "search", task[w], g, q), q.filters = Filters(s),
         Like([fc[s] EXCEPT !.queue = @ \cup {t}], g),
         Units(t) = Mine(w, s), TaskOK(t, Filters(s)), t.slot = None, t.recon = 0,
         t.type \notin InitTypes
  PROVE  IInv'
<1>1. /\ s \in Slots /\ Busy(w, s) /\ RowsOK(s) /\ ~fc[s].finished /\ setup \in DOMAIN Setups
      /\ task[w] \in Tasks /\ fc[s] \in Frames
  BY BusyFacts
<1>2. /\ g.queue = fc[s].queue \cup {t}
      /\ g.pic = fc[s].pic /\ g.counter = fc[s].counter
      /\ g.nextTileRow = fc[s].nextTileRow /\ g.finished = fc[s].finished
      /\ g.frame = fc[s].frame /\ g.done = fc[s].done
  BY <1>1 DEF Like, Frames
<1>3. "search" \in Places
  BY DEF Places
<1>4. /\ TypeOK' /\ Touch(w, s) /\ setup' = setup
      /\ fc'[s] = g /\ at'[w] = "search"
  BY <1>1, <1>2, <1>3, Step
<1>5. ~Busy(w, s)' /\ Mine(w, s)' = {}
  BY <1>4 DEF Mine, Busy
<1>6. fc'[s].queue = (fc[s].queue \ {}) \cup {t}
  BY <1>2, <1>4
<1>7. \A p : Before(s, p)' <=> Before(s, p)
  <2>1. NoStart(w, s, {t}, {})
    BY <1>5, <1>6 DEF NoStart
  <2> QED
    BY <1>1, <1>4, <2>1, BeforeKept
<1>8. ASSUME NEW p, NEW r PROVE RowOpen(s, p, r)' <=> RowOpen(s, p, r)
  <2>1. Open(w, s) = Units(t) /\ Open(w, s)' = {}
    BY <1>4, <1>5 DEF Open
  <2>2. (<<p, "row", r>> \in Open(w, s) \/ \E x \in {} : <<p, "row", r>> \in Units(x)) <=>
        (<<p, "row", r>> \in Open(w, s)' \/ \E x \in {t} : <<p, "row", r>> \in Units(x))
    BY <2>1
  <2>3. Trades(w, s, {t}, {}, p, r)
    BY <1>6, <2>2 DEF Trades
  <2> QED
    BY <1>1, <1>4, <2>3, Traded
<1>9. Publishing(s)' <=> Publishing(s)
  BY <1>1, <1>4, <1>5, TouchFacts DEF Publishing, Touch
<1>10. Sbh - 1 \in Rows
  BY <1>1, SetupFacts DEF Rows
<1>11. RowsOK(s)'
  BY <1>1, <1>2, <1>4, <1>7, <1>8, <1>9, <1>10, RowsKept
<1> QED
  BY <1>1, <1>2, <1>4, <1>11, Back

\* What does not change can be written as set to what it was.
LEMMA Same ==
  ASSUME IInv, NEW w \in Workers, at[w] # "search"
  PROVE  /\ [task EXCEPT ![w] = task[w]] = task
         /\ [pics EXCEPT ![Frame(w).pic] = Picture(w)] = pics
         /\ [fc EXCEPT ![Slot(w)] = Frame(w)] = fc
         /\ Frame(w) \in Frames /\ Picture(w) \in Pictures /\ task[w] \in Tasks
<1>s. PICK s : s = Slot(w)
  OBVIOUS
<1>1. /\ s \in Slots /\ fc[s].pic \in 1 .. Number /\ pics \in [1 .. Number -> Pictures]
      /\ task \in [Workers -> Tasks] /\ Frame(w) = fc[s] /\ Picture(w) = pics[fc[s].pic]
  BY <1>s, BusyFacts
<1>2. fc \in [Slots -> Frames]
  BY DEF IInv, TypeOK
<1> QED
  BY <1>1, <1>2, <1>s

\* The top of 'found_unlocked.
LEMMA StartStep ==
  ASSUME IInv, NEW w \in Workers, Start(w)
  PROVE  IInv'
<1>s. PICK s : s = Slot(w)
  OBVIOUS
<1>1. at[w] = "start" /\ UNCHANGED <<task, caller>>
  BY DEF Start
<1>2. /\ s \in Slots /\ fc[s] \in Frames /\ task[w] \in Tasks /\ task[w].slot = s
      /\ TaskOK(task[w], Filters(s)) /\ Frame(w) = fc[s] /\ Picture(w) \in Pictures
      /\ Picture(w).filters = Filters(s)
  BY <1>1, <1>s, BusyFacts
<1>3. /\ [task EXCEPT ![w] = task[w]] = task
      /\ [pics EXCEPT ![Frame(w).pic] = Picture(w)] = pics
  BY <1>1, Same
<1>4. flush \in BOOLEAN
  BY DEF IInv, TypeOK
<1>5. CASE ~IsTile(task[w])
  <2>g. PICK g : g = [fc[s] EXCEPT !.error = Frame(w).error \/ flush]
    OBVIOUS
  <2>1. StepTo(w, task[w].type, task[w], g, Picture(w))
    BY <1>1, <1>2, <1>3, <1>5, <1>s, <2>g DEF Start, StepTo, Goto
  <2>2. /\ g \in Frames
        /\ Like(fc[s], g)
    BY <1>2, <1>4, <2>g DEF Frames, Like
  <2>3. /\ task[w].type \in Places \ {"search", "create", "publish", "count"}
        /\ PlaceOK(task[w].type, task[w].type)
    BY <1>2, <1>5 DEF Tasks, TaskTypes, Places, PlaceOK, IsTile
  <2> QED
    BY <1>1, <1>2, <1>s, <2>1, <2>2, <2>3, GoesOn
<1>6. CASE IsTile(task[w])
  <2>1. PICK fails \in BOOLEAN :
          /\ fc' = [fc EXCEPT ![Slot(w)].error = fails \/ (Frame(w).error \/ flush)]
          /\ Goto(w, IF fails THEN "tileFailed" ELSE "tileDone")
          /\ pics' = [pics EXCEPT ![Frame(w).pic].damaged = @ \/ fails]
    BY <1>6 DEF Start
  <2>g. PICK g : g = [fc[s] EXCEPT !.error = fails \/ (Frame(w).error \/ flush)]
    OBVIOUS
  <2>q. PICK q : q = [Picture(w) EXCEPT !.damaged = @ \/ fails]
    OBVIOUS
  <2>l. PICK l : l = IF fails THEN "tileFailed" ELSE "tileDone"
    OBVIOUS
  <2>2. StepTo(w, l, task[w], g, q)
    BY <1>1, <1>2, <1>3, <2>1, <1>s, <2>g, <2>q, <2>l DEF StepTo, Goto, Picture
  <2>3. /\ g \in Frames
        /\ Like(fc[s], g)
    BY <1>2, <1>4, <2>g DEF Frames, Like
  <2>4. q \in Pictures /\ q.filters = Filters(s)
    BY <1>2, <2>q DEF Pictures
  <2>5. l \in Places \ {"search", "create", "publish", "count"} /\ PlaceOK(l, task[w].type)
    BY <1>6, <2>l DEF Places, PlaceOK, IsTile
  <2> QED
    BY <1>1, <1>2, <1>s, <2>2, <2>3, <2>4, <2>5, GoesOn
<1> QED
  BY <1>5, <1>6

\* A tile that goes on with its next row.
LEMMA NextTileTaskStep ==
  ASSUME IInv, NEW w \in Workers, NextTileTask(w)
  PROVE  IInv'
<1>s. PICK s : s = Slot(w)
  OBVIOUS
<1>1. at[w] \in {"tileDone", "tileFailed"} /\ ~LastOfTile(task[w]) /\ UNCHANGED <<pics, caller>>
  BY DEF NextTileTask
<1>2. /\ s \in Slots /\ fc[s] \in Frames /\ task[w] \in Tasks /\ task[w].slot = s
      /\ TaskOK(task[w], Filters(s)) /\ Frame(w) = fc[s] /\ Picture(w) \in Pictures
      /\ Picture(w).filters = Filters(s) /\ PlaceOK(at[w], task[w].type)
      /\ setup \in DOMAIN Setups /\ RowsOK(s) /\ TasksOK(s) /\ Busy(w, s) /\ ~fc[s].finished
      /\ task \in [Workers -> Tasks]
  BY <1>1, <1>s, BusyFacts
<1>3. /\ [task EXCEPT ![w] = task[w]] = task
      /\ [pics EXCEPT ![Frame(w).pic] = Picture(w)] = pics
  BY <1>1, Same
<1>4. IsTile(task[w])
  BY <1>1, <1>2 DEF PlaceOK, IsTile
<1>5. task[w].sby + 1 \in Rows /\ task[w].sby + 1 < RowStart[TileRow(task[w].tile) + 1]
  <2>1. task[w].tile \in Tiles /\ task[w].sby \in Rows
    BY <1>2 DEF Tasks
  <2>2. /\ RowStart[TileRow(task[w].tile) + 1] \in 0 .. Sbh
        /\ task[w].sby < RowStart[TileRow(task[w].tile) + 1]
    BY <1>2, <1>4, <2>1, TileRowType DEF TaskOK
  <2> QED
    BY <1>1, <1>2, <2>1, <2>2, SetupFacts DEF LastOfTile, Rows
<1>n. PICK next : next = [task[w] EXCEPT !.sby = @ + 1]
  OBVIOUS
<1>6. /\ next \in Tasks /\ next.slot = s /\ next.type = task[w].type /\ next.tile = task[w].tile
      /\ next.recon = task[w].recon /\ next.sby = task[w].sby + 1
  BY <1>2, <1>5, <1>n DEF Tasks
<1>7. IsTile(next) /\ Pass(next) = Pass(task[w]) /\ next.recon = 0
  BY <1>2, <1>4, <1>6 DEF IsTile, Pass, TaskOK
<1>8. TaskOK(next, Filters(s))
  <2>1. RowStart[TileRow(next.tile)] \in Rows /\ task[w].sby \in Rows
    BY <1>2, <1>6, TileRowType DEF Tasks
  <2> QED
    BY <1>2, <1>4, <1>5, <1>6, <1>7, <2>1 DEF TaskOK, IsTile, InitTypes, Rows
<1>9. TileProgress(w) \in 0 .. TILE_ERROR
  BY <1>2, SetupFacts DEF TileProgress, TILE_ERROR, Tasks, Rows
<1>f. PICK f : f = [Frame(w) EXCEPT !.tileProgress[Pass(task[w])][task[w].tile] = TileProgress(w)]
  OBVIOUS
<1>10. /\ f \in Frames
       /\ Like(fc[s], f) /\ f.error = fc[s].error
  BY <1>2, <1>9, <1>f DEF Frames, Like
<1>11. CASE TileReady(Frame(w), next)
  <2>g. PICK g : g = [f EXCEPT !.error = @ \/ TileError(Frame(w), next)]
    OBVIOUS
  <2>1. StepTo(w, "start", next, g, Picture(w))
    BY <1>1, <1>2, <1>3, <1>11, <1>s, <1>n, <1>f, <2>g DEF NextTileTask, StepTo, Goto
  <2>2. /\ g \in Frames
        /\ Like(fc[s], g)
    BY <1>10, <2>g DEF Frames, Like
  <2>3. PlaceOK("start", next.type) /\ "start" \in Places
    BY DEF PlaceOK, Places
  <2> QED
    BY <1>1, <1>2, <1>4, <1>s, <1>6, <1>8, <2>1, <2>2, <2>3, GoesOn
<1>12. CASE ~TileReady(Frame(w), next)
  <2>t. PICK t : t = [next EXCEPT !.slot = None]
    OBVIOUS
  <2>g. PICK g : g = [f EXCEPT !.queue = @ \cup {t}]
    OBVIOUS
  <2>1. StepTo(w, "search", task[w], g, Picture(w))
    BY <1>1, <1>2, <1>3, <1>12, <1>s, <1>n, <1>f, <2>t, <2>g DEF NextTileTask, StepTo, Goto, Pend
  <2>2. /\ t \in Tasks /\ t.slot = None /\ t.type = next.type /\ t.tile = next.tile
        /\ t.recon = 0 /\ t.sby = next.sby
    BY <1>6, <1>7, <2>t DEF Tasks
  <2>3. g \in Frames /\ Like([fc[s] EXCEPT !.queue = @ \cup {t}], g)
    BY <1>2, <1>10, <2>2, <2>g DEF Frames, Like
  <2>5. TaskOK(t, Filters(s)) /\ IsTile(t) /\ Pass(t) = Pass(task[w])
    BY <1>6, <1>7, <1>8, <2>2 DEF TaskOK, IsTile, Pass
  <2>6. Units(t) = {<<Pass(t), "tile", t.tile>>} /\ t.type \notin InitTypes
    BY <2>5 DEF Units, IsTile, InitTypes
  <2>7. Mine(w, s) = {<<Pass(t), "tile", t.tile>>}
    BY <1>2, <1>4, <1>6, <2>2, <2>5, MineFacts
  <2>8. task[w].type \notin InitTypes
    BY <1>4 DEF IsTile, InitTypes
  <2> QED
    BY <1>1, <1>2, <1>s, <2>1, <2>2, <2>3, <2>5, <2>6, <2>7, <2>8, PutBack
<1> QED
  BY <1>11, <1>12

\* What every step of a busy worker starts from.
LEMMA Now ==
  ASSUME IInv, NEW w \in Workers, at[w] # "search", NEW s, s = Slot(w)
  PROVE  /\ s \in Slots /\ fc[s] \in Frames /\ task[w] \in Tasks /\ task[w].slot = s
         /\ TaskOK(task[w], Filters(s)) /\ Frame(w) = fc[s] /\ Picture(w) \in Pictures
         /\ Picture(w).filters = Filters(s) /\ PlaceOK(at[w], task[w].type)
         /\ setup \in DOMAIN Setups /\ RowsOK(s) /\ TasksOK(s) /\ Busy(w, s) /\ ~fc[s].finished
         /\ [task EXCEPT ![w] = task[w]] = task
         /\ [pics EXCEPT ![Frame(w).pic] = Picture(w)] = pics
         /\ [fc EXCEPT ![Slot(w)] = Frame(w)] = fc
         /\ FrameOK(s) /\ task \in [Workers -> Tasks]
  BY BusyFacts, Same

\* A worker at the last row of its tile.
LEMMA EndTileStep ==
  ASSUME IInv, NEW w \in Workers, EndTile(w)
  PROVE  IInv'
<1>s. PICK s : s = Slot(w)
  OBVIOUS
<1>1. at[w] \in {"tileDone", "tileFailed"} /\ UNCHANGED <<task, caller>>
  BY DEF EndTile
<1>2. /\ s \in Slots /\ fc[s] \in Frames /\ task[w] \in Tasks /\ Frame(w) = fc[s]
      /\ Picture(w) \in Pictures /\ Picture(w).filters = Filters(s) /\ setup \in DOMAIN Setups
  BY <1>1, <1>s, Now
<1>3. TileProgress(w) \in 0 .. TILE_ERROR
  BY <1>2, SetupFacts DEF TileProgress, TILE_ERROR, Tasks, Rows
<1>f. PICK f : f = [Frame(w) EXCEPT !.tileProgress[Pass(task[w])][task[w].tile] = TileProgress(w)]
  OBVIOUS
<1>p. PICK p : p = [Picture(w) EXCEPT !.cdf =
                      IF ~Publishes(w) THEN @ ELSE IF f.error THEN "error" ELSE "ok"]
  OBVIOUS
<1>4. CountTask(w, f, p)
  BY <1>f, <1>p DEF EndTile
<1>5. f \in Frames /\ Like(fc[s], f)
  BY <1>2, <1>3, <1>f DEF Frames, Like
<1>6. p \in Pictures /\ p.filters = Filters(s)
  BY <1>2, <1>p DEF Pictures
<1>7. at[w] \in {"tileDone", "tileFailed", "count"}
  BY <1>1
<1>8. /\ f.queue = fc[s].queue /\ f.counter = fc[s].counter /\ f.frame = fc[s].frame
      /\ f.done = fc[s].done /\ f.nextTileRow = fc[s].nextTileRow
      /\ f.finished = fc[s].finished /\ f.pic = fc[s].pic
  BY <1>5 DEF Like
<1> QED
  BY <1>s, <1>1, <1>4, <1>5, <1>6, <1>7, <1>8, Counted

\* A worker at the end of its row.
LEMMA EndRowStep ==
  ASSUME IInv, NEW w \in Workers, EndRow(w)
  PROVE  IInv'
<1>s. PICK s : s = Slot(w)
  OBVIOUS
<1>1. at[w] = "count" /\ UNCHANGED <<task, caller>>
  BY DEF EndRow
<1>2. /\ s \in Slots /\ fc[s] \in Frames /\ Frame(w) = fc[s]
      /\ Picture(w) \in Pictures /\ Picture(w).filters = Filters(s)
  BY <1>1, <1>s, Now
<1>f. PICK f : f = Frame(w)
  OBVIOUS
<1>p. PICK p : p = Picture(w)
  OBVIOUS
<1>4. CountTask(w, f, p)
  BY <1>f, <1>p DEF EndRow
<1>7. at[w] \in {"tileDone", "tileFailed", "count"}
  BY <1>1
<1>8. f \in Frames /\ p \in Pictures /\ p.filters = Filters(s) /\ f = fc[s]
  BY <1>2, <1>f, <1>p
<1> QED
  BY <1>s, <1>1, <1>4, <1>7, <1>8, Counted

\* A task of the chain of rows that is back in the queue stands for its row.
LEMMA RowTask ==
  ASSUME NEW t, t.recon = 0, ~IsTile(t), t.type \notin InitTypes
  PROVE  Units(t) = {<<Pass(t), "row", t.sby>>}
  BY DEF Units, RowUnits

\* DeblockCols.
LEMMA DeblockColsStep ==
  ASSUME IInv, NEW w \in Workers, DeblockCols(w)
  PROVE  IInv'
<1>s. PICK s : s = Slot(w)
  OBVIOUS
<1>1. /\ at[w] = "DeblockCols" /\ pics' = Filtered(w) /\ UNCHANGED <<task, caller>>
  BY DEF DeblockCols
<1>2. /\ s \in Slots /\ fc[s] \in Frames /\ task[w] \in Tasks /\ task[w].slot = s
      /\ TaskOK(task[w], Filters(s)) /\ Frame(w) = fc[s] /\ Picture(w) \in Pictures
      /\ Picture(w).filters = Filters(s) /\ PlaceOK(at[w], task[w].type)
      /\ setup \in DOMAIN Setups /\ TasksOK(s) /\ Busy(w, s) /\ task \in [Workers -> Tasks]
      /\ [task EXCEPT ![w] = task[w]] = task /\ [fc EXCEPT ![Slot(w)] = Frame(w)] = fc
  BY <1>1, <1>s, Now
<1>3. task[w].type = "DeblockCols" /\ "deblock" \in Filters(s) /\ task[w].type \notin InitTypes
  BY <1>1, <1>2 DEF PlaceOK, TaskOK, InitTypes
<1>q. PICK q : q = [Picture(w) EXCEPT !.damaged = @ \/ Frame(w).error]
  OBVIOUS
<1>4. pics' = [pics EXCEPT ![Frame(w).pic] = q]
  BY <1>1, <1>q DEF Filtered, Picture
<1>5. q \in Pictures /\ q.filters = Filters(s)
  BY <1>2, <1>q DEF Pictures, Frames
<1>6. CASE EnsureProgress(Frame(w), task[w].sby) /\ Goto(w, "DeblockRows") /\ UNCHANGED fc
  <2>1. StepTo(w, "DeblockRows", task[w], Frame(w), q)
    BY <1>1, <1>2, <1>4, <1>6 DEF StepTo, Goto
  <2>2. Like(fc[s], Frame(w)) /\ Frame(w) \in Frames
    BY <1>2 DEF Like
  <2>3. PlaceOK("DeblockRows", task[w].type) /\ "DeblockRows" \in Places
    BY <1>3 DEF PlaceOK, Places
  <2> QED
    BY <1>1, <1>2, <1>s, <1>5, <2>1, <2>2, <2>3, GoesOn
<1>7. CASE ~EnsureProgress(Frame(w), task[w].sby)
  <2>t. PICK t : t = [task[w] EXCEPT !.type = "DeblockRows", !.recon = 0,
                                     !.deblock = task[w].sby, !.slot = None]
    OBVIOUS
  <2>g. PICK g : g = [fc[s] EXCEPT !.queue = @ \cup {t}]
    OBVIOUS
  <2>1. StepTo(w, "search", task[w], g, q)
    BY <1>1, <1>2, <1>4, <1>7, <1>s, <2>t, <2>g DEF DeblockCols, StepTo, Goto, Pend, Tasks
  <2>2. /\ t \in Tasks /\ t.slot = None /\ t.type = "DeblockRows" /\ t.recon = 0
        /\ t.sby = task[w].sby /\ t.deblock = t.sby
    <3>1. task[w].sby \in Rows /\ 0 \in 0 .. Sbh
      BY <1>2, SetupFacts DEF Tasks
    <3> QED
      BY <1>2, <2>t, <3>1 DEF Tasks, TaskTypes
  <2>3. g \in Frames /\ Like([fc[s] EXCEPT !.queue = @ \cup {t}], g)
    BY <1>2, <2>2, <2>g DEF Frames, Like
  <2>4. TaskOK(t, Filters(s)) /\ ~IsTile(t) /\ t.type \notin InitTypes
    BY <1>3, <2>2 DEF TaskOK, InitTypes, IsTile
  <2>5. Units(t) = {<<Pass(t), "row", t.sby>>}
    BY <2>2, <2>4, RowTask
  <2>6. Mine(w, s) = {<<Pass(task[w]), "row", task[w].sby>>}
    BY <1>2, <1>3, MineFacts DEF IsTile
  <2>7. Units(t) = Mine(w, s)
    BY <1>3, <2>2, <2>5, <2>6 DEF Pass
  <2> QED
    BY <1>1, <1>3, <1>s, <1>5, <2>1, <2>2, <2>3, <2>4, <2>7, PutBack
<1> QED
  BY <1>6, <1>7 DEF DeblockCols

\* DeblockRows.
LEMMA DeblockRowsStep ==
  ASSUME IInv, NEW w \in Workers, DeblockRows(w)
  PROVE  IInv'
<1>s. PICK s : s = Slot(w)
  OBVIOUS
<1>1. /\ at[w] = "DeblockRows" /\ pics' = Filtered(w) /\ UNCHANGED <<task, caller>>
  BY DEF DeblockRows
<1>2. /\ s \in Slots /\ fc[s] \in Frames /\ task[w] \in Tasks /\ task[w].slot = s
      /\ TaskOK(task[w], Filters(s)) /\ Frame(w) = fc[s] /\ Picture(w) \in Pictures
      /\ Picture(w).filters = Filters(s) /\ PlaceOK(at[w], task[w].type)
      /\ setup \in DOMAIN Setups /\ TasksOK(s) /\ Busy(w, s) /\ task \in [Workers -> Tasks]
      /\ [task EXCEPT ![w] = task[w]] = task /\ [fc EXCEPT ![Slot(w)] = Frame(w)] = fc
  BY <1>1, <1>s, Now
<1>3. task[w].type \in {"DeblockCols", "DeblockRows"} /\ task[w].type \notin InitTypes
  BY <1>1, <1>2 DEF PlaceOK, InitTypes
<1>q. PICK q : q = [Picture(w) EXCEPT !.damaged = @ \/ Frame(w).error]
  OBVIOUS
<1>4. pics' = [pics EXCEPT ![Frame(w).pic] = q]
  BY <1>1, <1>q DEF Filtered, Picture
<1>5. q \in Pictures /\ q.filters = Filters(s)
  BY <1>2, <1>q DEF Pictures, Frames
<1>6. PlaceOK("Cdef", task[w].type) /\ "Cdef" \in Places
  BY <1>3 DEF PlaceOK, Places
<1>7. task[w].sby \in Rows /\ Deblocked(fc[s], task[w].sby) \in 0 .. TILE_ERROR
  BY <1>2, SetupFacts DEF Deblocked, TILE_ERROR, Tasks, Rows
<1>h. PICK saved : saved = [fc[s] EXCEPT !.copyLpf = @ \cup {task[w].sby}]
  OBVIOUS
<1>8. saved \in Frames /\ Like(fc[s], saved)
  BY <1>2, <1>7, <1>h DEF Frames, Like
<1>9. CASE /\ "deblock" \in Picture(w).filters
           /\ fc' = [fc EXCEPT ![Slot(w)].deblock = Deblocked(Frame(w), task[w].sby)]
           /\ Goto(w, "Cdef")
  <2>g. PICK g : g = [fc[s] EXCEPT !.deblock = Deblocked(fc[s], task[w].sby)]
    OBVIOUS
  <2>1. StepTo(w, "Cdef", task[w], g, q)
    BY <1>1, <1>2, <1>4, <1>9, <1>s, <2>g DEF StepTo, Goto
  <2>2. g \in Frames /\ Like(fc[s], g)
    BY <1>2, <1>7, <2>g DEF Frames, Like
  <2> QED
    BY <1>1, <1>2, <1>s, <1>5, <1>6, <2>1, <2>2, GoesOn
<1>10. CASE fc' = [fc EXCEPT ![Slot(w)] = saved] /\ Goto(w, "Cdef")
  <2>1. StepTo(w, "Cdef", task[w], saved, q)
    BY <1>1, <1>2, <1>4, <1>10 DEF StepTo, Goto
  <2> QED
    BY <1>1, <1>2, <1>s, <1>5, <1>6, <1>8, <2>1, GoesOn
<1>t. PICK t : t = [task[w] EXCEPT !.type = "Cdef", !.recon = 0, !.deblock = 0, !.slot = None]
  OBVIOUS
<1>11. CASE /\ "deblock" \notin Picture(w).filters
            /\ fc' = [fc EXCEPT ![Slot(w)] = [saved EXCEPT !.queue = @ \cup {t}]]
            /\ Goto(w, "search")
  <2>1. task[w].type = "DeblockRows" /\ Filters(s) = {"cdef"}
    BY <1>2, <1>3, <1>11 DEF TaskOK
  <2>g. PICK g : g = [saved EXCEPT !.queue = @ \cup {t}]
    OBVIOUS
  <2>2. StepTo(w, "search", task[w], g, q)
    BY <1>1, <1>2, <1>4, <1>11, <2>g DEF StepTo, Goto
  <2>3. /\ t \in Tasks /\ t.slot = None /\ t.type = "Cdef" /\ t.recon = 0
        /\ t.sby = task[w].sby
    <3>1. task[w].sby \in Rows /\ 0 \in 0 .. Sbh /\ 0 \in Rows
      BY <1>2, SetupFacts DEF Tasks
    <3> QED
      BY <1>2, <1>t, <3>1 DEF Tasks, TaskTypes
  <2>4. g \in Frames /\ Like([fc[s] EXCEPT !.queue = @ \cup {t}], g)
    BY <1>2, <1>8, <2>3, <2>g DEF Frames, Like
  <2>5. TaskOK(t, Filters(s)) /\ ~IsTile(t) /\ t.type \notin InitTypes
    BY <2>1, <2>3 DEF TaskOK, InitTypes, IsTile
  <2>6. Units(t) = {<<Pass(t), "row", t.sby>>}
    BY <2>3, <2>5, RowTask
  <2>7. Mine(w, s) = {<<Pass(task[w]), "row", task[w].sby>>}
    BY <1>2, <1>3, <2>1, MineFacts DEF IsTile
  <2>8. Units(t) = Mine(w, s)
    BY <2>1, <2>3, <2>6, <2>7 DEF Pass
  <2> QED
    BY <1>1, <1>3, <1>s, <1>5, <2>2, <2>3, <2>4, <2>5, <2>8, PutBack
<1>12. Pend([task[w] EXCEPT !.type = "Cdef", !.recon = 0, !.deblock = 0]) = {t}
  BY <1>2, <1>t DEF Pend, Tasks
<1>13. saved = [Frame(w) EXCEPT !.copyLpf = @ \cup {task[w].sby}]
  BY <1>2, <1>h
<1> QED
  BY <1>9, <1>10, <1>11, <1>12, <1>13 DEF DeblockRows

\* The rows that are finished from the top on end at the first that is not.
LEMMA FromTopFacts ==
  ASSUME setup \in DOMAIN Setups, NEW frame, frame \subseteq Rows
  PROVE  /\ FromTop(frame) \in 0 .. Sbh
         /\ \A r \in 0 .. FromTop(frame) - 1 : r \in frame
         /\ FromTop(frame) \notin frame
         /\ Rows \subseteq frame <=> FromTop(frame) = Sbh
<1>1. Sbh \in Nat \ {0}
  BY SetupFacts
<1> DEFINE T == {n \in 0 .. Sbh : n \notin frame}
           R == OpToRel(<, Nat)
<1>2. Sbh \in T /\ T \subseteq Nat
  BY <1>1 DEF Rows
<1>3. IsWellFoundedOn(R, Nat)
  BY NatLessThanWellFounded
<1>4. \E m \in T : \A k \in T : ~(<<k, m>> \in R)
  <2> HIDE DEF T, R
  <2> QED
    BY <1>2, <1>3, WFMin
<1>5. PICK m \in T : \A k \in T : ~(<<k, m>> \in R)
  BY <1>4
<1>6. \A k \in T : ~(k < m)
  BY <1>2, <1>5 DEF OpToRel
<1>7. m \in 0 .. Sbh /\ m \notin frame /\ \A r \in 0 .. m - 1 : r \in frame
  BY <1>1, <1>6
<1>8. \E n \in 0 .. Sbh : (\A r \in 0 .. n - 1 : r \in frame) /\ n \notin frame
  BY <1>7
<1> PICK x : x = FromTop(frame)
  OBVIOUS
<1>9. x \in 0 .. Sbh /\ (\A r \in 0 .. x - 1 : r \in frame) /\ x \notin frame
  BY <1>8 DEF FromTop
<1>10. Rows \subseteq frame <=> x = Sbh
  BY <1>1, <1>9 DEF Rows
<1> QED
  BY <1>9, <1>10

\* A row that is filtered gets its bit, and nothing else is open of it.
LEMMA FinishRowStep ==
  ASSUME IInv, NEW w \in Workers, FinishRow(w)
  PROVE  IInv'
<1>s. PICK s : s = Slot(w)
  OBVIOUS
<1>1. /\ at[w] \in {"Cdef", "ReconstructionProgress"} /\ UNCHANGED <<task, caller>>
      /\ Goto(w, "publish")
      /\ fc' = [fc EXCEPT ![Slot(w)].frame = @ \cup {task[w].sby}]
  BY DEF FinishRow
<1>2. /\ s \in Slots /\ fc[s] \in Frames /\ task[w] \in Tasks /\ task[w].slot = s
      /\ TaskOK(task[w], Filters(s)) /\ Frame(w) = fc[s] /\ Picture(w) \in Pictures
      /\ Picture(w).filters = Filters(s) /\ PlaceOK(at[w], task[w].type)
      /\ setup \in DOMAIN Setups /\ TasksOK(s) /\ Busy(w, s) /\ task \in [Workers -> Tasks]
      /\ RowsOK(s) /\ ~fc[s].finished /\ FrameOK(s)
      /\ [task EXCEPT ![w] = task[w]] = task
  BY <1>1, <1>s, Now
<1>3. /\ task[w].type \in {"DeblockCols", "DeblockRows", "Cdef", "ReconstructionProgress"}
      /\ task[w].type \notin InitTypes /\ ~IsTile(task[w]) /\ Pass(task[w]) = 0
      /\ PlaceOK("publish", task[w].type)
  BY <1>1, <1>2 DEF PlaceOK, InitTypes, IsTile, Pass
<1>i. PICK i : i = task[w].sby
  OBVIOUS
<1>q. PICK q : q = [Picture(w) EXCEPT !.filtered = @ \cup {i},
                      !.damaged = @ \/ (at[w] = "Cdef" /\ Frame(w).error)]
  OBVIOUS
<1>g. PICK g : g = [fc[s] EXCEPT !.frame = @ \cup {i}]
  OBVIOUS
<1>4. i \in Rows
  BY <1>2, <1>i DEF Tasks
<1>5. q \in Pictures /\ q.filters = Filters(s)
  BY <1>2, <1>4, <1>q DEF Pictures, Frames
<1>6. /\ g \in Frames /\ g.frame = fc[s].frame \cup {i}
      /\ g.pic = fc[s].pic /\ g.queue = fc[s].queue /\ g.counter = fc[s].counter
      /\ g.nextTileRow = fc[s].nextTileRow /\ g.finished = fc[s].finished
      /\ g.done = fc[s].done
  BY <1>2, <1>4, <1>g DEF Frames
<1>7. StepTo(w, "publish", task[w], g, q)
  <2>1. pics' = [pics EXCEPT ![Frame(w).pic] = q]
    <3>1. pics' = [pics EXCEPT ![Frame(w).pic].filtered = @ \cup {task[w].sby},
                     ![Frame(w).pic].damaged = @ \/ (at[w] = "Cdef" /\ Frame(w).error)]
      BY DEF FinishRow
    <3>2. pics \in [1 .. Number -> Pictures] /\ Frame(w).pic \in 1 .. Number
      BY <1>1, <1>2, <1>s, BusyFacts
    <3> QED
      BY <3>1, <3>2, <1>i, <1>q DEF Picture
  <2> QED
    BY <1>1, <1>2, <1>s, <1>i, <1>g, <2>1 DEF StepTo, Goto
<1>8. "publish" \in Places
  BY DEF Places
<1>9. /\ TypeOK' /\ Touch(w, s) /\ setup' = setup
      /\ fc'[s] = g /\ at'[w] = "publish" /\ task'[w] = task[w]
  BY <1>1, <1>2, <1>s, <1>5, <1>6, <1>7, <1>8, Step
<1>10. Busy(w, s)' /\ Mine(w, s) = {<<0, "row", i>>}
  BY <1>2, <1>3, <1>9, <1>i, TouchFacts, MineFacts
<1>11. Mine(w, s)' = Mine(w, s)
  BY <1>1, <1>2, <1>9, <1>10, SameMine
<1>12. Open(w, s) = {<<0, "row", i>>} /\ Open(w, s)' = {}
  BY <1>1, <1>9, <1>10 DEF Open
<1>13. \A p, r : RowOpen(s, p, r)' <=> RowOpen(s, p, r) /\ ~(p = 0 /\ r = i)
  <2>1. ASSUME NEW p, NEW r
        PROVE  RowOpen(s, p, r)' <=> RowOpen(s, p, r) /\ ~(p = 0 /\ r = i)
    <3>1. Closes(w, s, <<0, "row", i>>)
      BY <1>6, <1>9, <1>12 DEF Closes
    <3> QED
      BY <1>2, <1>9, <3>1, OpenClosed
  <2> QED
    BY <2>1
<1>14. \A p : Before(s, p)' <=> Before(s, p)
  <2>1. NoStart(w, s, {}, {})
    BY <1>3, <1>6, <1>9 DEF NoStart
  <2> QED
    BY <1>2, <1>9, <2>1, BeforeKept
<1>15. Publishing(s)'
  BY <1>9, <1>10 DEF Publishing
<1>16. RowsOK(s)'
  <2>1. Rows' = Rows /\ Sbh' = Sbh /\ TwoPass' = TwoPass
    BY <1>9, SameSetup
  <2>2. ~Before(s, 0)' => \A r \in Rows : r \in fc'[s].frame <=> ~RowOpen(s, 0, r)'
    BY <1>2, <1>4, <1>6, <1>9, <1>13, <1>14 DEF RowsOK
  <2>3. TwoPass /\ ~Before(s, 1)' => (fc'[s].done[1] <=> ~RowOpen(s, 1, Sbh - 1)')
    <3>1. RowOpen(s, 1, Sbh - 1)' <=> RowOpen(s, 1, Sbh - 1)
      <4>a. PICK r : r = Sbh - 1
        OBVIOUS
      <4>1. RowOpen(s, 1, r)' <=> RowOpen(s, 1, r)
        BY <1>13
      <4>2. r = (Sbh - 1)'
        BY <2>1, <4>a
      <4> QED
        BY <4>1, <4>2, <4>a DEF RowOpen
    <3> QED
      BY <3>1, <1>2, <1>6, <1>9, <1>14 DEF RowsOK
  <2> QED
    BY <2>1, <2>2, <2>3, <1>15 DEF RowsOK
<1> QED
  BY <1>1, <1>2, <1>3, <1>s, <1>6, <1>9, <1>11, <1>16, Stay

\* A worker in the chain of rows has its row to finish, or has finished it.
LEMMA RowMine ==
  ASSUME IInv, NEW w \in Workers, at[w] \in {"publish", "EntropyProgress"}, NEW s, s = Slot(w)
  PROVE  /\ task[w].type \notin InitTypes /\ ~IsTile(task[w]) /\ task[w].sby \in Rows
         /\ Mine(w, s) = {<<Pass(task[w]), "row", task[w].sby>>}
         /\ at[w] = "EntropyProgress" => Pass(task[w]) = 1 /\ TwoPass
         /\ at[w] = "publish" => Pass(task[w]) = 0
         /\ PlaceOK("count", task[w].type)
<1>1. /\ PlaceOK(at[w], task[w].type) /\ task[w] \in Tasks /\ TasksOK(s) /\ Busy(w, s)
      /\ setup \in DOMAIN Setups /\ task \in [Workers -> Tasks] /\ TaskOK(task[w], Filters(s))
  BY Now
<1>2. task[w].type \in {"EntropyProgress", "DeblockCols", "DeblockRows", "Cdef", "ReconstructionProgress"}
  BY <1>1 DEF PlaceOK
<1>3. task[w].type \notin InitTypes /\ ~IsTile(task[w])
  BY <1>2 DEF InitTypes, IsTile
<1>4. Mine(w, s) = {<<Pass(task[w]), "row", task[w].sby>>}
  BY <1>1, <1>3, MineFacts
<1>5. /\ at[w] = "EntropyProgress" => task[w].type = "EntropyProgress"
      /\ at[w] = "publish" => task[w].type # "EntropyProgress"
  BY <1>1 DEF PlaceOK
<1>6. /\ at[w] = "EntropyProgress" => Pass(task[w]) = 1 /\ TwoPass
      /\ at[w] = "publish" => Pass(task[w]) = 0
  BY <1>1, <1>2, <1>5 DEF Pass, TaskOK
<1>7. PlaceOK("count", task[w].type)
  BY <1>2 DEF PlaceOK
<1> QED
  BY <1>1, <1>3, <1>4, <1>6, <1>7 DEF Tasks

\* A worker publishes the rows: done[0] is set when all of them are there.
LEMMA PublishRowsStep ==
  ASSUME IInv, NEW w \in Workers, PublishRows(w)
  PROVE  IInv'
<1>s. PICK s : s = Slot(w)
  OBVIOUS
<1>1. at[w] = "publish" /\ Goto(w, "count") /\ UNCHANGED <<task, caller>>
  BY DEF PublishRows
<1>2. /\ s \in Slots /\ fc[s] \in Frames /\ task[w] \in Tasks /\ task[w].slot = s
      /\ TaskOK(task[w], Filters(s)) /\ Frame(w) = fc[s] /\ Picture(w) \in Pictures
      /\ Picture(w).filters = Filters(s) /\ setup \in DOMAIN Setups /\ TasksOK(s) /\ Busy(w, s)
      /\ RowsOK(s) /\ ~fc[s].finished /\ [task EXCEPT ![w] = task[w]] = task
  BY <1>1, <1>s, Now
<1>3. /\ task[w].type \notin InitTypes /\ PlaceOK("count", task[w].type)
  BY <1>1, <1>s, RowMine
<1>n. PICK n : n = FinishedRows(w)
  OBVIOUS
<1>4. /\ fc[s].frame \subseteq Rows /\ FromTop(fc[s].frame) \in 0 .. Sbh
      /\ Rows \subseteq fc[s].frame <=> FromTop(fc[s].frame) = Sbh
  BY <1>2, FromTopFacts DEF Frames
<1>5. n \in 0 .. Sbh /\ (Rows \subseteq fc[s].frame => n = Sbh)
  BY <1>2, <1>n, <1>4, SetupFacts DEF FinishedRows
<1>q. PICK q : q = [Picture(w) EXCEPT !.progress[1] =
                      IF ~TwoPass THEN @ ELSE IF fc[s].error THEN FRAME_ERROR
                      ELSE IF n = Sbh THEN AllRows ELSE n]
  OBVIOUS
<1>g. PICK g : g = [fc[s] EXCEPT !.done[0] = @ \/ n = Sbh]
  OBVIOUS
<1>6. q \in Pictures /\ q.filters = Filters(s)
  <2>1. FRAME_ERROR \in 0 .. TILE_ERROR /\ AllRows \in 0 .. TILE_ERROR /\ n \in 0 .. TILE_ERROR
    BY <1>2, <1>5, SetupFacts DEF FRAME_ERROR, AllRows, TILE_ERROR
  <2> QED
    BY <1>2, <1>q, <2>1 DEF Pictures, Progress
<1>7. /\ g \in Frames /\ g.frame = fc[s].frame
      /\ g.pic = fc[s].pic /\ g.queue = fc[s].queue /\ g.counter = fc[s].counter
      /\ g.nextTileRow = fc[s].nextTileRow /\ g.finished = fc[s].finished
      /\ g.done[1] = fc[s].done[1] /\ g.done[0] = (fc[s].done[0] \/ n = Sbh)
  <2>1. fc[s].done \in [{0, 1} -> BOOLEAN] /\ (fc[s].done[0] \/ n = Sbh) \in BOOLEAN
    BY <1>2 DEF Frames
  <2>2. g \in Frames
    BY <1>2, <1>g, <2>1 DEF Frames
  <2>3. g.done = [fc[s].done EXCEPT ![0] = fc[s].done[0] \/ n = Sbh]
    BY <1>2, <1>g DEF Frames
  <2> QED
    BY <1>2, <1>g, <2>1, <2>2, <2>3 DEF Frames
<1>8. StepTo(w, "count", task[w], g, q)
  <2>1. pics' = [pics EXCEPT ![Frame(w).pic] = q]
    BY <1>2, <1>n, <1>q DEF PublishRows, Picture
  <2>2. fc' = [fc EXCEPT ![s] = g]
    BY <1>2, <1>s, <1>n, <1>g DEF PublishRows
  <2> QED
    BY <1>1, <1>2, <1>s, <2>1, <2>2 DEF StepTo, Goto
<1>9. "count" \in Places
  BY DEF Places
<1>10. /\ TypeOK' /\ Touch(w, s) /\ setup' = setup
       /\ fc'[s] = g /\ at'[w] = "count" /\ task'[w] = task[w]
  BY <1>1, <1>2, <1>s, <1>6, <1>7, <1>8, <1>9, Step
<1>11. Busy(w, s)'
  BY <1>2, <1>10, TouchFacts
<1>12. Mine(w, s)' = Mine(w, s)
  BY <1>1, <1>2, <1>10, <1>11, SameMine
<1>13. ASSUME NEW p, NEW r PROVE RowOpen(s, p, r)' <=> RowOpen(s, p, r)
  <2>1. Open(w, s) = {} /\ Open(w, s)' = {}
    BY <1>1, <1>10 DEF Open
  <2>2. fc'[s].queue = fc[s].queue
    BY <1>7, <1>10
  <2>3. s \in Slots /\ Touch(w, s)
    BY <1>2, <1>10
  <2> QED
    BY <2>1, <2>2, <2>3, OpenStays
<1>14. \A p : Before(s, p)' <=> Before(s, p)
  <2>1. NoStart(w, s, {}, {})
    BY <1>3, <1>7, <1>10 DEF NoStart
  <2> QED
    BY <1>2, <1>10, <2>1, BeforeKept
<1>15. RowsOK(s)'
  <2>1. Rows' = Rows /\ Sbh' = Sbh /\ TwoPass' = TwoPass
    BY <1>10, SameSetup
  <2>2. RowOpen(s, 1, Sbh - 1)' <=> RowOpen(s, 1, Sbh - 1)
    <3>a. PICK r : r = Sbh - 1
      OBVIOUS
    <3>1. RowOpen(s, 1, r)' <=> RowOpen(s, 1, r)
      BY <1>13
    <3>2. r = (Sbh - 1)'
      BY <2>1, <3>a
    <3> QED
      BY <3>1, <3>2, <3>a DEF RowOpen
  <2>3. ~Before(s, 0)' => \A r \in Rows : r \in fc'[s].frame <=> ~RowOpen(s, 0, r)'
    BY <1>2, <1>7, <1>10, <1>13, <1>14 DEF RowsOK
  <2>4. Rows \subseteq fc'[s].frame => fc'[s].done[0]
    BY <1>5, <1>7, <1>10
  <2>5. TwoPass /\ ~Before(s, 1)' => (fc'[s].done[1] <=> ~RowOpen(s, 1, Sbh - 1)')
    BY <2>2, <1>2, <1>7, <1>10, <1>14 DEF RowsOK
  <2> QED
    BY <2>1, <2>3, <2>4, <2>5 DEF RowsOK
<1> QED
  BY <1>1, <1>2, <1>3, <1>s, <1>7, <1>10, <1>12, <1>15, Stay

\* A worker makes the entropy progress known: done[1] with the last row.
LEMMA EntropyProgressStep ==
  ASSUME IInv, NEW w \in Workers, EntropyProgress(w)
  PROVE  IInv'
<1>s. PICK s : s = Slot(w)
  OBVIOUS
<1>1. at[w] = "EntropyProgress" /\ Goto(w, "count") /\ UNCHANGED <<task, caller>>
  BY DEF EntropyProgress
<1>2. /\ s \in Slots /\ fc[s] \in Frames /\ task[w] \in Tasks /\ task[w].slot = s
      /\ TaskOK(task[w], Filters(s)) /\ Frame(w) = fc[s] /\ Picture(w) \in Pictures
      /\ Picture(w).filters = Filters(s) /\ setup \in DOMAIN Setups /\ TasksOK(s) /\ Busy(w, s)
      /\ RowsOK(s) /\ ~fc[s].finished /\ [task EXCEPT ![w] = task[w]] = task /\ FrameOK(s)
  BY <1>1, <1>s, Now
<1>i. PICK i : i = task[w].sby
  OBVIOUS
<1>3. /\ task[w].type \notin InitTypes /\ PlaceOK("count", task[w].type) /\ i \in Rows
      /\ Mine(w, s) = {<<1, "row", i>>} /\ TwoPass
  BY <1>1, <1>s, <1>i, RowMine
<1>4. i + 1 \in 1 .. Sbh
  BY <1>2, <1>3, SetupFacts DEF Rows
<1>q. PICK q : q = [Picture(w) EXCEPT !.progress[0] =
                      IF fc[s].error THEN FRAME_ERROR ELSE IF i + 1 = Sbh THEN AllRows ELSE i + 1]
  OBVIOUS
<1>g. PICK g : g = [fc[s] EXCEPT !.entropy = IF fc[s].error THEN TILE_ERROR ELSE i + 1,
                                 !.done[1] = @ \/ i + 1 = Sbh]
  OBVIOUS
<1>5. /\ FRAME_ERROR \in 0 .. TILE_ERROR /\ AllRows \in 0 .. TILE_ERROR
      /\ i + 1 \in 0 .. TILE_ERROR /\ TILE_ERROR \in 0 .. TILE_ERROR
  BY <1>2, <1>4, SetupFacts DEF FRAME_ERROR, AllRows, TILE_ERROR
<1>6. q \in Pictures /\ q.filters = Filters(s)
  BY <1>2, <1>q, <1>5 DEF Pictures, Progress
<1>7. /\ g \in Frames /\ g.frame = fc[s].frame
      /\ g.pic = fc[s].pic /\ g.queue = fc[s].queue /\ g.counter = fc[s].counter
      /\ g.nextTileRow = fc[s].nextTileRow /\ g.finished = fc[s].finished
      /\ g.done[0] = fc[s].done[0] /\ g.done[1] = (fc[s].done[1] \/ i = Sbh - 1)
  <2>1. i + 1 = Sbh <=> i = Sbh - 1
    BY <1>2, <1>3, SetupFacts DEF Rows
  <2>2. fc[s].done \in [{0, 1} -> BOOLEAN] /\ (fc[s].done[1] \/ i = Sbh - 1) \in BOOLEAN
    BY <1>2 DEF Frames
  <2>3. g \in Frames
    BY <1>2, <1>g, <1>5, <2>2 DEF Frames
  <2>4. g.done = [fc[s].done EXCEPT ![1] = fc[s].done[1] \/ i = Sbh - 1]
    BY <1>2, <1>g, <2>1 DEF Frames
  <2> QED
    BY <1>2, <1>g, <2>2, <2>3, <2>4 DEF Frames
<1>8. StepTo(w, "count", task[w], g, q)
  <2>1. pics' = [pics EXCEPT ![Frame(w).pic] = q]
    BY <1>2, <1>i, <1>q DEF EntropyProgress, Picture
  <2>2. fc' = [fc EXCEPT ![s] = g]
    <3>1. fc \in [Slots -> Frames]
      BY DEF IInv, TypeOK
    <3>2. fc' = [fc EXCEPT ![s].entropy = IF fc[s].error THEN TILE_ERROR ELSE i + 1,
                           ![s].done[1] = @ \/ i + 1 = Sbh]
      BY <1>2, <1>s, <1>i DEF EntropyProgress
    <3> QED
      BY <1>2, <1>g, <3>1, <3>2
  <2> QED
    BY <1>1, <1>2, <1>s, <2>1, <2>2 DEF StepTo, Goto
<1>9. "count" \in Places
  BY DEF Places
<1>10. /\ TypeOK' /\ Touch(w, s) /\ setup' = setup
       /\ fc'[s] = g /\ at'[w] = "count" /\ task'[w] = task[w]
  BY <1>1, <1>2, <1>s, <1>6, <1>7, <1>8, <1>9, Step
<1>11. Busy(w, s)'
  BY <1>2, <1>10, TouchFacts
<1>12. Mine(w, s)' = Mine(w, s)
  BY <1>1, <1>2, <1>10, <1>11, SameMine
<1>13. \A p, r : RowOpen(s, p, r)' <=> RowOpen(s, p, r) /\ ~(p = 1 /\ r = i)
  <2>1. Closes(w, s, <<1, "row", i>>)
    BY <1>1, <1>3, <1>7, <1>10 DEF Closes, Open
  <2>2. ASSUME NEW p, NEW r
        PROVE  RowOpen(s, p, r)' <=> RowOpen(s, p, r) /\ ~(p = 1 /\ r = i)
    BY <1>2, <1>10, <2>1, OpenClosed
  <2> QED
    BY <2>2
<1>14. \A p : Before(s, p)' <=> Before(s, p)
  <2>1. NoStart(w, s, {}, {})
    BY <1>3, <1>7, <1>10 DEF NoStart
  <2> QED
    BY <1>2, <1>10, <2>1, BeforeKept
<1>15. Publishing(s)' <=> Publishing(s)
  BY <1>1, <1>2, <1>10, <1>11, TouchFacts DEF Publishing, Touch
<1>16. RowsOK(s)'
  <2>1. Rows' = Rows /\ Sbh' = Sbh /\ TwoPass' = TwoPass
    BY <1>10, SameSetup
  <2>2. RowOpen(s, 1, Sbh - 1)' <=> RowOpen(s, 1, Sbh - 1) /\ i # Sbh - 1
    <3>a. PICK r : r = Sbh - 1
      OBVIOUS
    <3>1. RowOpen(s, 1, r)' <=> RowOpen(s, 1, r) /\ i # r
      BY <1>13
    <3>2. r = (Sbh - 1)'
      BY <2>1, <3>a
    <3> QED
      BY <3>1, <3>2, <3>a DEF RowOpen
  <2>3. ~Before(s, 0)' => \A r \in Rows : r \in fc'[s].frame <=> ~RowOpen(s, 0, r)'
    BY <1>2, <1>7, <1>10, <1>13, <1>14 DEF RowsOK
  <2>4. ~Before(s, 0)' => (Rows \subseteq fc'[s].frame => fc'[s].done[0] \/ Publishing(s)')
    BY <1>2, <1>7, <1>10, <1>14, <1>15 DEF RowsOK
  <2>5. TwoPass /\ ~Before(s, 1)' => (fc'[s].done[1] <=> ~RowOpen(s, 1, Sbh - 1)')
    BY <2>2, <1>2, <1>7, <1>10, <1>14 DEF RowsOK
  <2> QED
    BY <2>1, <2>3, <2>4, <2>5 DEF RowsOK
<1> QED
  BY <1>1, <1>2, <1>3, <1>s, <1>7, <1>10, <1>12, <1>16, Stay

\* As long as neither pass is created, nothing is said of the rows.
LEMMA NoRows ==
  ASSUME setup' = setup, NEW s, Before(s, 0)', Before(s, 1)'
  PROVE  RowsOK(s)'
  BY SameSetup DEF RowsOK

\* A worker that starts a frame has all of its work and is alone in it.
LEMMA StartMine ==
  ASSUME IInv, NEW w \in Workers, at[w] \in {"Init", "InitCdf"}, NEW s, s = Slot(w)
  PROVE  /\ Mine(w, s) = AllUnits /\ task[w].type = at[w] /\ task[w].type \in InitTypes
         /\ fc[s].queue = {} /\ \A v \in Workers \ {w} : ~Busy(v, s)
         /\ TwoPass /\ task[w].recon = 0
<1>1. /\ PlaceOK(at[w], task[w].type) /\ task[w] \in Tasks /\ TasksOK(s) /\ Busy(w, s)
      /\ setup \in DOMAIN Setups /\ task \in [Workers -> Tasks] /\ TaskOK(task[w], Filters(s))
  BY Now
<1>2. task[w].type = at[w] /\ task[w].type \in InitTypes
  BY <1>1 DEF PlaceOK, InitTypes
<1>3. Mine(w, s) = AllUnits
  BY <1>1, <1>2, MineFacts
<1>4. ToDo(s) \subseteq Mine(w, s)
  BY <1>3 DEF ToDo
<1>5. fc[s].queue = {} /\ \A v \in Workers \ {w} : ~Busy(v, s)
  BY <1>4, Alone
<1> QED
  BY <1>1, <1>2, <1>3, <1>5 DEF TaskOK

\* A frame that is aborted is left with nothing behind.
LEMMA AbortStep ==
  ASSUME IInv, NEW w \in Workers, at[w] \in {"Init", "InitCdf"}, NEW b \in BOOLEAN,
         Abort(Slot(w), b), Goto(w, "search"), UNCHANGED <<task, caller>>
  PROVE  IInv'
<1>s. PICK s : s = Slot(w)
  OBVIOUS
<1>1. /\ s \in Slots /\ fc[s] \in Frames /\ task[w] \in Tasks /\ Frame(w) = fc[s]
      /\ Picture(w) \in Pictures /\ Picture(w).filters = Filters(s) /\ setup \in DOMAIN Setups
      /\ [task EXCEPT ![w] = task[w]] = task /\ Busy(w, s)
  BY <1>s, Now
<1>2. fc[s].queue = {} /\ \A v \in Workers \ {w} : ~Busy(v, s)
  BY <1>s, StartMine
<1>a. s \in Slots /\ Unfinished(s)
  BY <1>s, BusyFacts
<1>f. PICK f : f = [fc[s] EXCEPT !.counter = 0, !.done = [x \in {0, 1} |-> TRUE], !.initDone = b]
  OBVIOUS
<1>p. PICK p : p = AbortedPic(Picture(w))
  OBVIOUS
<1>3. f \in Frames /\ f.queue = {} /\ f.pic = fc[s].pic
  <2>1. [x \in {0, 1} |-> TRUE] \in [{0, 1} -> BOOLEAN] /\ 0 \in Nat
    OBVIOUS
  <2> QED
    BY <1>1, <1>2, <1>f, <2>1 DEF Frames
<1>4. p \in Pictures /\ p.filters = Filters(s)
  <2>1. FRAME_ERROR \in 0 .. TILE_ERROR
    BY <1>1, SetupFacts DEF FRAME_ERROR, TILE_ERROR
  <2>2. [x \in {0, 1} |-> FRAME_ERROR] \in Progress
    BY <2>1 DEF Progress
  <2> QED
    BY <1>1, <1>p, <2>2 DEF AbortedPic, Pictures
<1>g. PICK g : g = Left(f, TRUE)
  OBVIOUS
<1>q. PICK q : q = LeftPic(f, p, TRUE)
  OBVIOUS
<1>5. g \in Frames /\ g.finished /\ g.queue = {} /\ g.pic = fc[s].pic
  BY <1>3, <1>g, LeftTypes
<1>6. q \in Pictures /\ q.filters = Filters(s)
  BY <1>1, <1>4, <1>q, LeftPicTypes
<1>7. StepTo(w, "search", task[w], g, q)
  <2>1. fc' = [fc EXCEPT ![s] = g]
    BY <1>s, <1>f, <1>g DEF Abort
  <2>2. pics' = [pics EXCEPT ![fc[s].pic] = q]
    BY <1>s, <1>1, <1>f, <1>q, <1>p, <1>3 DEF Abort, Picture, Frame
  <2> QED
    BY <1>1, <1>s, <2>1, <2>2 DEF StepTo, Goto
<1>8. "search" \in Places
  BY DEF Places
<1>9. TypeOK' /\ Touch(w, s) /\ fc'[s] = g /\ at'[w] = "search"
  BY <1>1, <1>s, <1>5, <1>6, <1>7, <1>8, Step
<1>10. \A v \in Workers : ~Busy(v, s)'
  BY <1>1, <1>2, <1>9, TouchFacts
<1>11. fc'[s].finished /\ Clean(s)'
  BY <1>5, <1>9, <1>10 DEF Clean
<1> QED
  BY <1>a, <1>9, <1>11, StepInv

\* The start of a frame.
LEMMA InitFrameStep ==
  ASSUME IInv, NEW w \in Workers, InitFrame(w)
  PROVE  IInv'
<1>s. PICK s : s = Slot(w)
  OBVIOUS
<1>1. at[w] = "Init" /\ UNCHANGED caller
  BY DEF InitFrame
<1>2. /\ s \in Slots /\ fc[s] \in Frames /\ task[w] \in Tasks /\ task[w].slot = s
      /\ TaskOK(task[w], Filters(s)) /\ Frame(w) = fc[s] /\ Picture(w) \in Pictures
      /\ Picture(w).filters = Filters(s) /\ setup \in DOMAIN Setups /\ Busy(w, s)
      /\ ~fc[s].finished
      /\ [task EXCEPT ![w] = task[w]] = task /\ [fc EXCEPT ![Slot(w)] = Frame(w)] = fc
      /\ [pics EXCEPT ![Frame(w).pic] = Picture(w)] = pics
  BY <1>1, <1>s, Now
<1>3. Mine(w, s) = AllUnits /\ TwoPass /\ task[w].recon = 0
  BY <1>1, <1>s, StartMine
<1>4. CASE Abort(Slot(w), FALSE) /\ Goto(w, "search") /\ UNCHANGED task
  BY <1>1, <1>4, AbortStep
<1>5. CASE /\ task' = [task EXCEPT ![w].type = "InitCdf"]
           /\ Goto(w, "start") /\ UNCHANGED <<fc, pics>>
  <2>k. PICK k : k = [task[w] EXCEPT !.type = "InitCdf"]
    OBVIOUS
  <2>1. StepTo(w, "start", k, Frame(w), Picture(w))
    BY <1>1, <1>2, <1>5, <2>k DEF StepTo, Goto
  <2>2. /\ k \in Tasks /\ k.slot = s /\ k.type = "InitCdf" /\ k.recon = 0
    BY <1>2, <1>3, <2>k DEF Tasks, TaskTypes
  <2>3. /\ TaskOK(k, Filters(s)) /\ PlaceOK("start", k.type) /\ "start" \in Places
    BY <1>3, <2>2 DEF TaskOK, PlaceOK, Places, IsTile, InitTypes
  <2>4. /\ TypeOK' /\ Touch(w, s) /\ setup' = setup
        /\ fc'[s] = fc[s] /\ at'[w] = "start" /\ task'[w] = k
    BY <1>1, <1>2, <1>s, <2>1, <2>2, <2>3, Step
  <2>5. Busy(w, s)'
    BY <1>2, <2>4, TouchFacts
  <2>6. Mine(w, s)' = Mine(w, s)
    BY <1>3, <2>2, <2>4, <2>5, SameSetup DEF Mine, Units, InitTypes
  <2>7. Before(s, 0)' /\ Before(s, 1)'
    BY <2>2, <2>4, <2>5 DEF Before, InitTypes
  <2>8. RowsOK(s)'
    BY <2>4, <2>7, NoRows
  <2> QED
    BY <1>1, <1>2, <1>s, <2>2, <2>3, <2>4, <2>6, <2>8, Stay
<1>6. CASE /\ fc' = [fc EXCEPT ![Slot(w)].queue = @ \cup Pend([task[w] EXCEPT !.type = "InitCdf"])]
           /\ Goto(w, "search") /\ UNCHANGED <<task, pics>>
  <2>t. PICK t : t = [task[w] EXCEPT !.type = "InitCdf", !.slot = None]
    OBVIOUS
  <2>g. PICK g : g = [fc[s] EXCEPT !.queue = @ \cup {t}]
    OBVIOUS
  <2>1. StepTo(w, "search", task[w], g, Picture(w))
    BY <1>1, <1>2, <1>6, <1>s, <2>t, <2>g DEF StepTo, Goto, Pend, Tasks
  <2>2. /\ t \in Tasks /\ t.slot = None /\ t.type = "InitCdf" /\ t.recon = 0
    BY <1>2, <1>3, <2>t DEF Tasks, TaskTypes
  <2>3. /\ g \in Frames /\ g.queue = fc[s].queue \cup {t}
        /\ g.pic = fc[s].pic /\ g.counter = fc[s].counter
        /\ g.nextTileRow = fc[s].nextTileRow /\ g.finished = fc[s].finished
    BY <1>2, <2>2, <2>g DEF Frames
  <2>4. /\ TaskOK(t, Filters(s)) /\ "search" \in Places
    BY <1>3, <2>2 DEF TaskOK, Places, IsTile, InitTypes
  <2>5. /\ TypeOK' /\ Touch(w, s) /\ setup' = setup /\ fc'[s] = g /\ at'[w] = "search"
    BY <1>1, <1>2, <1>s, <2>1, <2>3, <2>4, Step
  <2>6. Units(t) = Mine(w, s)
    BY <1>3, <2>2 DEF Units, InitTypes
  <2>7. Before(s, 0)' /\ Before(s, 1)'
    BY <2>2, <2>3, <2>5 DEF Before, InitTypes
  <2>8. RowsOK(s)'
    BY <2>5, <2>7, NoRows
  <2> QED
    BY <1>1, <1>2, <1>s, <2>2, <2>3, <2>4, <2>5, <2>6, <2>8, Back
<1> QED
  BY <1>4, <1>5, <1>6 DEF InitFrame

----------------------------------------------------------------------------
(* The tasks of a pass *)

\* The task of a tile ...
PassTile(t, i, p, filters) ==
  /\ t \in Tasks /\ t.tile = i /\ t.recon = 0 /\ t.slot = None
  /\ TaskOK(t, filters) /\ Pass(t) = p /\ t.type \notin InitTypes
  /\ Units(t) = {<<p, "tile", i>>}
  /\ t = Task(IF p = 1 THEN "TileEntropy" ELSE "TileReconstruction", RowStart[TileRow(i)], i)

\* ... and that of the first row.
PassRow(t, p, filters) ==
  /\ t \in Tasks /\ t.sby = 0 /\ t.recon = 1 /\ t.slot = None
  /\ TaskOK(t, filters) /\ Pass(t) = p /\ t.type \notin InitTypes
  /\ Units(t) = RowUnits(p, Rows)

TilesToo(row, p, filters) ==
  /\ \A t \in PassTasks(p, filters) : t = row \/ \E i \in Tiles : PassTile(t, i, p, filters)
  /\ \A i \in Tiles : \E t \in PassTasks(p, filters) : Units(t) = {<<p, "tile", i>>}

\* They are the tiles and the first row of its chain.
LEMMA PassTasksAre ==
  ASSUME setup \in DOMAIN Setups, NEW p \in {0, 1}, p = 1 => TwoPass,
         NEW filters \in SUBSET {"deblock", "cdef"}
  PROVE  \E row : /\ row \in PassTasks(p, filters) /\ PassRow(row, p, filters)
                  /\ TilesToo(row, p, filters)
<1>y. PICK y : y = IF p = 1 THEN "EntropyProgress" ELSE FirstFilter(filters)
  OBVIOUS
<1>z. PICK z : z = IF p = 1 THEN "TileEntropy" ELSE "TileReconstruction"
  OBVIOUS
<1>1. PassTasks(p, filters) = {FirstRow(y)} \cup TileTasks(z)
  BY <1>y, <1>z DEF PassTasks
<1>2. /\ y \in {"EntropyProgress", "DeblockCols", "DeblockRows", "ReconstructionProgress"}
      /\ y = "EntropyProgress" <=> p = 1
      /\ y = "DeblockCols" => "deblock" \in filters
      /\ y = "DeblockRows" => filters = {"cdef"}
      /\ y = "ReconstructionProgress" => filters = {}
  BY <1>y DEF FirstFilter
<1>r. PICK row : row = FirstRow(y)
  OBVIOUS
<1>3. /\ row = [type |-> y, sby |-> 0, tile |-> 0, recon |-> 1, deblock |-> 0, slot |-> None]
  BY <1>r DEF FirstRow, Task
<1>4. 0 \in Rows /\ 0 \in Tiles /\ 1 \in 0 .. Sbh /\ Rows = 0 .. Sbh - 1
  BY SetupFacts DEF Rows
<1>5. row \in Tasks /\ row.sby = 0 /\ row.recon = 1 /\ row.slot = None /\ row.type = y
  BY <1>2, <1>3, <1>4 DEF Tasks, TaskTypes
<1>6. TaskOK(row, filters) /\ Pass(row) = p /\ row.type \notin InitTypes /\ ~IsTile(row)
  BY <1>2, <1>5 DEF TaskOK, Pass, IsTile, InitTypes
<1>7. Units(row) = RowUnits(p, Rows)
  BY <1>4, <1>5, <1>6 DEF Units
<1>8. ASSUME NEW i \in Tiles, NEW t, t = Task(z, RowStart[TileRow(i)], i)
      PROVE  PassTile(t, i, p, filters)
  <2>1. /\ t.type = z /\ t.sby = RowStart[TileRow(i)] /\ t.tile = i /\ t.recon = 0
        /\ t.deblock = 0 /\ t.slot = None
    BY <1>8 DEF Task
  <2>2. /\ RowStart[TileRow(i)] \in Rows /\ RowStart[TileRow(i) + 1] \in 0 .. Sbh
        /\ RowStart[TileRow(i)] < RowStart[TileRow(i) + 1]
    BY TileRowType
  <2>3. t \in Tasks
    BY <1>8, <1>z, <1>4, <2>2, SetupFacts DEF Task, Tasks, TaskTypes
  <2>4. IsTile(t) /\ t.type \notin InitTypes /\ Pass(t) = p
    BY <1>z, <2>1 DEF IsTile, InitTypes, Pass
  <2>5. TaskOK(t, filters)
    BY <1>z, <1>4, <2>1, <2>2, <2>4 DEF TaskOK
  <2>6. Units(t) = {<<p, "tile", i>>}
    BY <2>1, <2>4 DEF Units
  <2> QED
    BY <1>8, <1>z, <2>1, <2>3, <2>4, <2>5, <2>6 DEF PassTile
<1>9. ASSUME NEW t \in PassTasks(p, filters), t # row
      PROVE  \E i \in Tiles : PassTile(t, i, p, filters)
  <2>1. PICK i \in Tiles : t = Task(z, RowStart[TileRow(i)], i)
    BY <1>1, <1>9, <1>r DEF TileTasks
  <2> QED
    BY <2>1, <1>8
<1>10. ASSUME NEW i \in Tiles
       PROVE  \E t \in PassTasks(p, filters) : Units(t) = {<<p, "tile", i>>}
  <2>1. PICK t : t = Task(z, RowStart[TileRow(i)], i)
    OBVIOUS
  <2>2. t \in PassTasks(p, filters)
    BY <1>1, <2>1 DEF TileTasks
  <2> QED
    BY <2>1, <2>2, <1>8 DEF PassTile
<1>11. row \in PassTasks(p, filters)
  BY <1>1, <1>r
<1> QED
  BY <1>5, <1>6, <1>7, <1>9, <1>10, <1>11 DEF PassRow, TilesToo

\* Together they stand for the units of the pass, each for its own.
LEMMA PassTasksFacts ==
  ASSUME setup \in DOMAIN Setups, NEW p \in {0, 1}, p = 1 => TwoPass,
         NEW filters \in SUBSET {"deblock", "cdef"}
  PROVE  /\ \A t \in PassTasks(p, filters) :
              /\ t \in Tasks /\ t.slot = None /\ TaskOK(t, filters) /\ Pass(t) = p
              /\ t.type \notin InitTypes /\ (t.recon # 0 => t.sby = 0)
         /\ \A u : (\E t \in PassTasks(p, filters) : u \in Units(t)) <=> u \in PassUnits(p)
         /\ \A t, u \in PassTasks(p, filters) : t = u \/ Units(t) \cap Units(u) = {}
<1>r. PICK row : /\ row \in PassTasks(p, filters) /\ PassRow(row, p, filters)
                  /\ TilesToo(row, p, filters)
  BY PassTasksAre
<1>t. ASSUME NEW t \in PassTasks(p, filters), t # row
      PROVE  \E i \in Tiles : PassTile(t, i, p, filters)
  BY <1>r, <1>t DEF TilesToo
<1>1. ASSUME NEW t \in PassTasks(p, filters)
      PROVE  /\ t \in Tasks /\ t.slot = None /\ TaskOK(t, filters) /\ Pass(t) = p
             /\ t.type \notin InitTypes /\ (t.recon # 0 => t.sby = 0)
  BY <1>r, <1>t DEF PassRow, PassTile
<1>2. ASSUME NEW u
      PROVE  (\E t \in PassTasks(p, filters) : u \in Units(t)) <=> u \in PassUnits(p)
  <2>1. ASSUME NEW t \in PassTasks(p, filters), u \in Units(t)
        PROVE  u \in PassUnits(p)
    <3>1. CASE t = row
      BY <3>1, <2>1, <1>r DEF PassRow, RowUnits, PassUnits
    <3>2. CASE t # row
      <4>1. PICK i \in Tiles : Units(t) = {<<p, "tile", i>>}
        BY <3>2, <1>t DEF PassTile
      <4> QED
        BY <4>1, <2>1 DEF PassUnits
    <3> QED
      BY <3>1, <3>2
  <2>2. ASSUME u \in PassUnits(p)
        PROVE  \E t \in PassTasks(p, filters) : u \in Units(t)
    <3>1. CASE u \in {p} \X {"row"} \X Rows
      <4>1. u \in Units(row)
        BY <3>1, <1>r DEF PassRow, RowUnits
      <4> QED
        BY <4>1, <1>r
    <3>2. CASE u \in {p} \X {"tile"} \X Tiles
      <4>1. PICK i \in Tiles : u = <<p, "tile", i>>
        BY <3>2
      <4>2. PICK t \in PassTasks(p, filters) : Units(t) = {<<p, "tile", i>>}
        BY <1>r DEF TilesToo
      <4> QED
        BY <4>1, <4>2
    <3> QED
      BY <2>2, <3>1, <3>2 DEF PassUnits
  <2> QED
    BY <2>1, <2>2
<1>3. ASSUME NEW t \in PassTasks(p, filters), NEW u \in PassTasks(p, filters), t # u
      PROVE  Units(t) \cap Units(u) = {}
  <2>1. CASE t # row /\ u # row
    <3>1. PICK i \in Tiles : PassTile(t, i, p, filters)
      BY <2>1, <1>t
    <3>2. PICK j \in Tiles : PassTile(u, j, p, filters)
      BY <2>1, <1>t
    <3>3. i # j
      BY <3>1, <3>2, <1>3 DEF PassTile
    <3> QED
      BY <3>1, <3>2, <3>3 DEF PassTile
  <2>2. CASE t = row
    <3>1. PICK i \in Tiles : Units(u) = {<<p, "tile", i>>}
      BY <2>2, <1>3, <1>t DEF PassTile
    <3> QED
      BY <2>2, <3>1, <1>r DEF PassRow, RowUnits
  <2>3. CASE u = row
    <3>1. PICK i \in Tiles : Units(t) = {<<p, "tile", i>>}
      BY <2>3, <1>3, <1>t DEF PassTile
    <3> QED
      BY <2>3, <3>1, <1>r DEF PassRow, RowUnits
  <2> QED
    BY <2>1, <2>2, <2>3
<1> QED
  BY <1>1, <1>2, <1>3

\* The frame context after a pass is created.
LEMMA CreatedFacts ==
  ASSUME setup \in DOMAIN Setups, NEW p \in {0, 1}, NEW filters, NEW f \in Frames,
         PassTasks(p, filters) \subseteq Tasks
  PROVE  /\ Created(f, p, filters) \in Frames
         /\ Created(f, p, filters).queue = f.queue \cup PassTasks(p, filters)
         /\ Created(f, p, filters).pic = f.pic /\ Created(f, p, filters).counter = f.counter
         /\ Created(f, p, filters).finished = f.finished
         /\ Created(f, p, filters).nextTileRow = [f.nextTileRow EXCEPT ![p] = 0]
         /\ Created(f, p, filters).done = [f.done EXCEPT ![p] = FALSE]
         /\ Created(f, p, filters).frame = IF p = 0 THEN {} ELSE f.frame
<1>2. f.queue \cup PassTasks(p, filters) \in SUBSET Tasks
  BY DEF Frames
<1>3. 0 \in 0 .. TILE_ERROR /\ 0 \in 0 .. TileRows - 1
  BY SetupFacts DEF TILE_ERROR
<1>r. PICK r : r = Reset(f, p)
  OBVIOUS
<1>4. /\ r \in Frames /\ r.queue = f.queue /\ r.pic = f.pic /\ r.counter = f.counter
      /\ r.finished = f.finished /\ r.nextTileRow = [f.nextTileRow EXCEPT ![p] = 0]
      /\ r.done = [f.done EXCEPT ![p] = FALSE]
      /\ r.frame = IF p = 0 THEN {} ELSE f.frame
  <2>1. /\ [f.nextTileRow EXCEPT ![p] = 0] \in [{0, 1} -> 0 .. TileRows - 1]
        /\ [f.done EXCEPT ![p] = FALSE] \in [{0, 1} -> BOOLEAN]
    BY <1>3 DEF Frames
  <2>2. CASE p = 1
    <3>1. r = [f EXCEPT !.done = [@ EXCEPT ![1] = FALSE],
                        !.nextTileRow = [@ EXCEPT ![1] = 0], !.entropy = 0]
      BY <2>2, <1>r DEF Reset
    <3>2. r \in Frames
      BY <3>1, <2>1, <2>2, <1>3 DEF Frames
    <3> QED
      BY <3>1, <3>2, <2>2 DEF Frames
  <2>3. CASE p = 0
    <3>1. r = [f EXCEPT !.done = [@ EXCEPT ![0] = FALSE],
                        !.nextTileRow = [@ EXCEPT ![0] = 0],
                        !.frame = {}, !.copyLpf = {}, !.deblock = 0]
      BY <2>3, <1>r DEF Reset
    <3>2. r \in Frames
      BY <3>1, <2>1, <2>3, <1>3 DEF Frames
    <3> QED
      BY <3>1, <3>2, <2>3 DEF Frames
  <2> QED
    BY <2>2, <2>3
<1>g. PICK g : g = [r EXCEPT !.initDone = TRUE, !.queue = @ \cup PassTasks(p, filters)]
  OBVIOUS
<1>5. g = Created(f, p, filters)
  BY <1>r, <1>g DEF Created
<1>6. /\ g \in Frames /\ g.queue = r.queue \cup PassTasks(p, filters)
      /\ g.pic = r.pic /\ g.counter = r.counter /\ g.finished = r.finished
      /\ g.nextTileRow = r.nextTileRow /\ g.done = r.done /\ g.frame = r.frame
  BY <1>2, <1>4, <1>g DEF Frames
<1> QED
  BY <1>4, <1>5, <1>6

\* setup_tile changes only the progress of the tiles.
LEMMA SetUpFacts ==
  ASSUME setup \in DOMAIN Setups, NEW f \in Frames
  PROVE  SetUp(f) \in Frames /\ Like(f, SetUp(f))
<1>1. \A i \in Tiles : RowStart[TileRow(i)] \in 0 .. TILE_ERROR
  BY TileRowType, SetupFacts DEF Rows, TILE_ERROR
<1> QED
  BY <1>1 DEF SetUp, Frames, Like

\* The first row of a pass that was just created is open, with all behind it.
LEMMA PassOpen ==
  ASSUME setup \in DOMAIN Setups, NEW p \in {0, 1}, p = 1 => TwoPass,
         NEW filters \in SUBSET {"deblock", "cdef"}, NEW s, setup' = setup,
         PassTasks(p, filters) \subseteq fc'[s].queue
  PROVE  \A r \in Rows : RowOpen(s, p, r)'
<1>1. ASSUME NEW r \in Rows PROVE RowOpen(s, p, r)'
  <2>1. <<p, "row", r>> \in PassUnits(p)
    BY DEF PassUnits
  <2>2. PICK t \in PassTasks(p, filters) : <<p, "row", r>> \in Units(t)
    BY <2>1, PassTasksFacts
  <2>3. Units(t)' = Units(t)
    BY SameSetup
  <2> QED
    BY <2>2, <2>3 DEF RowOpen
<1> QED
  BY <1>1

\* InitCdf, up to the tasks of the first pass.
LEMMA InitFrameCdfStep ==
  ASSUME IInv, NEW w \in Workers, InitFrameCdf(w)
  PROVE  IInv'
<1>s. PICK s : s = Slot(w)
  OBVIOUS
<1>1. at[w] = "InitCdf" /\ UNCHANGED <<task, caller>>
  BY DEF InitFrameCdf
<1>2. /\ s \in Slots /\ fc[s] \in Frames /\ task[w] \in Tasks /\ task[w].slot = s
      /\ TaskOK(task[w], Filters(s)) /\ Frame(w) = fc[s] /\ Picture(w) \in Pictures
      /\ Picture(w).filters = Filters(s) /\ setup \in DOMAIN Setups /\ Busy(w, s)
      /\ ~fc[s].finished /\ FrameOK(s)
      /\ [task EXCEPT ![w] = task[w]] = task
      /\ [pics EXCEPT ![Frame(w).pic] = Picture(w)] = pics
  BY <1>1, <1>s, Now
<1>3. /\ Mine(w, s) = AllUnits /\ TwoPass /\ task[w].type = "InitCdf"
      /\ fc[s].queue = {}
  BY <1>1, <1>s, StartMine
<1>4. CASE Abort(Slot(w), TRUE) /\ Goto(w, "search")
  BY <1>1, <1>4, AbortStep
<1>5. CASE /\ fc' = [fc EXCEPT ![Slot(w)] = Created(SetUp(Frame(w)), 1, Picture(w).filters)]
           /\ Goto(w, "create") /\ UNCHANGED pics
  <2>f. PICK f : f = SetUp(fc[s])
    OBVIOUS
  <2>g. PICK g : g = Created(f, 1, Filters(s))
    OBVIOUS
  <2>In. PICK In : In = PassTasks(1, Filters(s))
    OBVIOUS
  <2>0. Filters(s) \in SUBSET {"deblock", "cdef"}
    BY <1>2 DEF Pictures
  <2>1. f \in Frames /\ Like(fc[s], f)
    BY <1>2, <2>f, SetUpFacts
  <2>2. /\ g \in Frames /\ g.queue = In /\ g.pic = fc[s].pic /\ g.counter = fc[s].counter
        /\ ~g.finished /\ g.nextTileRow[1] = 0 /\ g.done[1] = FALSE
    <3>1. /\ g \in Frames /\ g.queue = f.queue \cup In /\ g.pic = f.pic
          /\ g.counter = f.counter /\ g.finished = f.finished
          /\ g.nextTileRow = [f.nextTileRow EXCEPT ![1] = 0]
          /\ g.done = [f.done EXCEPT ![1] = FALSE]
      <4>1. PassTasks(1, Filters(s)) \subseteq Tasks
        BY <1>2, <1>3, <2>0, PassTasksFacts
      <4> QED
        BY <1>2, <2>1, <2>g, <2>In, <4>1, CreatedFacts
    <3>2. /\ f.nextTileRow \in [{0, 1} -> 0 .. TileRows - 1] /\ f.done \in [{0, 1} -> BOOLEAN]
      BY <2>1 DEF Frames
    <3> QED
      BY <1>2, <1>3, <2>1, <3>1, <3>2 DEF Like
  <2>3. StepTo(w, "create", task[w], g, Picture(w))
    BY <1>1, <1>2, <1>5, <1>s, <2>f, <2>g DEF StepTo, Goto
  <2>4. "create" \in Places /\ PlaceOK("create", task[w].type)
    BY <1>3 DEF Places, PlaceOK
  <2>5. /\ TypeOK' /\ Touch(w, s) /\ setup' = setup
        /\ fc'[s] = g /\ at'[w] = "create" /\ task'[w] = task[w]
    BY <1>1, <1>2, <1>s, <2>2, <2>3, <2>4, Step
  <2>6. Busy(w, s)'
    BY <1>2, <2>5, TouchFacts
  <2>7. Mine(w, s)' = PassUnits(0)
    BY <2>5, <2>6, SameSetup DEF Mine, PassUnits
  <2>8. /\ \A t \in In : t \in Tasks /\ t.slot = None /\ TaskOK(t, Filters(s)) /\ Pass(t) = 1
                          /\ t.type \notin InitTypes /\ (t.recon # 0 => t.sby = 0)
        /\ \A u : (\E t \in In : u \in Units(t)) <=> u \in PassUnits(1)
        /\ \A t, u \in In : t = u \/ Units(t) \cap Units(u) = {}
    BY <1>2, <1>3, <2>0, <2>In, PassTasksFacts
  <2>9. AllUnits = PassUnits(0) \cup PassUnits(1) /\ PassUnits(0) \cap PassUnits(1) = {}
    BY <1>2, <1>3, InUnits
  <2>10. Exchange(w, s, In, {}, {})
    <3>1. /\ {} \subseteq fc[s].queue /\ fc'[s].queue = (fc[s].queue \ {}) \cup In
      BY <1>3, <2>2, <2>5
    <3>2. ASSUME NEW u
          PROVE  (u \in Mine(w, s) \/ \E t \in {} : u \in Units(t)) <=>
                 (u \in {} \/ u \in Mine(w, s)' \/ \E t \in In : u \in Units(t))
      BY <1>3, <2>7, <2>8, <2>9
    <3>3. \A t \in In : Mine(w, s)' \cap Units(t) = {}
      BY <2>7, <2>8, <2>9
    <3> QED
      BY <3>1, <3>2, <3>3, <2>8 DEF Exchange
  <2>11. Fits(w, s, In, {})
    <3>1. RowStart[0] = 0 /\ 0 < RowStart[0 + 1] /\ 0 + 1 = 1
      BY <1>2, SetupFacts
    <3>2. ASSUME NEW t \in In, t.recon # 0
          PROVE  /\ RowStart[fc'[s].nextTileRow[Pass(t)]] <= t.sby
                 /\ t.sby < RowStart[fc'[s].nextTileRow[Pass(t)] + 1]
      BY <3>1, <3>2, <2>2, <2>5, <2>8
    <3> QED
      BY <1>2, <1>3, <2>4, <2>5, <2>8, <3>2 DEF Fits
  <2>12. /\ (fc[s].pic \in 1 .. Number)' /\ TasksOK(s)' /\ Apart(s)' /\ ChainOK(s)'
         /\ ToDo(s)' = ToDo(s) \ {}
    <3>1. s \in Slots /\ Touch(w, s) /\ FrameOK(s)
      BY <1>2, <2>5
    <3> QED
      BY <3>1, <2>10, <2>11, Turn
  <2>13. RowsOK(s)'
    <3>1. Before(s, 0)'
      BY <1>3, <2>5, <2>6 DEF Before, InitTypes
    <3>2. Sbh' = Sbh /\ Sbh - 1 \in Rows
      BY <1>2, <2>5, SameSetup, SetupFacts DEF Rows
    <3>3. \A r \in Rows : RowOpen(s, 1, r)'
      BY <1>2, <1>3, <2>0, <2>2, <2>5, <2>In, PassOpen
    <3>4. RowOpen(s, 1, Sbh - 1)'
      <4>a. PICK r : r = Sbh - 1
        OBVIOUS
      <4>1. RowOpen(s, 1, r)' /\ r = (Sbh - 1)'
        BY <3>2, <3>3, <4>a
      <4> QED
        BY <4>1 DEF RowOpen
    <3> QED
      BY <3>1, <3>4, <2>2, <2>5 DEF RowsOK
  <2>14. FrameOK(s)'
    BY <1>2, <2>2, <2>5, <2>12, <2>13 DEF FrameOK
  <2>15. ~fc'[s].finished /\ Unfinished(s)
    BY <1>2, <2>2, <2>5 DEF Unfinished
  <2> QED
    BY <1>2, <2>5, <2>14, <2>15, StepInv
<1> QED
  BY <1>4, <1>5 DEF InitFrameCdf

\* The tasks of the second pass.
LEMMA CreateSecondStep ==
  ASSUME IInv, NEW w \in Workers, CreateSecond(w)
  PROVE  IInv'
<1>s. PICK s : s = Slot(w)
  OBVIOUS
<1>1. /\ at[w] = "create" /\ UNCHANGED <<task, pics, caller>> /\ Goto(w, "search")
      /\ fc' = [fc EXCEPT ![Slot(w)] = Created(@, 0, Picture(w).filters)]
  BY DEF CreateSecond
<1>2. /\ s \in Slots /\ fc[s] \in Frames /\ task[w] \in Tasks /\ task[w].slot = s
      /\ TaskOK(task[w], Filters(s)) /\ Frame(w) = fc[s] /\ Picture(w) \in Pictures
      /\ Picture(w).filters = Filters(s) /\ setup \in DOMAIN Setups /\ Busy(w, s)
      /\ ~fc[s].finished /\ FrameOK(s) /\ RowsOK(s) /\ TasksOK(s)
      /\ PlaceOK(at[w], task[w].type)
      /\ [task EXCEPT ![w] = task[w]] = task /\ task \in [Workers -> Tasks]
      /\ [pics EXCEPT ![Frame(w).pic] = Picture(w)] = pics
  BY <1>1, <1>s, Now
<1>3. task[w].type = "InitCdf"
  BY <1>1, <1>2 DEF PlaceOK
<1>4. Mine(w, s) = PassUnits(0)
  BY <1>1, <1>2 DEF Mine
<1>g. PICK g : g = Created(fc[s], 0, Filters(s))
  OBVIOUS
<1>In. PICK In : In = PassTasks(0, Filters(s))
  OBVIOUS
<1>5. Filters(s) \in SUBSET {"deblock", "cdef"}
  BY <1>2 DEF Pictures
<1>6. /\ g \in Frames /\ g.queue = fc[s].queue \cup In /\ g.pic = fc[s].pic
      /\ g.counter = fc[s].counter /\ ~g.finished /\ g.nextTileRow[0] = 0
      /\ g.nextTileRow[1] = fc[s].nextTileRow[1]
      /\ g.done[1] = fc[s].done[1] /\ g.frame = {}
  <2>1. /\ g \in Frames /\ g.queue = fc[s].queue \cup In /\ g.pic = fc[s].pic
        /\ g.counter = fc[s].counter /\ g.finished = fc[s].finished
        /\ g.nextTileRow = [fc[s].nextTileRow EXCEPT ![0] = 0]
        /\ g.done = [fc[s].done EXCEPT ![0] = FALSE] /\ g.frame = {}
    <3>1. PassTasks(0, Filters(s)) \subseteq Tasks
      BY <1>2, <1>5, PassTasksFacts
    <3> QED
      BY <1>2, <1>g, <1>In, <3>1, CreatedFacts
  <2>2. /\ fc[s].nextTileRow \in [{0, 1} -> 0 .. TileRows - 1]
        /\ fc[s].done \in [{0, 1} -> BOOLEAN]
    BY <1>2 DEF Frames
  <2> QED
    BY <1>2, <2>1, <2>2
<1>7. StepTo(w, "search", task[w], g, Picture(w))
  <2>1. fc' = [fc EXCEPT ![s] = g]
    BY <1>1, <1>2, <1>s, <1>g
  <2> QED
    BY <1>1, <1>2, <1>s, <2>1 DEF StepTo, Goto
<1>8. "search" \in Places
  BY DEF Places
<1>9. /\ TypeOK' /\ Touch(w, s) /\ setup' = setup
      /\ fc'[s] = g /\ at'[w] = "search"
  BY <1>1, <1>2, <1>s, <1>6, <1>7, <1>8, Step
<1>10. ~Busy(w, s)' /\ Mine(w, s)' = {}
  BY <1>9 DEF Mine, Busy
<1>11. /\ \A t \in In : t \in Tasks /\ t.slot = None /\ TaskOK(t, Filters(s)) /\ Pass(t) = 0
                         /\ t.type \notin InitTypes /\ (t.recon # 0 => t.sby = 0)
       /\ \A u : (\E t \in In : u \in Units(t)) <=> u \in PassUnits(0)
       /\ \A t, u \in In : t = u \/ Units(t) \cap Units(u) = {}
  BY <1>2, <1>5, <1>In, PassTasksFacts
<1>12. {} \subseteq fc[s].queue /\ fc'[s].queue = (fc[s].queue \ {}) \cup In
  BY <1>6, <1>9
<1>13. Exchange(w, s, In, {}, {})
  <2>1. ASSUME NEW u
        PROVE  (u \in Mine(w, s) \/ \E t \in {} : u \in Units(t)) <=>
               (u \in {} \/ u \in Mine(w, s)' \/ \E t \in In : u \in Units(t))
    BY <1>4, <1>10, <1>11
  <2> QED
    BY <1>10, <1>11, <1>12, <2>1 DEF Exchange
<1>14. \A t \in fc[s].queue : t.recon # 0 => Pass(t) = 1
  <2>1. ASSUME NEW t \in fc[s].queue, t.recon # 0 PROVE Pass(t) = 1
    <3>1. t \in Tasks /\ TaskOK(t, Filters(s))
      BY <1>2 DEF Frames, TasksOK
    <3>2. t.type \notin InitTypes /\ ~IsTile(t)
      BY <2>1, <3>1 DEF TaskOK
    <3>3. <<Pass(t), "row", t.sby>> \in Units(t) /\ t.sby \in Rows
      BY <1>2, <3>1, <3>2, UnitsFacts DEF Tasks
    <3>4. Mine(w, s) \cap Units(t) = {}
      BY <1>2 DEF FrameOK, Apart
    <3>5. <<0, "row", t.sby>> \in PassUnits(0)
      BY <3>3 DEF PassUnits
    <3> QED
      BY <1>4, <3>3, <3>4, <3>5 DEF Pass
  <2> QED
    BY <2>1
<1>15. Fits(w, s, In, {})
  <2>1. RowStart[0] = 0 /\ 0 < RowStart[0 + 1] /\ 0 + 1 = 1
    BY <1>2, SetupFacts
  <2>2. ASSUME NEW t \in In, t.recon # 0
        PROVE  /\ RowStart[fc'[s].nextTileRow[Pass(t)]] <= t.sby
               /\ t.sby < RowStart[fc'[s].nextTileRow[Pass(t)] + 1]
    BY <2>1, <2>2, <1>6, <1>9, <1>11
  <2>3. ASSUME NEW t \in fc[s].queue, t.recon # 0
        PROVE  fc'[s].nextTileRow[Pass(t)] = fc[s].nextTileRow[Pass(t)]
    BY <2>3, <1>6, <1>9, <1>14
  <2> QED
    BY <1>9, <1>11, <2>2, <2>3 DEF Fits
<1>16. /\ (fc[s].pic \in 1 .. Number)' /\ TasksOK(s)' /\ Apart(s)' /\ ChainOK(s)'
       /\ ToDo(s)' = ToDo(s) \ {}
  BY <1>2, <1>9, <1>13, <1>15, Turn
<1>17. RowsOK(s)'
  <2>1. Rows' = Rows /\ Sbh' = Sbh /\ TwoPass' = TwoPass /\ 0 \in Rows
    BY <1>2, <1>9, SameSetup, SetupFacts
  <2>2. \A r \in Rows : RowOpen(s, 0, r)'
    BY <1>2, <1>5, <1>6, <1>9, <1>In, PassOpen
  <2>3. RowOpen(s, 1, Sbh - 1)' <=> RowOpen(s, 1, Sbh - 1)
    <3>a. PICK r : r = Sbh - 1
      OBVIOUS
    <3>1. RowOpen(s, 1, r)' <=> RowOpen(s, 1, r)
      <4>1. <<1, "row", r>> \notin PassUnits(0)
        BY DEF PassUnits
      <4>2. <<1, "row", r>> \notin Open(w, s) /\ <<1, "row", r>> \notin Open(w, s)'
        BY <4>1, <1>4, <1>10 DEF Open
      <4>3. (<<1, "row", r>> \in Open(w, s) \/ \E t \in {} : <<1, "row", r>> \in Units(t)) <=>
            (<<1, "row", r>> \in Open(w, s)' \/ \E t \in In : <<1, "row", r>> \in Units(t))
        BY <4>1, <4>2, <1>11
      <4>4. s \in Slots /\ Touch(w, s)
        BY <1>2, <1>9
      <4>5. Trades(w, s, In, {}, 1, r)
        BY <4>3, <1>12 DEF Trades
      <4> QED
        BY <4>4, <4>5, Traded
    <3>2. r = (Sbh - 1)'
      BY <2>1, <3>a
    <3> QED
      BY <3>1, <3>2, <3>a DEF RowOpen
  <2>4. Before(s, 1) => Before(s, 1)'
    <3>1. \A v \in Workers \ {w} : Busy(v, s)' <=> Busy(v, s)
      BY <1>2, <1>9, TouchFacts
    <3>2. \A v \in Workers \ {w} : at'[v] = at[v] /\ task'[v] = task[v]
      BY <1>9 DEF Touch
    <3> QED
      BY <1>1, <1>12, <3>1, <3>2 DEF Before, InitTypes
  <2>5. TwoPass /\ ~Before(s, 1)' => (fc'[s].done[1] <=> ~RowOpen(s, 1, Sbh - 1)')
    BY <2>3, <2>4, <1>2, <1>6, <1>9 DEF RowsOK
  <2>6. /\ \A r \in Rows : r \in fc'[s].frame <=> ~RowOpen(s, 0, r)'
        /\ ~(Rows \subseteq fc'[s].frame)
    BY <2>1, <2>2, <1>6, <1>9
  <2> QED
    BY <2>1, <2>5, <2>6 DEF RowsOK
<1>18. FrameOK(s)'
  BY <1>2, <1>6, <1>9, <1>16, <1>17 DEF FrameOK
<1>19. ~fc'[s].finished /\ Unfinished(s)
  BY <1>2, <1>6, <1>9 DEF Unfinished
<1> QED
  BY <1>2, <1>9, <1>18, <1>19, StepInv

----------------------------------------------------------------------------
(* The search *)

\* The row of a task, and what its next row stands for.
Own(t) ==
  IF t.type \in InitTypes \/ IsTile(t) THEN Units(t) ELSE {<<Pass(t), "row", t.sby>>}

\* The next row of a chain is a task of the chain.
LEMMA NextRowIs ==
  ASSUME setup \in DOMAIN Setups, NEW t \in Tasks, NEW filters, TaskOK(t, filters),
         NEW n \in NextRows(t)
  PROVE  /\ n \in Tasks /\ n.slot = t.slot /\ TaskOK(n, filters) /\ n.type = t.type
         /\ Pass(n) = Pass(t) /\ n.sby = t.sby + 1 /\ n.recon # 0
         /\ t.recon # 0 /\ t.sby + 1 \in Rows
         /\ n.type \notin InitTypes /\ ~IsTile(n)
<1>1. t.recon # 0 /\ t.sby + 1 < Sbh /\ n = [t EXCEPT !.sby = @ + 1, !.recon = t.sby + 2]
  BY DEF NextRows
<1>2. t.sby \in Rows /\ Sbh \in Nat
  BY SetupFacts DEF Tasks
<1>3. t.sby + 1 \in Rows /\ t.sby + 2 \in 0 .. Sbh /\ t.sby + 2 # 0
  BY <1>1, <1>2 DEF Rows
<1>4. n \in Tasks
  BY <1>1, <1>3 DEF Tasks
<1>5. /\ n.type = t.type /\ n.sby = t.sby + 1 /\ n.recon = t.sby + 2 /\ n.slot = t.slot
      /\ n.tile = t.tile
  BY <1>1, <1>2 DEF Tasks
<1>6. t.type \notin InitTypes /\ ~IsTile(t) /\ n.recon = n.sby + 1
  BY <1>1, <1>2, <1>5 DEF TaskOK, Rows
<1>7. n.type \notin InitTypes /\ ~IsTile(n) /\ Pass(n) = Pass(t)
  BY <1>5, <1>6 DEF IsTile, Pass
<1>8. TaskOK(n, filters)
  BY <1>1, <1>3, <1>5, <1>6, <1>7 DEF TaskOK
<1> QED
  BY <1>1, <1>3, <1>4, <1>5, <1>7, <1>8

\* A task of the queue stands for its own row and for what the next stands for.
LEMMA NextRowsFacts ==
  ASSUME setup \in DOMAIN Setups, NEW t \in Tasks, NEW filters, TaskOK(t, filters)
  PROVE  /\ \A u : u \in Units(t) <=> (u \in Own(t) \/ \E n \in NextRows(t) : u \in Units(n))
         /\ \A n \in NextRows(t) : Own(t) \cap Units(n) = {}
         /\ \A n, m \in NextRows(t) : n = m
<1>1. \A n, m \in NextRows(t) : n = m
  BY DEF NextRows
<1>2. CASE t.recon = 0
  <2>1. NextRows(t) = {}
    BY <1>2 DEF NextRows
  <2>2. Own(t) = Units(t)
    BY <1>2 DEF Own, Units, RowUnits
  <2> QED
    BY <2>1, <2>2
<1>3. CASE t.recon # 0
  <2>1. t.type \notin InitTypes /\ ~IsTile(t) /\ t.sby \in Rows
    BY <1>3 DEF TaskOK, Tasks
  <2>2. Own(t) = {<<Pass(t), "row", t.sby>>} /\ Units(t) = RowUnits(Pass(t), t.sby .. Sbh - 1)
    BY <1>3, <2>1 DEF Own, Units
  <2>3. t.sby \in Nat /\ Sbh \in Nat /\ t.sby <= Sbh - 1
    BY <2>1, SetupFacts DEF Rows
  <2>4. CASE t.sby + 1 < Sbh
    <3>n. PICK n : n = [t EXCEPT !.sby = @ + 1, !.recon = t.sby + 2]
      OBVIOUS
    <3>1. NextRows(t) = {n}
      BY <1>3, <2>4, <3>n DEF NextRows
    <3>2. Pass(n) = Pass(t) /\ n.sby = t.sby + 1 /\ n.recon # 0 /\ n.type \notin InitTypes /\ ~IsTile(n)
      BY <3>1, NextRowIs
    <3>3. Units(n) = RowUnits(Pass(t), t.sby + 1 .. Sbh - 1)
      BY <3>2 DEF Units
    <3>4. /\ t.sby .. Sbh - 1 = {t.sby} \cup (t.sby + 1 .. Sbh - 1)
          /\ t.sby \notin t.sby + 1 .. Sbh - 1
      BY <2>3
    <3>5. \A u : u \in Units(t) <=> u \in Own(t) \/ u \in Units(n)
      BY <2>2, <3>3, <3>4 DEF RowUnits
    <3>6. Own(t) \cap Units(n) = {}
      BY <2>2, <3>3, <3>4 DEF RowUnits
    <3> QED
      BY <1>1, <3>1, <3>5, <3>6
  <2>5. CASE ~(t.sby + 1 < Sbh)
    <3>1. NextRows(t) = {}
      BY <2>5 DEF NextRows
    <3>2. t.sby .. Sbh - 1 = {t.sby}
      BY <2>3, <2>5
    <3>3. Units(t) = Own(t)
      BY <2>2, <3>2 DEF RowUnits
    <3> QED
      BY <3>1, <3>3
  <2> QED
    BY <2>4, <2>5
<1> QED
  BY <1>2, <1>3

\* next_tile_row follows the chain of its pass.
LEMMA NextTileRowFacts ==
  ASSUME setup \in DOMAIN Setups, NEW f \in Frames, NEW t \in Tasks, NEW filters, TaskOK(t, filters),
         t.recon # 0 => /\ RowStart[f.nextTileRow[Pass(t)]] <= t.sby
                        /\ t.sby < RowStart[f.nextTileRow[Pass(t)] + 1]
  PROVE  /\ NextTileRow(f, t) \in [{0, 1} -> 0 .. TileRows - 1]
         /\ NextTileRow(f, t)[1 - Pass(t)] = f.nextTileRow[1 - Pass(t)]
         /\ t.recon = 0 => NextTileRow(f, t) = f.nextTileRow
         /\ \A n \in NextRows(t) : /\ RowStart[NextTileRow(f, t)[Pass(t)]] <= n.sby
                                   /\ n.sby < RowStart[NextTileRow(f, t)[Pass(t)] + 1]
<1>p. PICK p : p = Pass(t)
  OBVIOUS
<1>c. PICK c : c = f.nextTileRow[p]
  OBVIOUS
<1>1. p \in {0, 1} /\ f.nextTileRow \in [{0, 1} -> 0 .. TileRows - 1] /\ c \in 0 .. TileRows - 1
  BY <1>p, <1>c DEF Pass, Frames
<1>2. CASE NextRows(t) = {}
  <2>1. NextTileRow(f, t) = f.nextTileRow
    BY <1>2 DEF NextTileRow
  <2> QED
    BY <1>1, <1>2, <2>1
<1>3. CASE NextRows(t) # {}
  <2>n. PICK n \in NextRows(t) : TRUE
    BY <1>3
  <2>1. /\ \A m \in NextRows(t) : m.sby = t.sby + 1
        /\ t.recon # 0 /\ t.sby + 1 \in Rows /\ t.sby \in Rows
    BY <2>n, NextRowIs DEF Tasks
  <2>2. RowStart[c] <= t.sby /\ t.sby < RowStart[c + 1]
    BY <2>1, <1>p, <1>c
  <2>3. /\ RowStart[c] \in Nat /\ RowStart[c + 1] \in Nat /\ TileRows \in Nat \ {0}
        /\ t.sby + 1 < RowStart[TileRows] /\ t.sby \in Nat
    <3>1. /\ RowStart \in [0 .. TileRows -> Nat] /\ TileRows \in Nat \ {0}
          /\ Sbh \in Nat /\ Sbh = RowStart[TileRows]
      BY SetupFacts DEF Sbh
    <3>2. t.sby \in Nat /\ t.sby + 1 < Sbh
      BY <2>1, <3>1 DEF Rows
    <3>3. c + 1 \in 0 .. TileRows /\ c \in 0 .. TileRows
      BY <1>1, <3>1
    <3> QED
      BY <3>1, <3>2, <3>3
  <2>4. CASE t.sby + 1 = RowStart[c + 1]
    <3>1. NextTileRow(f, t) = [f.nextTileRow EXCEPT ![p] = c + 1]
      BY <1>3, <1>p, <1>c, <2>4 DEF NextTileRow
    <3>2. c + 1 \in 0 .. TileRows - 1
      BY <1>1, <2>3, <2>4
    <3>3. RowStart[c + 1] < RowStart[c + 1 + 1]
      BY <3>2, SetupFacts
    <3>4. /\ NextTileRow(f, t)[p] = c + 1 /\ NextTileRow(f, t)[1 - p] = f.nextTileRow[1 - p]
          /\ NextTileRow(f, t) \in [{0, 1} -> 0 .. TileRows - 1]
      BY <1>1, <3>1, <3>2
    <3>5. \A m \in NextRows(t) : RowStart[c + 1] <= m.sby /\ m.sby < RowStart[c + 1 + 1]
      BY <2>1, <2>3, <2>4, <3>3
    <3> QED
      BY <1>p, <2>1, <3>4, <3>5
  <2>5. CASE t.sby + 1 # RowStart[c + 1]
    <3>1. NextTileRow(f, t) = f.nextTileRow
      BY <1>p, <1>c, <2>5 DEF NextTileRow
    <3>2. \A m \in NextRows(t) : RowStart[c] <= m.sby /\ m.sby < RowStart[c + 1]
      BY <2>1, <2>2, <2>3, <2>5
    <3> QED
      BY <1>1, <1>p, <1>c, <2>1, <3>1, <3>2
  <2> QED
    BY <2>4, <2>5
<1> QED
  BY <1>2, <1>3

\* A worker takes a task.
LEMMA FindTaskStep ==
  ASSUME IInv, NEW w \in Workers, FindTask(w)
  PROVE  IInv'
<1>1. at[w] = "search" /\ Goto(w, "start") /\ UNCHANGED <<pics, caller>>
  BY DEF FindTask
<1>s. PICK s \in Slots : \E t \in fc[s].queue :
        /\ fc' = [fc EXCEPT
             ![s].queue = (@ \ {t}) \cup NextRows(t),
             ![s].nextTileRow = NextTileRow(fc[s], t),
             ![s].error = @ \/ SeesError(fc[s], t)]
        /\ task' = [task EXCEPT ![w] = [t EXCEPT !.slot = s]]
  BY DEF FindTask
<1>t. PICK t \in fc[s].queue :
        /\ fc' = [fc EXCEPT
             ![s].queue = (@ \ {t}) \cup NextRows(t),
             ![s].nextTileRow = NextTileRow(fc[s], t),
             ![s].error = @ \/ SeesError(fc[s], t)]
        /\ task' = [task EXCEPT ![w] = [t EXCEPT !.slot = s]]
  BY <1>s
<1>2. /\ fc \in [Slots -> Frames] /\ task \in [Workers -> Tasks] /\ setup \in DOMAIN Setups
      /\ at \in [Workers -> Places]
  BY DEF IInv, TypeOK
<1>3. ~fc[s].finished /\ FrameOK(s)
  BY DEF IInv, Clean
<1>4. TasksOK(s) /\ Apart(s) /\ ChainOK(s) /\ RowsOK(s) /\ fc[s] \in Frames
  BY <1>2, <1>3 DEF FrameOK
<1>5. t \in Tasks /\ t.slot = None /\ TaskOK(t, Filters(s))
  BY <1>4 DEF TasksOK, Frames
<1>6. /\ NextTileRow(fc[s], t) \in [{0, 1} -> 0 .. TileRows - 1]
      /\ NextTileRow(fc[s], t)[1 - Pass(t)] = fc[s].nextTileRow[1 - Pass(t)]
      /\ t.recon = 0 => NextTileRow(fc[s], t) = fc[s].nextTileRow
      /\ \A n \in NextRows(t) : /\ RowStart[NextTileRow(fc[s], t)[Pass(t)]] <= n.sby
                                /\ n.sby < RowStart[NextTileRow(fc[s], t)[Pass(t)] + 1]
  <2>1. t.recon # 0 => /\ RowStart[fc[s].nextTileRow[Pass(t)]] <= t.sby
                       /\ t.sby < RowStart[fc[s].nextTileRow[Pass(t)] + 1]
    BY <1>4 DEF ChainOK
  <2> QED
    BY <1>2, <1>4, <1>5, <2>1, NextTileRowFacts
<1>7. \A n \in NextRows(t) :
        /\ n \in Tasks /\ n.slot = t.slot /\ TaskOK(n, Filters(s)) /\ n.type = t.type
        /\ Pass(n) = Pass(t) /\ n.type \notin InitTypes
  BY <1>2, <1>5, NextRowIs
<1>8. /\ \A u : u \in Units(t) <=> (u \in Own(t) \/ \E n \in NextRows(t) : u \in Units(n))
      /\ \A n \in NextRows(t) : Own(t) \cap Units(n) = {}
      /\ \A n, m \in NextRows(t) : n = m
  BY <1>2, <1>5, NextRowsFacts
<1>k. PICK k : k = [t EXCEPT !.slot = s]
  OBVIOUS
<1>g. PICK g : g = [fc[s] EXCEPT !.queue = (@ \ {t}) \cup NextRows(t),
                                 !.nextTileRow = NextTileRow(fc[s], t),
                                 !.error = @ \/ SeesError(fc[s], t)]
  OBVIOUS
<1>9. /\ k \in Tasks /\ k.slot = s /\ k.type = t.type /\ k.sby = t.sby /\ k.tile = t.tile
      /\ k.recon = t.recon /\ k.deblock = t.deblock
  BY <1>5, <1>k DEF Tasks
<1>10. TaskOK(k, Filters(s)) /\ Pass(k) = Pass(t) /\ (IsTile(k) <=> IsTile(t))
  BY <1>5, <1>9 DEF TaskOK, IsTile, Pass
<1>11. /\ g \in Frames /\ g.queue = (fc[s].queue \ {t}) \cup NextRows(t)
       /\ g.nextTileRow = NextTileRow(fc[s], t) /\ g.pic = fc[s].pic
       /\ g.counter = fc[s].counter /\ g.finished = fc[s].finished
       /\ g.frame = fc[s].frame /\ g.done = fc[s].done
  <2>1. (fc[s].queue \ {t}) \cup NextRows(t) \in SUBSET Tasks
    BY <1>4, <1>7 DEF Frames
  <2>2. (fc[s].error \/ SeesError(fc[s], t)) \in BOOLEAN
    OBVIOUS
  <2> QED
    BY <1>4, <1>6, <1>g, <2>1, <2>2 DEF Frames
<1>12. fc' = [fc EXCEPT ![s] = g] /\ task' = [task EXCEPT ![w] = k]
  BY <1>t, <1>2, <1>g, <1>k
<1>13. at' = [at EXCEPT ![w] = "start"] /\ "start" \in Places
  BY <1>1 DEF Goto, Places
<1>14. /\ fc'[s] = g /\ task'[w] = k /\ at'[w] = "start" /\ pics' = pics /\ setup' = setup
       /\ main' = main /\ last' = last /\ flush' = flush /\ flushes' = flushes
  BY <1>1, <1>2, <1>12, <1>13 DEF caller
<1>15. TypeOK'
  <2>1. fc' \in [Slots -> Frames] /\ task' \in [Workers -> Tasks] /\ at' \in [Workers -> Places]
    BY <1>2, <1>9, <1>11, <1>12, <1>13
  <2> QED
    BY <1>14, <2>1, SameSetup DEF IInv, TypeOK, Number, PicIds
<1>16. Touch(w, s)
  <2>1. \A x \in Slots \ {s} : fc'[x] = fc[x]
    BY <1>2, <1>12
  <2>2. \A v \in Workers \ {w} : at'[v] = at[v] /\ task'[v] = task[v]
    BY <1>2, <1>12, <1>13
  <2> QED
    BY <1>1, <1>9, <1>11, <1>14, <2>1, <2>2 DEF Touch, Number
<1>17. ~Busy(w, s) /\ Busy(w, s)' /\ Mine(w, s) = {}
  BY <1>1, <1>14, <1>16, TouchFacts DEF Mine
<1>18. Mine(w, s)' = Own(t)
  <2>1. AllUnits' = AllUnits
    BY <1>14, SameSetup
  <2> QED
    BY <1>9, <1>10, <1>14, <1>17, <2>1 DEF Mine, Own, Units, InitTypes, IsTile, Pass, RowUnits
<1>19. {t} \subseteq fc[s].queue /\ fc'[s].queue = (fc[s].queue \ {t}) \cup NextRows(t)
  BY <1>11, <1>14
<1>20. Exchange(w, s, NextRows(t), {t}, {})
  <2>1. ASSUME NEW u
        PROVE  (u \in Mine(w, s) \/ \E x \in {t} : u \in Units(x)) <=>
               (u \in {} \/ u \in Mine(w, s)' \/ \E x \in NextRows(t) : u \in Units(x))
    BY <1>8, <1>17, <1>18
  <2> QED
    BY <1>8, <1>18, <1>19, <2>1 DEF Exchange
<1>21. Fits(w, s, NextRows(t), {t})
  <2>1. ASSUME NEW n \in NextRows(t)
        PROVE  /\ RowStart[fc'[s].nextTileRow[Pass(n)]] <= n.sby
               /\ n.sby < RowStart[fc'[s].nextTileRow[Pass(n)] + 1]
    BY <1>6, <1>7, <1>11, <1>14
  <2>2. ASSUME NEW x \in fc[s].queue \ {t}, x.recon # 0
        PROVE  fc'[s].nextTileRow[Pass(x)] = fc[s].nextTileRow[Pass(x)]
    <3>1. CASE t.recon = 0
      BY <3>1, <1>6, <1>11, <1>14
    <3>2. CASE t.recon # 0
      <4>1. x \in Tasks /\ TaskOK(x, Filters(s))
        BY <1>4 DEF TasksOK, Frames
      <4>2. /\ x.type \notin InitTypes /\ ~IsTile(x) /\ x.sby \in Rows
            /\ t.type \notin InitTypes /\ ~IsTile(t) /\ t.sby \in Rows
        BY <1>5, <2>2, <3>2, <4>1 DEF TaskOK, Tasks
      <4>3. /\ Units(x) = RowUnits(Pass(x), x.sby .. Sbh - 1)
            /\ Units(t) = RowUnits(Pass(t), t.sby .. Sbh - 1)
        BY <1>2, <1>5, <2>2, <3>2, <4>1, <4>2, UnitsFacts
      <4>4. Sbh - 1 \in x.sby .. Sbh - 1 /\ Sbh - 1 \in t.sby .. Sbh - 1
        BY <1>2, <4>2, SetupFacts DEF Rows
      <4>5. <<Pass(x), "row", Sbh - 1>> \in Units(x) /\ <<Pass(t), "row", Sbh - 1>> \in Units(t)
        BY <4>3, <4>4 DEF RowUnits
      <4>6. Units(x) \cap Units(t) = {}
        BY <1>4 DEF Apart
      <4>7. Pass(x) # Pass(t)
        BY <4>5, <4>6
      <4>8. Pass(x) = 1 - Pass(t)
        BY <4>7 DEF Pass
      <4> QED
        BY <4>8, <1>6, <1>11, <1>14
    <3> QED
      BY <3>1, <3>2
  <2>3. PlaceOK("start", k.type)
    BY DEF PlaceOK
  <2> QED
    BY <1>5, <1>7, <1>10, <1>14, <2>1, <2>2, <2>3 DEF Fits
<1>22. /\ (fc[s].pic \in 1 .. Number)' /\ TasksOK(s)' /\ Apart(s)' /\ ChainOK(s)'
       /\ ToDo(s)' = ToDo(s) \ {}
  BY <1>3, <1>16, <1>20, <1>21, Turn
<1>23. ASSUME NEW p, NEW r PROVE RowOpen(s, p, r)' <=> RowOpen(s, p, r)
  <2>1. Open(w, s) = {} /\ Open(w, s)' = Own(t)
    BY <1>1, <1>14, <1>17, <1>18 DEF Open
  <2>2. Trades(w, s, NextRows(t), {t}, p, r)
    BY <1>8, <1>19, <2>1 DEF Trades
  <2> QED
    BY <1>16, <2>2, Traded
<1>24. /\ Before(s, 0)' <=> Before(s, 0)
       /\ Before(s, 1)' <=> Before(s, 1)
  <2>1. CASE t.type \in InitTypes
    <3>1. Before(s, 0) /\ Before(s, 1)
      BY <2>1 DEF Before
    <3>2. Before(s, 0)' /\ Before(s, 1)'
      BY <2>1, <1>9, <1>14, <1>17 DEF Before, InitTypes
    <3> QED
      BY <3>1, <3>2
  <2>2. CASE t.type \notin InitTypes
    <3>1. NoStart(w, s, NextRows(t), {t})
      BY <2>2, <1>7, <1>9, <1>14, <1>17, <1>19 DEF NoStart
    <3> QED
      BY <3>1, <1>16, BeforeKept
  <2> QED
    BY <2>1, <2>2
<1>25. Publishing(s)' <=> Publishing(s)
  BY <1>14, <1>16, <1>17, TouchFacts DEF Publishing, Touch
<1>26. RowsOK(s)'
  <2>1. Sbh - 1 \in Rows
    BY <1>2, SetupFacts DEF Rows
  <2>2. fc'[s].frame = fc[s].frame /\ fc'[s].done = fc[s].done
    BY <1>11, <1>14
  <2> QED
    BY <1>4, <1>14, <1>23, <1>24, <1>25, <2>1, <2>2, RowsKept
<1>27. FrameOK(s)'
  BY <1>3, <1>11, <1>14, <1>22, <1>26 DEF FrameOK
<1>28. ~fc'[s].finished /\ Unfinished(s)
  BY <1>3, <1>11, <1>14 DEF Unfinished
<1> QED
  BY <1>15, <1>16, <1>27, <1>28, StepInv

----------------------------------------------------------------------------
(* The steps of the caller *)

\* A frame context that the caller leaves alone.
LEMMA Untouched ==
  ASSUME NEW x \in Slots, setup' = setup, at' = at, task' = task, fc'[x] = fc[x],
         1 .. Number \subseteq 1 .. Number',
         \A n \in 1 .. Number : pics'[n].filters = pics[n].filters
  PROVE  /\ Clean(x) => Clean(x)'
         /\ FrameOK(x) => FrameOK(x)'
<1>1. /\ AllUnits' = AllUnits /\ \A t : Units(t)' = Units(t)
      /\ \A p : PassUnits(p)' = PassUnits(p)
  BY SameSetup DEF PassUnits
<1>2. ASSUME NEW v \in Workers
      PROVE  /\ Busy(v, x)' <=> Busy(v, x)
             /\ Mine(v, x)' = Mine(v, x) /\ Open(v, x)' = Open(v, x)
             /\ Busy(v, x) => at'[v] = at[v] /\ task'[v] = task[v]
  <2>1. Busy(v, x)' <=> Busy(v, x)
    BY DEF Busy, Slot
  <2>2. Mine(v, x)' = Mine(v, x)
    BY <1>1, <2>1 DEF Mine
  <2>3. Open(v, x)' = Open(v, x)
    BY <2>2 DEF Open
  <2> QED
    BY <2>1, <2>2, <2>3
<1>3. fc[x].pic \in 1 .. Number => Filters(x)' = Filters(x)
  BY DEF Filters
<1> QED
  BY <1>2, <1>3, SameFrame

\* The caller does something else.
LEMMA Elsewise ==
  ASSUME IInv, UNCHANGED <<at, task, fc, pics, last, setup>>,
         main' \in {"idle", "wait", "flush"}, flush' \in BOOLEAN,
         flushes' \in 0 .. Setups[setup].flushes,
         ~TwoPass /\ main' # "wait" => \A s \in Slots : fc[s].finished
  PROVE  IInv'
<1>1. Number' = Number /\ Slots' = Slots /\ TwoPass' = TwoPass
  BY SameSetup DEF Number
<1>2. TypeOK'
  BY <1>1, SameSetup DEF IInv, TypeOK, PicIds
<1>3. ASSUME NEW s \in Slots
      PROVE  IF fc'[s].finished THEN Clean(s)' ELSE FrameOK(s)'
  <2>1. /\ 1 .. Number \subseteq 1 .. Number'
        /\ \A n \in 1 .. Number : pics'[n].filters = pics[n].filters
    BY <1>1
  <2>2. /\ Clean(s) => Clean(s)'
        /\ FrameOK(s) => FrameOK(s)'
    BY <2>1, Untouched
  <2> QED
    BY <2>2 DEF IInv
<1>4. \A w \in Workers : at'[w] # "search" => Slot(w)' \in Slots
  BY DEF IInv, Slot
<1>5. \A s, x \in Slots : Unfinished(s)' /\ Unfinished(x)' /\ s # x => fc'[s].pic # fc'[x].pic
  BY DEF IInv, Unfinished
<1>6. last' \in 0 .. Number'
  BY <1>1 DEF IInv
<1>7. ~TwoPass' /\ main' # "wait" => \A s \in Slots : fc'[s].finished
  BY <1>1
<1> QED
  BY <1>1, <1>2, <1>3, <1>4, <1>5, <1>6, <1>7 DEF IInv

\* rav1d_decode_frame waits until its frame is left.
LEMMA WaitedStep ==
  ASSUME IInv, NEW s \in Slots, Waited(s)
  PROVE  IInv'
<1>1. /\ main = "wait" /\ fc[s].counter <= 0 /\ main' = "idle"
      /\ UNCHANGED <<at, task, fc, pics, last, flush, flushes, setup>>
  BY DEF Waited
<1>2. fc[s].finished
  <2> SUFFICES ASSUME ~fc[s].finished PROVE FALSE
    OBVIOUS
  <2>1. FrameOK(s) /\ setup \in DOMAIN Setups /\ task \in [Workers -> Tasks] /\ fc \in [Slots -> Frames]
    BY DEF IInv, TypeOK
  <2>2. IsFiniteSet(ToDo(s))
    BY <2>1, ToDoFacts DEF FrameOK
  <2>3. Cardinality(ToDo(s)) \in Nat /\ Cardinality(ToDo(s)) # 0
    BY <2>1, <2>2, FS_CardinalityType, FS_EmptySet DEF FrameOK
  <2> QED
    BY <2>1, <2>3, <1>1 DEF FrameOK
<1>3. ~TwoPass => \A x \in Slots : fc[x].finished
  <2>1. ASSUME ~TwoPass, NEW x \in Slots PROVE x = s
    <3>1. setup \in DOMAIN Setups
      BY DEF IInv, TypeOK
    <3>2. IsFiniteSet(Slots) /\ Cardinality(Slots) = 1
      BY <2>1, <3>1, SetupAssumption DEF SetupType, TwoPass, Slots
    <3>3. PICK y : Slots = {y}
      BY <3>2, FS_Singleton
    <3> QED
      BY <3>3
  <2> QED
    BY <1>2, <2>1
<1> QED
  BY <1>1, <1>3, Elsewise DEF IInv, TypeOK

\* rav1d_flush begins.
LEMMA FlushStep ==
  ASSUME IInv, Flush
  PROVE  IInv'
<1>1. /\ main = "idle" /\ flushes < Setups[setup].flushes
      /\ main' = "flush" /\ flush' = TRUE /\ flushes' = flushes + 1
      /\ UNCHANGED <<at, task, fc, pics, last, setup>>
  BY DEF Flush
<1>2. flushes \in 0 .. Setups[setup].flushes /\ Setups[setup].flushes \in Nat
  BY SetupFacts DEF IInv, TypeOK
<1>3. flushes' \in 0 .. Setups[setup].flushes
  BY <1>1, <1>2
<1> QED
  BY <1>1, <1>3, Elsewise DEF IInv

\* A new frame begins with all of its work, in a frame context of its own.
LEMMA NewFrame ==
  ASSUME IInv, NEW s \in Slots, fc[s].finished, Number < MaxFrames,
         NEW q \in Pictures, pics' = Append(pics, q),
         NEW g \in Frames, fc' = [fc EXCEPT ![s] = g], ~g.finished, g.pic = Number + 1,
         UNCHANGED <<at, task, flush, flushes, setup>>,
         last' \in 0 .. Number + 1, last' \in PicIds \cup {None}, main' \in {"idle", "wait", "flush"},
         ~TwoPass => main' = "wait",
         g.counter = Cardinality(AllUnits),
         \A t \in g.queue : t.slot = None /\ TaskOK(t, q.filters),
         \A u \in AllUnits : \E t \in g.queue : u \in Units(t),
         \A t, u \in g.queue : t = u \/ Units(t) \cap Units(u) = {},
         \A t \in g.queue : t.recon # 0 => t.sby = 0 /\ g.nextTileRow[Pass(t)] = 0,
         RowsOK(s)'
  PROVE  IInv'
<1>1. /\ fc \in [Slots -> Frames] /\ setup \in DOMAIN Setups /\ pics \in Seq(Pictures)
      /\ Number <= MaxFrames /\ Number \in Nat /\ MaxFrames \in Nat
  BY BoundsAssumption DEF IInv, TypeOK, Number
<1>2. /\ pics' \in Seq(Pictures) /\ Number' = Number + 1 /\ pics'[Number + 1] = q
      /\ \A n \in 1 .. Number : pics'[n] = pics[n]
  BY <1>1 DEF Number
<1>3. Slots' = Slots /\ TwoPass' = TwoPass
  BY SameSetup
<1>4. TypeOK'
  <2>1. fc' \in [Slots -> Frames]
    BY <1>1
  <2> QED
    BY <1>1, <1>2, <2>1, SameSetup DEF IInv, TypeOK, PicIds
<1>5. fc'[s] = g
  BY <1>1
<1>6. \A w \in Workers : ~Busy(w, s)
  BY DEF IInv, Clean
<1>7. \A w \in Workers : ~Busy(w, s)' /\ Mine(w, s)' = {}
  BY <1>6 DEF Busy, Mine, Slot
<1>8. Filters(s)' = q.filters
  BY <1>2, <1>5 DEF Filters
<1>9. AllUnits' = AllUnits /\ \A t : Units(t)' = Units(t)
  BY SameSetup
<1>10. TasksOK(s)'
  <2>1. \A t, filters : TaskOK(t, filters)' <=> TaskOK(t, filters)
    BY SameSetup
  <2> QED
    BY <1>5, <1>7, <1>8, <2>1 DEF TasksOK
<1>11. Apart(s)'
  BY <1>5, <1>7, <1>9 DEF Apart
<1>12. ToDo(s)' = AllUnits
  BY <1>5, <1>9 DEF ToDo
<1>13. (fc[s].counter = Cardinality(ToDo(s)) /\ ToDo(s) # {})'
  <2>1. <<0, "row", 0>> \in AllUnits
    BY <1>1, InUnits, SetupFacts
  <2> QED
    BY <1>5, <1>12, <2>1
<1>14. ChainOK(s)'
  <2>1. RowStart[0] = 0 /\ 0 < RowStart[0 + 1] /\ RowStart' = RowStart
    BY <1>1, SetupFacts, SameSetup
  <2>2. \A t : Pass(t)' = Pass(t)
    BY DEF Pass
  <2> QED
    BY <1>5, <2>1, <2>2 DEF ChainOK
<1>15. FrameOK(s)'
  BY <1>1, <1>2, <1>5, <1>10, <1>11, <1>13, <1>14 DEF FrameOK
<1>16. ASSUME NEW x \in Slots
       PROVE  IF fc'[x].finished THEN Clean(x)' ELSE FrameOK(x)'
  <2>1. CASE x = s
    BY <2>1, <1>5, <1>15
  <2>2. CASE x # s
    <3>1. fc'[x] = fc[x] /\ 1 .. Number \subseteq 1 .. Number'
      BY <2>2, <1>1, <1>2
    <3>2. \A n \in 1 .. Number : pics'[n].filters = pics[n].filters
      BY <1>2
    <3>3. /\ Clean(x) => Clean(x)'
          /\ FrameOK(x) => FrameOK(x)'
      BY <3>1, <3>2, Untouched
    <3> QED
      BY <3>1, <3>3 DEF IInv
  <2> QED
    BY <2>1, <2>2
<1>17. \A w \in Workers : at'[w] # "search" => Slot(w)' \in Slots
  BY DEF IInv, Slot
<1>18. ASSUME NEW x \in Slots, NEW y \in Slots, Unfinished(x)', Unfinished(y)', x # y
       PROVE  fc'[x].pic # fc'[y].pic
  <2>1. \A z \in Slots \ {s} : fc'[z] = fc[z]
    BY <1>1
  <2>2. \A z \in Slots : ~fc[z].finished => fc[z].pic \in 1 .. Number
    BY DEF IInv, FrameOK
  <2>3. \A z \in Slots \ {s} : Unfinished(z)' => fc'[z].pic <= Number /\ fc'[z].pic \in Nat
    BY <1>1, <2>1, <2>2 DEF Unfinished
  <2>4. CASE x = s \/ y = s
    BY <1>1, <1>5, <1>18, <2>3, <2>4
  <2>5. CASE x # s /\ y # s
    BY <1>18, <2>1, <2>5 DEF IInv, Unfinished
  <2> QED
    BY <2>4, <2>5
<1>19. last' \in 0 .. Number'
  BY <1>2
<1> QED
  BY <1>3, <1>4, <1>16, <1>17, <1>18, <1>19 DEF IInv

\* The picture of a new frame has the type of one.
LEMMA NewPicType ==
  ASSUME IInv, Number < MaxFrames, NEW ref \in {None, last},
         NEW kind \in Setups[setup].kinds
  PROVE  NewPic(ref, kind) \in Pictures /\ NewPic(ref, kind).filters = kind.filters
<1>1. /\ setup \in DOMAIN Setups /\ last \in 0 .. Number /\ last \in PicIds \cup {None}
      /\ pics \in [1 .. Number -> Pictures] /\ Number \in Nat
      /\ MaxFrames \in Nat
  BY BoundsAssumption DEF IInv, TypeOK, Number
<1>2. kind.refresh \in BOOLEAN /\ kind.filters \in SUBSET {"deblock", "cdef"}
  BY <1>1, SetupFacts
<1>3. ref \in PicIds \cup {None} /\ (ref # None => ref \in 1 .. Number)
  BY <1>1 DEF None
<1>4. Number + 1 \in PicIds
  BY <1>1 DEF PicIds
<1>5. ref # None => pics[ref].outCdf \in PicIds \cup {None}
  BY <1>1, <1>3 DEF Pictures
<1>c. PICK c : c = IF kind.refresh THEN Number + 1
                   ELSE IF ref = None THEN None ELSE pics[ref].outCdf
  OBVIOUS
<1>6. c \in PicIds \cup {None}
  BY <1>c, <1>4, <1>5
<1>7. [x \in {0, 1} |-> 0] \in Progress
  BY <1>1, SetupFacts DEF Progress, TILE_ERROR
<1>8. NewPic(ref, kind) =
        [ref |-> ref, filters |-> kind.filters, refresh |-> kind.refresh, outCdf |-> c,
         progress |-> [x \in {0, 1} |-> 0], cdf |-> "none",
         status |-> "decoding", damaged |-> FALSE, filtered |-> {}]
  BY <1>c DEF NewPic
<1> QED
  BY <1>2, <1>3, <1>6, <1>7, <1>8 DEF Pictures

\* rav1d_submit_frame.
LEMMA SubmitStep ==
  ASSUME IInv, NEW s \in Slots, Submit(s)
  PROVE  IInv'
<1>1. /\ TwoPass /\ main = "idle" /\ fc[s].finished /\ Number < MaxFrames
      /\ last' = Number + 1
      /\ fc' = [fc EXCEPT ![s] = [Submitted(fc[s]) EXCEPT !.initDone = FALSE,
                                                         !.queue = @ \cup InitTasks]]
      /\ UNCHANGED <<at, task, main, flush, flushes, setup>>
  BY DEF Submit
<1>2. PICK ref \in {None, last}, kind \in Setups[setup].kinds :
        pics' = Append(pics, NewPic(ref, kind))
  BY DEF Submit
<1>3. /\ fc \in [Slots -> Frames] /\ setup \in DOMAIN Setups /\ Number \in Nat /\ MaxFrames \in Nat
      /\ main \in {"idle", "wait", "flush"}
  BY BoundsAssumption DEF IInv, TypeOK, Number
<1>q. PICK q : q = NewPic(ref, kind)
  OBVIOUS
<1>4. q \in Pictures /\ pics' = Append(pics, q)
  BY <1>1, <1>2, <1>q, NewPicType
<1>5. fc[s].queue = {} /\ fc[s] \in Frames
  BY <1>1, <1>3 DEF IInv, Clean
<1>t. PICK t : t = Task("Init", 0, 0)
  OBVIOUS
<1>6. /\ t.type = "Init" /\ t.recon = 0 /\ t.slot = None /\ t.sby = 0 /\ t.tile = 0
  BY <1>t DEF Task
<1>7. t \in Tasks
  BY <1>3, <1>t, SetupFacts DEF Task, Tasks, TaskTypes
<1>8. IsFiniteSet(AllUnits) /\ Cardinality(AllUnits) = TaskCount /\ TaskCount \in Nat
  BY <1>3, AllCount
<1>9. Number + 1 \in PicIds
  BY <1>1, <1>3 DEF PicIds
<1>g. PICK g : g = [Submitted(fc[s]) EXCEPT !.initDone = FALSE, !.queue = @ \cup InitTasks]
  OBVIOUS
<1>10. /\ g \in Frames /\ g.queue = {t} /\ ~g.finished /\ g.pic = Number + 1
       /\ g.counter = TaskCount
  <2>f. PICK f : f = Submitted(fc[s])
    OBVIOUS
  <2>1. /\ f \in Frames /\ f.queue = {} /\ ~f.finished /\ f.pic = Number + 1
        /\ f.counter = TaskCount
    BY <1>5, <1>8, <1>9, <2>f DEF Submitted, Frames
  <2>2. g = [f EXCEPT !.initDone = FALSE, !.queue = {t}]
    BY <1>g, <1>t, <2>1, <2>f DEF InitTasks
  <2> QED
    BY <1>7, <2>1, <2>2 DEF Frames
<1>11. fc' = [fc EXCEPT ![s] = g] /\ fc'[s] = g
  <2>1. fc' = [fc EXCEPT ![s] = [Submitted(fc[s]) EXCEPT !.initDone = FALSE,
                                                       !.queue = @ \cup InitTasks]]
    BY <1>1
  <2>2. fc' = [fc EXCEPT ![s] = g]
    BY <2>1, <1>g
  <2> QED
    BY <2>2, <1>3
<1>12. TaskOK(t, q.filters)
  BY <1>1, <1>6 DEF TaskOK, IsTile
<1>13. Units(t) = AllUnits
  BY <1>6 DEF Units, InitTypes
<1>14. RowsOK(s)'
  <2>1. Before(s, 0)' /\ Before(s, 1)'
    BY <1>6, <1>10, <1>11 DEF Before, InitTypes
  <2> QED
    BY <1>1, <2>1, NoRows
<1>15. last' \in 0 .. Number + 1 /\ last' \in PicIds \cup {None} /\ main' \in {"idle", "wait", "flush"}
  BY <1>1, <1>3, <1>9
<1> QED
  BY <1>1, <1>4, <1>6, <1>8, <1>10, <1>11, <1>12, <1>13, <1>14, <1>15, NewFrame

\* rav1d_decode_frame creates the tasks of its only pass at once.
LEMMA SubmitSingleStep ==
  ASSUME IInv, NEW s \in Slots, SubmitSingle(s)
  PROVE  IInv'
<1>1. /\ ~TwoPass /\ main = "idle" /\ Number < MaxFrames /\ main' = "wait"
      /\ UNCHANGED <<at, task, last, flush, flushes, setup>>
  BY DEF SubmitSingle
<1>2. PICK kind \in Setups[setup].kinds :
        /\ pics' = Append(pics, NewPic(None, kind))
        /\ fc' = [fc EXCEPT ![s] = Created(SetUp(Submitted(@)), 0, kind.filters)]
  BY DEF SubmitSingle
<1>3. /\ fc \in [Slots -> Frames] /\ setup \in DOMAIN Setups /\ Number \in Nat /\ MaxFrames \in Nat
      /\ last \in 0 .. Number /\ last \in PicIds \cup {None}
  BY BoundsAssumption DEF IInv, TypeOK, Number
<1>q. PICK q : q = NewPic(None, kind)
  OBVIOUS
<1>4. q \in Pictures /\ q.filters = kind.filters /\ pics' = Append(pics, q)
  BY <1>1, <1>2, <1>q, NewPicType
<1>5. fc[s].finished /\ fc[s].queue = {} /\ fc[s] \in Frames
  BY <1>1, <1>3 DEF IInv, Clean
<1>6. q.filters \in SUBSET {"deblock", "cdef"}
  BY <1>4 DEF Pictures
<1>7. IsFiniteSet(AllUnits) /\ Cardinality(AllUnits) = TaskCount /\ TaskCount \in Nat
  BY <1>3, AllCount
<1>8. Number + 1 \in PicIds
  BY <1>1, <1>3 DEF PicIds
<1>f. PICK f : f = Submitted(fc[s])
  OBVIOUS
<1>9. /\ f \in Frames /\ f.queue = {} /\ ~f.finished /\ f.pic = Number + 1
      /\ f.counter = TaskCount
  BY <1>5, <1>7, <1>8, <1>f DEF Submitted, Frames
<1>h. PICK h : h = SetUp(f)
  OBVIOUS
<1>10. h \in Frames /\ Like(f, h)
  BY <1>3, <1>9, <1>h, SetUpFacts
<1>In. PICK In : In = PassTasks(0, q.filters)
  OBVIOUS
<1>g. PICK g : g = Created(h, 0, q.filters)
  OBVIOUS
<1>11. /\ g \in Frames /\ g.queue = In /\ ~g.finished /\ g.pic = Number + 1
       /\ g.counter = TaskCount /\ g.nextTileRow[0] = 0 /\ g.frame = {}
  <2>1. /\ g \in Frames /\ g.queue = h.queue \cup In /\ g.pic = h.pic
        /\ g.counter = h.counter /\ g.finished = h.finished
        /\ g.nextTileRow = [h.nextTileRow EXCEPT ![0] = 0]
        /\ g.done = [h.done EXCEPT ![0] = FALSE] /\ g.frame = {}
    <3>1. PassTasks(0, q.filters) \subseteq Tasks
      BY <1>3, <1>6, PassTasksFacts
    <3> QED
      BY <1>3, <1>10, <1>g, <1>In, <3>1, CreatedFacts
  <2>2. h.nextTileRow \in [{0, 1} -> 0 .. TileRows - 1]
    BY <1>10 DEF Frames
  <2> QED
    BY <1>9, <1>10, <2>1, <2>2 DEF Like
<1>12. fc' = [fc EXCEPT ![s] = g] /\ fc'[s] = g
  BY <1>2, <1>3, <1>4, <1>f, <1>g, <1>h
<1>13. /\ \A t \in In : t \in Tasks /\ t.slot = None /\ TaskOK(t, q.filters) /\ Pass(t) = 0
                         /\ t.type \notin InitTypes /\ (t.recon # 0 => t.sby = 0)
       /\ \A u : (\E t \in In : u \in Units(t)) <=> u \in PassUnits(0)
       /\ \A t, u \in In : t = u \/ Units(t) \cap Units(u) = {}
  BY <1>3, <1>6, <1>In, PassTasksFacts
<1>14. AllUnits = PassUnits(0)
  BY <1>1, <1>3, InUnits
<1>15. RowsOK(s)'
  <2>1. \A r \in Rows : RowOpen(s, 0, r)'
    BY <1>1, <1>3, <1>6, <1>11, <1>12, <1>In, PassOpen
  <2>2. Rows' = Rows /\ Sbh' = Sbh /\ ~TwoPass' /\ 0 \in Rows
    BY <1>1, <1>3, SameSetup, SetupFacts
  <2> QED
    BY <1>11, <1>12, <2>1, <2>2 DEF RowsOK
<1>16. /\ g.counter = Cardinality(AllUnits)
       /\ \A t \in g.queue : t.slot = None /\ TaskOK(t, q.filters)
       /\ \A u \in AllUnits : \E t \in g.queue : u \in Units(t)
       /\ \A t, u \in g.queue : t = u \/ Units(t) \cap Units(u) = {}
       /\ \A t \in g.queue : t.recon # 0 => t.sby = 0 /\ g.nextTileRow[Pass(t)] = 0
  BY <1>7, <1>11, <1>13, <1>14
<1>17. last' \in 0 .. Number + 1 /\ last' \in PicIds \cup {None} /\ main' \in {"idle", "wait", "flush"}
  BY <1>1, <1>3
<1> QED
  BY <1>1, <1>4, <1>5, <1>11, <1>12, <1>15, <1>16, <1>17, NewFrame

\* rav1d_flush leaves all frames, with nothing behind.
LEMMA FlushAllStep ==
  ASSUME IInv, FlushAll
  PROVE  IInv'
<1>1. /\ Parked /\ fc' = [x \in Slots |-> Flushed(fc[x])]
      /\ main' = "idle" /\ flush' = FALSE /\ last' = None
      /\ UNCHANGED <<at, task, flushes, setup>>
      /\ pics' = [n \in 1 .. Number |->
           IF \E s \in Slots : ~fc[s].finished /\ fc[s].pic = n
           THEN LeftPic(NoFrame, pics[n], TRUE) ELSE pics[n]]
  BY DEF FlushAll
<1>2. /\ fc \in [Slots -> Frames] /\ setup \in DOMAIN Setups /\ pics \in [1 .. Number -> Pictures]
      /\ Number \in Nat /\ Number <= MaxFrames
  BY DEF IInv, TypeOK, Number
<1>3. ASSUME NEW x \in Slots
      PROVE  Flushed(fc[x]) \in Frames /\ Flushed(fc[x]).finished /\ Flushed(fc[x]).queue = {}
  <2>f. PICK f : f = IF fc[x].finished THEN fc[x] ELSE Left(fc[x], TRUE)
    OBVIOUS
  <2>1. f \in Frames /\ f.finished
    BY <1>2, <2>f, LeftTypes
  <2>2. Flushed(fc[x]) = [f EXCEPT !.queue = {}]
    BY <2>f DEF Flushed
  <2> QED
    BY <2>1, <2>2 DEF Frames
<1>4. \A n \in 1 .. Number : LeftPic(NoFrame, pics[n], TRUE) \in Pictures
  BY <1>2, LeftPicTypes
<1>5. pics' \in [1 .. Number -> Pictures]
  BY <1>1, <1>2, <1>4
<1>6. pics' \in Seq(Pictures) /\ Number' = Number
  BY <1>2, <1>5 DEF Number
<1>7. Slots' = Slots
  BY <1>1, SameSetup
<1>8. TypeOK'
  <2>1. fc' \in [Slots -> Frames]
    BY <1>1, <1>3
  <2> QED
    BY <1>1, <1>2, <1>6, <2>1, SameSetup DEF IInv, TypeOK, PicIds
<1>9. \A w \in Workers : at'[w] = "search"
  BY <1>1 DEF Parked
<1>10. \A x \in Slots : fc'[x].finished /\ Clean(x)'
  BY <1>1, <1>3, <1>9 DEF Clean, Busy
<1>11. last' \in 0 .. Number'
  BY <1>1, <1>2, <1>6 DEF None
<1> QED
  BY <1>7, <1>8, <1>9, <1>10, <1>11 DEF IInv, Unfinished

----------------------------------------------------------------------------
(* The theorems *)

\* No frame is in flight at first.
LEMMA InitInv ==
  ASSUME Init
  PROVE  IInv
<1>1. /\ setup \in DOMAIN Setups /\ at = [w \in Workers |-> "search"]
      /\ task = [w \in Workers |-> Task("Init", 0, 0)] /\ fc = [s \in Slots |-> NoFrame]
      /\ pics = <<>> /\ last = None /\ main = "idle" /\ flush = FALSE /\ flushes = 0
  BY DEF Init
<1>2. Task("Init", 0, 0) \in Tasks
  BY <1>1, SetupFacts DEF Task, Tasks, TaskTypes
<1>3. NoFrame \in Frames /\ NoFrame.finished /\ NoFrame.queue = {}
  <2>1. 0 \in 0 .. TILE_ERROR /\ 0 \in 0 .. TileRows - 1
    BY <1>1, SetupFacts DEF TILE_ERROR
  <2> QED
    BY <2>1 DEF NoFrame, Frames
<1>4. TypeOK
  <2>1. Number = 0 /\ pics \in Seq(Pictures)
    BY <1>1 DEF Number
  <2> QED
    <3>1. at \in [Workers -> Places] /\ task \in [Workers -> Tasks] /\ fc \in [Slots -> Frames]
      BY <1>1, <1>2, <1>3 DEF Places
    <3>2. 0 <= MaxFrames /\ flushes \in 0 .. Setups[setup].flushes
      BY <1>1, SetupFacts, BoundsAssumption
    <3>3. last \in PicIds \cup {None} /\ main \in {"idle", "wait", "flush"} /\ flush \in BOOLEAN
      BY <1>1
    <3> QED
      BY <1>1, <2>1, <3>1, <3>2, <3>3 DEF TypeOK
<1>5. \A s \in Slots : fc[s].finished /\ Clean(s)
  BY <1>1, <1>3 DEF Clean, Busy
<1>6. last \in 0 .. Number
  BY <1>1 DEF Number, None
<1> QED
  BY <1>1, <1>4, <1>5, <1>6 DEF IInv, Unfinished

\* What a worker does keeps the invariant.
LEMMA RunInv ==
  ASSUME IInv, NEW w \in Workers, FindTask(w) \/ Run(w)
  PROVE  IInv'
BY FindTaskStep, StartStep, InitFrameStep, InitFrameCdfStep, CreateSecondStep,
   NextTileTaskStep, EndTileStep, DeblockColsStep, DeblockRowsStep, FinishRowStep,
   PublishRowsStep, EntropyProgressStep, EndRowStep DEF Run

\* Every step keeps it.
LEMMA NextInv ==
  ASSUME IInv, [Next]_vars
  PROVE  IInv'
<1>1. CASE \E s \in Slots : Submit(s) \/ SubmitSingle(s) \/ Waited(s)
  BY <1>1, SubmitStep, SubmitSingleStep, WaitedStep
<1>2. CASE Flush \/ FlushAll
  BY <1>2, FlushStep, FlushAllStep
<1>3. CASE \E w \in Workers : FindTask(w) \/ Run(w)
  BY <1>3, RunInv
<1>4. CASE UNCHANGED vars
  BY <1>4, Elsewise DEF vars, caller, IInv, TypeOK
<1> QED
  BY <1>1, <1>2, <1>3, <1>4 DEF Next

\* The invariant holds, whatever the workers, frames, tiles, rows, filters and
\* errors are.
THEOREM Invariance == Spec => []IInv
<1>1. Init => IInv
  BY InitInv
<1>2. IInv /\ [Next]_vars => IInv'
  BY NextInv
<1> QED
  BY <1>1, <1>2, PTL DEF Spec

\* The counters, rows and queues of the frame contexts have their types: no
\* counter becomes negative, and next_tile_row stays within the frame.
THEOREM TypeCorrect == Spec => []TypeOK
<1>1. IInv => TypeOK
  BY DEF IInv
<1> QED
  BY <1>1, Invariance, PTL

\* task_counter is what is left to do, and no tile or row is left to do twice.
THEOREM CounterCorrect == Spec => []CounterExact
<1>1. IInv => CounterExact
  BY DEF IInv, FrameOK, Apart, CounterExact
<1> QED
  BY <1>1, Invariance, PTL

\* A frame that is left has no task in the queue and no worker in it.
THEOREM LeftBehind == Spec => []LeftClean
<1>1. IInv => LeftClean
  BY DEF IInv, Clean, LeftClean
<1> QED
  BY <1>1, Invariance, PTL

\* The worker that starts a frame is alone in it.
THEOREM StartsAlone == Spec => []InitAlone
<1>1. ASSUME IInv, NEW w \in Workers, at[w] \in {"Init", "InitCdf"}
      PROVE  Frame(w).queue = {} /\ \A v \in Workers \ {w} : ~Busy(v, Slot(w))
  <2>s. PICK s : s = Slot(w)
    OBVIOUS
  <2>1. fc[s].queue = {} /\ \A v \in Workers \ {w} : ~Busy(v, s)
    BY <1>1, <2>s, StartMine
  <2> QED
    BY <2>1, <2>s DEF Frame
<1>2. IInv => InitAlone
  BY <1>1 DEF InitAlone
<1> QED
  BY <1>2, Invariance, PTL
=============================================================================
