------------------------- MODULE FrameTasksRowsProof -------------------------
(***************************************************************************)
(* Proofs about FrameTasks: rows, and what other frames see of them.  A    *)
(* row is filtered behind its tiles and behind the row above, a pass is    *)
(* left with its rows counted, and what is published of a picture is there *)
(* and is not taken back.  A row reads only rows of its reference that are *)
(* there, and a frame that ends without an error is complete.              *)
(***************************************************************************)
EXTENDS FrameTasksProof

IsRow(t) == t.type \notin InitTypes /\ ~IsTile(t)

\* The progress of a tile is where its task is, or an error.
AtRow(f, t) == f.tileProgress[Pass(t)][t.tile] \in {t.sby, TILE_ERROR}

TileOK(s) ==
  /\ \A t \in fc[s].queue : IsTile(t) => AtRow(fc[s], t)
  /\ \A w \in Workers : Busy(w, s) =>
       /\ IsTile(task[w]) => AtRow(fc[s], task[w])
       /\ at[w] = "tileDone" => fc[s].tileProgress[Pass(task[w])][task[w].tile] = task[w].sby
       /\ at[w] = "tileFailed" => fc[s].error
       /\ at[w] = "create" => \A i \in Tiles : fc[s].tileProgress[0][i] = RowStart[TileRow(i)]
  /\ ~Before(s, 1) => \A p \in {0, 1} : \A i \in Tiles :
       fc[s].tileProgress[p][i] # TILE_ERROR \/ fc[s].error

\* The tiles that hold row r are past it in pass p.
TilesPast(f, p, r) ==
  \A i \in Tiles : RowStart[TileRow(i)] <= r /\ r < RowStart[TileRow(i) + 1] =>
    f.tileProgress[p][i] > r

\* They are for a row that is not in its chain any more.
PastOK(s) ==
  /\ \A t \in fc[s].queue : IsRow(t) /\ t.recon = 0 => TilesPast(fc[s], Pass(t), t.sby)
  /\ \A w \in Workers : Busy(w, s) /\ IsRow(task[w]) =>
       TilesPast(fc[s], Pass(task[w]), task[w].sby)
  /\ ~Before(s, 0) => \A r \in fc[s].frame : TilesPast(fc[s], 0, r)

\* A row is deblocked after the ones above: f.deblock is not past a row that
\* is queued, and copyLpf holds the one that waits for CDEF.
RowQueued(f, filters, t) ==
  /\ "deblock" \in filters /\ ~f.error => f.deblock <= t.sby
  /\ t.type = "Cdef" => t.sby \in f.copyLpf

TopsSaved(f, r) == {r - 1, r} \cap Rows \subseteq f.copyLpf

\* ... and for a worker at l.
RowAt(f, filters, l, t) ==
  /\ "deblock" \in filters /\ ~f.error =>
       /\ l \in {"start", "DeblockCols", "DeblockRows"} => f.deblock <= t.sby
       /\ l = "DeblockRows" \/ (l = "start" /\ t.type = "DeblockRows") => f.deblock >= t.sby
       /\ l = "Cdef" => f.deblock > t.sby
  /\ "deblock" \notin filters /\ (l = "Cdef" \/ (l = "start" /\ t.type = "Cdef")) =>
       TopsSaved(f, t.sby)

FiltOK(s) ==
  /\ \A t \in fc[s].queue : IsRow(t) /\ Pass(t) = 0 => RowQueued(fc[s], Filters(s), t)
  /\ \A w \in Workers : Busy(w, s) /\ IsRow(task[w]) /\ Pass(task[w]) = 0 =>
       RowAt(fc[s], Filters(s), at[w], task[w])

\* The rows of a picture are the rows of its frame, once its second pass is
\* created, and all of them when that is done without an error.
PicOK(s) ==
  LET p == pics[fc[s].pic]
  IN /\ Before(s, 0) => p.progress[1] = 0 /\ p.filtered = {}
     /\ ~Before(s, 0) =>
          /\ fc[s].frame = p.filtered
          /\ fc[s].done[0] /\ ~fc[s].error =>
               Rows \subseteq fc[s].frame /\ (TwoPass => p.progress[1] = AllRows)
     /\ p.progress[1] = FRAME_ERROR => fc[s].error

SliceOK(s) == TileOK(s) /\ PastOK(s) /\ FiltOK(s) /\ PicOK(s)

\* What is shown of picture n is there.
Honest(n) ==
  LET k == pics[n].progress[1]
  IN k # FRAME_ERROR =>
       0 .. (IF k = AllRows THEN Sbh ELSE k) - 1 \subseteq pics[n].filtered

RInv ==
  /\ IInv
  /\ \A s \in Slots : Unfinished(s) => SliceOK(s)
  /\ \A n \in 1 .. Number : Honest(n)

----------------------------------------------------------------------------
(* What a step leaves as it is *)

\* A frame context that no step is in.
LEMMA SliceSame ==
  ASSUME NEW x \in Slots, setup' = setup, fc'[x] = fc[x],
         pics'[fc[x].pic] = pics[fc[x].pic],
         \A v \in Workers : /\ Busy(v, x)' <=> Busy(v, x)
                            /\ Busy(v, x) => at'[v] = at[v] /\ task'[v] = task[v],
         SliceOK(x)
  PROVE  SliceOK(x)'
<1>1. /\ Rows' = Rows /\ Tiles' = Tiles /\ TILE_ERROR' = TILE_ERROR /\ TwoPass' = TwoPass
      /\ FRAME_ERROR' = FRAME_ERROR /\ AllRows' = AllRows
  BY SameSetup
<1>2. RowStart' = RowStart /\ TileCols' = TileCols
  BY SameSetup
<1>3. \A i : TileRow(i)' = TileRow(i)
  BY <1>2 DEF TileRow
<1>4. Filters(x)' = Filters(x)
  BY DEF Filters
<1>5. \A p : Before(x, p)' <=> Before(x, p)
  <2>1. ASSUME NEW p, NEW v \in Workers
        PROVE  (Busy(v, x) /\ task[v].type \in InitTypes /\ (p = 1 => at[v] # "create"))'
               <=> Busy(v, x) /\ task[v].type \in InitTypes /\ (p = 1 => at[v] # "create")
    BY DEF InitTypes
  <2> QED
    BY <2>1 DEF Before, InitTypes
<1>6. TileOK(x)'
  <2>1. TileOK(x)
    BY DEF SliceOK
  <2>2. \A t : AtRow(fc[x], t)' <=> AtRow(fc[x], t)
    BY <1>1 DEF AtRow, Pass
  <2> QED
    BY <2>1, <2>2, <1>1, <1>2, <1>3, <1>5 DEF TileOK, IsTile, Pass
<1>7. PastOK(x)'
  <2>1. PastOK(x)
    BY DEF SliceOK
  <2>2. \A p, r : TilesPast(fc[x], p, r)' <=> TilesPast(fc[x], p, r)
    BY <1>1, <1>2, <1>3 DEF TilesPast
  <2> QED
    BY <2>1, <2>2, <1>5 DEF PastOK, IsTile, Pass, IsRow, InitTypes
<1>8. FiltOK(x)'
  <2>1. FiltOK(x)
    BY DEF SliceOK
  <2>2. \A t : RowQueued(fc[x], Filters(x), t)' <=> RowQueued(fc[x], Filters(x), t)
    BY <1>4 DEF RowQueued
  <2>3. ASSUME NEW v \in Workers, Busy(v, x)
        PROVE  RowAt(fc[x], Filters(x), at[v], task[v])' <=> RowAt(fc[x], Filters(x), at[v], task[v])
    BY <1>1, <1>4, <2>3 DEF RowAt, TopsSaved
  <2> QED
    BY <2>1, <2>2, <2>3 DEF FiltOK, IsTile, Pass, IsRow, InitTypes
<1>9. PicOK(x)'
  <2>1. PicOK(x)
    BY DEF SliceOK
  <2> QED
    BY <2>1, <1>1, <1>5 DEF PicOK
<1> QED
  BY <1>6, <1>7, <1>8, <1>9 DEF SliceOK

\* An error stays until the frame is left.
Keeps(f, g) == g.finished \/ (f.error => g.error)

\* A step of worker w in the frame in s, which may leave it.
Acts(w, s) ==
  /\ Touch(w, s) /\ Unfinished(s)
  /\ \A n \in 1 .. Number : n # fc[s].pic => pics'[n] = pics[n]
  /\ Keeps(fc[s], fc'[s])

\* Only its own frame has to be looked at.
LEMMA SliceStep ==
  ASSUME RInv, IInv', NEW s \in Slots, NEW w \in Workers, Acts(w, s),
         fc'[s].finished \/ SliceOK(s)', Honest(fc[s].pic)'
  PROVE  RInv'
<1>1. Touch(w, s) /\ Unfinished(s) /\ setup' = setup /\ Slots' = Slots /\ Number' = Number
  BY SameSetup DEF Acts, Touch
<1>2. ASSUME NEW x \in Slots, x # s, Unfinished(x)'
      PROVE  SliceOK(x)'
  <2>1. fc'[x] = fc[x] /\ Unfinished(x)
    BY <1>1, <1>2 DEF Touch, Unfinished
  <2>2. SliceOK(x)
    BY <2>1 DEF RInv
  <2>3. fc[x].pic # fc[s].pic /\ fc[x].pic \in 1 .. Number
    BY <1>1, <1>2, <2>1 DEF RInv, IInv, FrameOK, Unfinished
  <2>4. pics'[fc[x].pic] = pics[fc[x].pic]
    BY <2>3 DEF Acts
  <2>5. ASSUME NEW v \in Workers
        PROVE  /\ Busy(v, x)' <=> Busy(v, x)
               /\ Busy(v, x) => at'[v] = at[v] /\ task'[v] = task[v]
    <3>1. CASE v = w
      BY <1>1, <1>2, <3>1, TouchFacts
    <3>2. CASE v # w
      BY <1>1, <3>2, TouchFacts DEF Touch
    <3> QED
      BY <3>1, <3>2
  <2> QED
    BY <1>1, <2>1, <2>2, <2>4, <2>5, SliceSame
<1>3. ASSUME NEW n \in 1 .. Number
      PROVE  Honest(n)'
  <2>1. CASE n = fc[s].pic
    BY <2>1, <1>3, <1>1 DEF Touch
  <2>2. CASE n # fc[s].pic
    <3>1. pics'[n] = pics[n] /\ Honest(n)
      BY <1>3, <2>2 DEF Acts, RInv
    <3> QED
      BY <3>1, <1>1, SameSetup DEF Honest
  <2> QED
    BY <2>1, <2>2
<1>4. Unfinished(s)' => SliceOK(s)'
  BY DEF Unfinished
<1> QED
  BY <1>1, <1>2, <1>3, <1>4 DEF RInv

\* A tile or a row is only held when its pass is created.
LEMMA HolderBegun ==
  ASSUME IInv, NEW s \in Slots, Unfinished(s)
  PROVE  /\ \A t \in fc[s].queue : t.type \notin InitTypes => ~Before(s, Pass(t))
         /\ \A w \in Workers : Busy(w, s) /\ task[w].type \notin InitTypes =>
              ~Before(s, Pass(task[w]))
<1>1. /\ setup \in DOMAIN Setups /\ fc \in [Slots -> Frames] /\ task \in [Workers -> Tasks]
      /\ TasksOK(s) /\ Apart(s)
  BY DEF IInv, TypeOK, Unfinished, FrameOK
<1>2. \A t \in fc[s].queue : t \in Tasks /\ TaskOK(t, Filters(s))
  BY <1>1 DEF TasksOK, Frames
<1>3. ASSUME NEW U, NEW p \in {0, 1}, U # {}, U \subseteq AllUnits, U \subseteq PassUnits(p),
             \A t \in fc[s].queue : t.type \in InitTypes => U \cap Units(t) = {},
             \A v \in Workers : Busy(v, s) /\ task[v].type \in InitTypes => U \cap Mine(v, s) = {}
      PROVE  ~Before(s, p)
  <2>1. ASSUME NEW t \in fc[s].queue, t.type \in InitTypes PROVE FALSE
    BY <1>3, <2>1 DEF Units
  <2>2. ASSUME NEW v \in Workers, Busy(v, s), task[v].type \in InitTypes,
               p = 1 => at[v] # "create"
        PROVE  FALSE
    <3>1. Mine(v, s) = IF at[v] = "create" THEN PassUnits(0) ELSE AllUnits
      BY <1>1, <2>2, MineFacts
    <3>2. at[v] = "create" => p = 0
      BY <2>2
    <3> QED
      BY <1>3, <2>2, <3>1, <3>2
  <2> QED
    BY <2>1, <2>2 DEF Before
<1>4. ASSUME NEW t \in fc[s].queue, t.type \notin InitTypes PROVE ~Before(s, Pass(t))
  <2>1. Units(t) \subseteq AllUnits /\ Units(t) # {} /\ Pass(t) \in {0, 1}
    BY <1>1, <1>2, UnitsFacts DEF Pass
  <2>2. Units(t) \subseteq PassUnits(Pass(t))
    <3>1. CASE IsTile(t)
      <4>1. Units(t) = {<<Pass(t), "tile", t.tile>>}
        BY <3>1 DEF Units, IsTile, InitTypes
      <4>2. t.tile \in Tiles
        BY <1>2 DEF Tasks
      <4> QED
        BY <4>1, <4>2 DEF PassUnits
    <3>2. CASE ~IsTile(t)
      <4>1. \A u \in Units(t) : \E r : u = <<Pass(t), "row", r>>
        BY <3>2, <1>4 DEF Units, RowUnits
      <4>2. \A u \in Units(t) : u \in PassUnits(Pass(t))
        BY <4>1, <2>1, <1>1, InUnits DEF PassUnits
      <4> QED
        BY <4>2
    <3> QED
      BY <3>1, <3>2
  <2>3. \A q \in fc[s].queue : q.type \in InitTypes => Units(t) \cap Units(q) = {}
    BY <1>1, <1>4 DEF Apart
  <2>4. \A v \in Workers : Units(t) \cap Mine(v, s) = {}
    BY <1>1 DEF Apart
  <2> QED
    BY <2>1, <2>2, <2>3, <2>4, <1>3
<1>5. ASSUME NEW w \in Workers, Busy(w, s), task[w].type \notin InitTypes
      PROVE  ~Before(s, Pass(task[w]))
  <2> DEFINE t == task[w]
  <2>1. Mine(w, s) \subseteq AllUnits /\ Mine(w, s) # {} /\ Pass(t) \in {0, 1}
    BY <1>1, <1>5, MineFacts DEF Pass
  <2>2. Mine(w, s) \subseteq PassUnits(Pass(t))
    <3>1. t \in Tasks
      BY <1>1
    <3>2. Mine(w, s) = {<<Pass(t), "tile", t.tile>>} \/ Mine(w, s) = {<<Pass(t), "row", t.sby>>}
      BY <1>1, <1>5, MineFacts
    <3> QED
      BY <3>1, <3>2 DEF PassUnits, Tasks
  <2>3. \A q \in fc[s].queue : Mine(w, s) \cap Units(q) = {}
    BY <1>1 DEF Apart
  <2>4. \A v \in Workers : task[v].type \in InitTypes => Mine(w, s) \cap Mine(v, s) = {}
    BY <1>1, <1>5 DEF Apart
  <2> QED
    BY <2>1, <2>2, <2>3, <2>4, <1>3
<1> QED
  BY <1>4, <1>5

\* The tiles, when no progress is made.
LEMMA TilesKept ==
  ASSUME IInv, IInv', NEW s \in Slots, NEW w \in Workers, Acts(w, s), ~fc'[s].finished,
         TileOK(s), fc'[s].tileProgress = fc[s].tileProgress,
         \A t \in fc'[s].queue : IsTile(t) => t \in fc[s].queue \/ AtRow(fc[s], t),
         Busy(w, s)' =>
           /\ IsTile(task'[w]) => AtRow(fc[s], task'[w])
           /\ at'[w] = "tileDone" =>
                fc[s].tileProgress[Pass(task'[w])][task'[w].tile] = task'[w].sby
           /\ at'[w] = "tileFailed" => fc'[s].error
           /\ at'[w] # "create",
         Before(s, 1) => Before(s, 1)'
  PROVE  TileOK(s)'
<1>1. /\ Touch(w, s) /\ setup' = setup /\ Tiles' = Tiles /\ TILE_ERROR' = TILE_ERROR
      /\ RowStart' = RowStart /\ TileCols' = TileCols
  BY SameSetup DEF Acts, Touch
<1>2. \A i : TileRow(i)' = TileRow(i)
  BY <1>1 DEF TileRow
<1>3. \A t : AtRow(fc[s], t)' <=> AtRow(fc[s], t)
  BY <1>1 DEF AtRow, Pass
<1>4. \A t : IsTile(t)' <=> IsTile(t)
  BY DEF IsTile
<1>5. ASSUME NEW t \in fc'[s].queue, IsTile(t) PROVE AtRow(fc[s], t)'
  BY <1>3, <1>5 DEF TileOK
<1>6. ASSUME NEW v \in Workers, Busy(v, s)'
      PROVE  /\ IsTile(task'[v]) => AtRow(fc[s], task[v])'
             /\ at'[v] = "tileDone" =>
                  fc'[s].tileProgress[Pass(task'[v])][task'[v].tile] = task'[v].sby
             /\ at'[v] = "tileFailed" => fc'[s].error
             /\ at'[v] = "create" => \A i \in Tiles : fc'[s].tileProgress[0][i] = RowStart[TileRow(i)]
  <2>1. CASE v = w
    BY <2>1, <1>3, <1>6
  <2>2. CASE v # w
    <3>1. Busy(v, s) /\ at'[v] = at[v] /\ task'[v] = task[v]
      BY <2>2, <1>1, <1>6, TouchFacts DEF Touch
    <3> QED
      BY <3>1, <1>3 DEF TileOK, Acts, Keeps
  <2> QED
    BY <2>1, <2>2
<1>7. ~Before(s, 1)' => \A p \in {0, 1} : \A i \in Tiles :
        fc'[s].tileProgress[p][i] # TILE_ERROR \/ fc'[s].error
  BY DEF TileOK, Acts, Keeps
<1> QED
  BY <1>1, <1>2, <1>4, <1>5, <1>6, <1>7 DEF TileOK, Pass

\* The progress of the tiles does not go back.
Grows(s) ==
  \A p \in {0, 1} : \A i \in Tiles : fc'[s].tileProgress[p][i] >= fc[s].tileProgress[p][i]

\* The tiles behind a row.
LEMMA PastKept ==
  ASSUME IInv, IInv', NEW s \in Slots, NEW w \in Workers, Acts(w, s), ~fc'[s].finished,
         PastOK(s), Grows(s),
         \A t \in fc'[s].queue : IsRow(t) /\ t.recon = 0 =>
           t \in fc[s].queue \/ TilesPast(fc[s], Pass(t), t.sby),
         Busy(w, s)' /\ IsRow(task'[w]) => TilesPast(fc[s], Pass(task'[w]), task'[w].sby),
         ~Before(s, 0)' =>
           \A r \in fc'[s].frame : TilesPast(fc[s], 0, r) \/ (r \in fc[s].frame /\ ~Before(s, 0))
  PROVE  PastOK(s)'
<1>1. /\ Touch(w, s) /\ setup' = setup /\ Tiles' = Tiles /\ RowStart' = RowStart /\ TileCols' = TileCols
      /\ Rows' = Rows
  BY SameSetup DEF Acts, Touch
<1>2. \A i : TileRow(i)' = TileRow(i)
  BY <1>1 DEF TileRow
<1>3. setup \in DOMAIN Setups /\ fc[s] \in Frames /\ fc'[s] \in Frames
  <2>1. fc' \in [Slots -> Frames]
    BY <1>1, SameSetup DEF IInv, TypeOK
  <2> QED
    BY <2>1 DEF IInv, TypeOK
<1>4. ASSUME NEW p \in {0, 1}, NEW r \in Rows, TilesPast(fc[s], p, r)
      PROVE  TilesPast(fc[s], p, r)'
  <2>1. ASSUME NEW i \in Tiles, fc[s].tileProgress[p][i] > r
        PROVE  fc'[s].tileProgress[p][i] > r
    <3>1. fc[s].tileProgress[p][i] \in Nat /\ fc'[s].tileProgress[p][i] \in Nat /\ r \in Nat
      <4>1. Sbh \in Nat /\ TILE_ERROR \in Nat /\ 0 .. TILE_ERROR \subseteq Nat
        BY <1>3, SetupFacts DEF TILE_ERROR
      <4>2. /\ fc[s].tileProgress \in [{0, 1} -> [Tiles -> 0 .. TILE_ERROR]]
            /\ fc'[s].tileProgress \in [{0, 1} -> [Tiles -> 0 .. TILE_ERROR]]
        BY <1>3 DEF Frames
      <4>3. r \in Nat
        BY <1>4, <4>1 DEF Rows
      <4> QED
        BY <4>1, <4>2, <4>3
    <3> QED
      BY <3>1, <2>1 DEF Grows
  <2> QED
    BY <2>1, <1>1, <1>2, <1>4 DEF TilesPast
<1>5. \A t : (IsRow(t)' <=> IsRow(t)) /\ Pass(t)' = Pass(t) /\ Pass(t) \in {0, 1}
  BY DEF IsRow, IsTile, InitTypes, Pass
<1>6. /\ \A t \in fc'[s].queue : t.sby \in Rows
      /\ \A v \in Workers : Busy(v, s)' => task'[v].sby \in Rows
      /\ fc'[s].frame \subseteq Rows
  <2>1. task' \in [Workers -> Tasks]
    BY <1>1, SameSetup DEF IInv, TypeOK
  <2> QED
    BY <1>3, <2>1 DEF Frames, Tasks
<1>7. ASSUME NEW t \in fc'[s].queue, IsRow(t), t.recon = 0
      PROVE  TilesPast(fc[s], Pass(t), t.sby)'
  BY <1>4, <1>5, <1>6, <1>7 DEF PastOK
<1>8. ASSUME NEW v \in Workers, Busy(v, s)', IsRow(task'[v])
      PROVE  TilesPast(fc[s], Pass(task[v]), task[v].sby)'
  <2>1. CASE v = w
    BY <2>1, <1>4, <1>5, <1>6, <1>8
  <2>2. CASE v # w
    <3>1. Busy(v, s) /\ task'[v] = task[v]
      BY <2>2, <1>1, <1>8, TouchFacts DEF Touch
    <3>2. TilesPast(fc[s], Pass(task'[v]), task'[v].sby)
      BY <3>1, <1>8 DEF PastOK
    <3> QED
      BY <3>2, <1>4, <1>5, <1>6, <1>8
  <2> QED
    BY <2>1, <2>2
<1>9. ASSUME ~Before(s, 0)', NEW r \in fc'[s].frame
      PROVE  TilesPast(fc[s], 0, r)'
  BY <1>4, <1>6, <1>9 DEF PastOK
<1> QED
  BY <1>5, <1>7, <1>8, <1>9 DEF PastOK

\* The order of the filters.
LEMMA FiltKept ==
  ASSUME IInv, IInv', NEW s \in Slots, NEW w \in Workers, Acts(w, s), ~fc'[s].finished,
         FiltOK(s), fc'[s].deblock = fc[s].deblock, fc[s].copyLpf \subseteq fc'[s].copyLpf,
         \A t \in fc'[s].queue : IsRow(t) /\ Pass(t) = 0 =>
           t \in fc[s].queue \/ RowQueued(fc'[s], Filters(s), t),
         Busy(w, s)' /\ IsRow(task'[w]) /\ Pass(task'[w]) = 0 =>
           RowAt(fc'[s], Filters(s), at'[w], task'[w])
  PROVE  FiltOK(s)'
<1>1. Touch(w, s) /\ setup' = setup /\ Rows' = Rows /\ Filters(s)' = Filters(s)
  <2>1. fc[s].pic \in 1 .. Number
    BY DEF IInv, Acts, Unfinished, FrameOK
  <2> QED
    BY <2>1, SameSetup, TouchFacts DEF Acts, Touch
<1>2. \A t, filters : RowQueued(fc[s], filters, t) => RowQueued(fc[s], filters, t)'
  BY DEF RowQueued, Acts, Keeps
<1>3. \A t, filters, l : RowAt(fc[s], filters, l, t) => RowAt(fc[s], filters, l, t)'
  BY <1>1 DEF RowAt, TopsSaved, Acts, Keeps
<1>4. \A t, filters : RowQueued(fc'[s], filters, t) => RowQueued(fc[s], filters, t)'
  BY DEF RowQueued
<1>5. \A t, filters, l : RowAt(fc'[s], filters, l, t) => RowAt(fc[s], filters, l, t)'
  BY <1>1 DEF RowAt, TopsSaved
<1>6. \A t : (IsRow(t)' <=> IsRow(t)) /\ Pass(t)' = Pass(t)
  BY DEF IsRow, IsTile, InitTypes, Pass
<1>7. ASSUME NEW t \in fc'[s].queue, IsRow(t), Pass(t) = 0
      PROVE  RowQueued(fc[s], Filters(s), t)'
  BY <1>1, <1>2, <1>4, <1>7 DEF FiltOK
<1>8. ASSUME NEW v \in Workers, Busy(v, s)', IsRow(task'[v]), Pass(task'[v]) = 0
      PROVE  RowAt(fc[s], Filters(s), at[v], task[v])'
  <2>1. CASE v = w
    BY <2>1, <1>1, <1>5, <1>8
  <2>2. CASE v # w
    <3>1. Busy(v, s) /\ task'[v] = task[v] /\ at'[v] = at[v]
      BY <2>2, <1>1, <1>8, TouchFacts DEF Touch
    <3>2. RowAt(fc[s], Filters(s), at[v], task[v])
      BY <3>1, <1>8 DEF FiltOK
    <3> QED
      BY <3>1, <3>2, <1>1, <1>3
  <2> QED
    BY <2>1, <2>2
<1> QED
  BY <1>1, <1>6, <1>7, <1>8 DEF FiltOK

\* The picture.
LEMMA PicKept ==
  ASSUME NEW s \in Slots, NEW w \in Workers, Acts(w, s), ~fc'[s].finished, PicOK(s),
         pics'[fc[s].pic].progress[1] = pics[fc[s].pic].progress[1],
         pics'[fc[s].pic].filtered = pics[fc[s].pic].filtered,
         fc'[s].frame = fc[s].frame, fc'[s].done[0] = fc[s].done[0],
         Before(s, 0)' <=> Before(s, 0)
  PROVE  PicOK(s)'
<1>1. /\ Rows' = Rows /\ TwoPass' = TwoPass /\ FRAME_ERROR' = FRAME_ERROR /\ AllRows' = AllRows
      /\ fc'[s].pic = fc[s].pic /\ (fc[s].error => fc'[s].error)
  BY SameSetup DEF Acts, Touch, Keeps
<1> QED
  BY <1>1 DEF PicOK

\* What the picture shows, when nothing is taken back.
LEMMA HonestKept ==
  ASSUME setup' = setup, NEW n, Honest(n),
         pics'[n].progress[1] \in {pics[n].progress[1], FRAME_ERROR},
         pics[n].filtered \subseteq pics'[n].filtered
  PROVE  Honest(n)'
<1>1. Sbh' = Sbh /\ FRAME_ERROR' = FRAME_ERROR /\ AllRows' = AllRows
  BY SameSetup
<1> QED
  BY <1>1 DEF Honest

\* Worker w in s goes to l with task k, and leaves frame g and picture q.
Does(w, s, l, k, g, q) ==
  /\ at[w] # "search" /\ s = Slot(w) /\ StepTo(w, l, k, g, q)
  /\ l \in Places /\ k \in Tasks /\ g \in Frames /\ q \in Pictures
  /\ g.pic = fc[s].pic /\ q.filters = Filters(s) /\ (l # "search" => k.slot = s)
  /\ Keeps(fc[s], g)

\* Such a step acts on that frame alone.
LEMMA Doing ==
  ASSUME IInv, NEW w \in Workers, NEW s, NEW l, NEW k, NEW g, NEW q, Does(w, s, l, k, g, q)
  PROVE  /\ Acts(w, s) /\ s \in Slots
         /\ fc'[s] = g /\ at'[w] = l /\ task'[w] = k /\ pics'[fc[s].pic] = q
<1>0. /\ at[w] # "search" /\ s = Slot(w) /\ StepTo(w, l, k, g, q)
      /\ l \in Places /\ k \in Tasks /\ g \in Frames /\ q \in Pictures
      /\ g.pic = fc[s].pic /\ q.filters = Filters(s) /\ (l # "search" => k.slot = s)
  BY DEF Does
<1>1. /\ Touch(w, s) /\ fc'[s] = g /\ at'[w] = l /\ task'[w] = k /\ pics'[fc[s].pic] = q
  BY <1>0, Step
<1>2. /\ s \in Slots /\ Unfinished(s) /\ Frame(w).pic = fc[s].pic
      /\ pics \in [1 .. Number -> Pictures]
  BY <1>0, BusyFacts
<1>3. \A n \in 1 .. Number : n # fc[s].pic => pics'[n] = pics[n]
  BY <1>0, <1>2 DEF StepTo
<1>4. Keeps(fc[s], g)
  BY DEF Does
<1> QED
  BY <1>1, <1>2, <1>3, <1>4 DEF Acts

\* A worker that does a row adds at most that row to what is behind the tiles.
RowAct(w, s, In) ==
  /\ Acts(w, s) /\ ~fc'[s].finished /\ Busy(w, s)
  /\ IsRow(task[w]) /\ task'[w] = task[w] /\ at'[w] \notin {"create", "tileDone", "tileFailed"}
  /\ fc'[s].tileProgress = fc[s].tileProgress
  /\ fc'[s].queue = fc[s].queue \cup In
  /\ \A t \in In : /\ IsRow(t) /\ t.recon = 0
                   /\ Pass(t) = Pass(task[w]) /\ t.sby = task[w].sby
  /\ \A r \in fc'[s].frame : r \in fc[s].frame \/ (Pass(task[w]) = 0 /\ r = task[w].sby)

\* ... so that tiles, rows and passes are as before.
LEMMA RowActs ==
  ASSUME IInv, IInv', NEW s \in Slots, NEW w \in Workers, SliceOK(s), NEW In, RowAct(w, s, In)
  PROVE  TileOK(s)' /\ PastOK(s)' /\ \A p : Before(s, p)' <=> Before(s, p)
<1>1. /\ Acts(w, s) /\ Touch(w, s) /\ ~fc'[s].finished /\ Busy(w, s) /\ IsRow(task[w]) /\ task'[w] = task[w]
      /\ fc'[s].tileProgress = fc[s].tileProgress /\ fc'[s].queue = fc[s].queue \cup In
      /\ at'[w] \notin {"create", "tileDone", "tileFailed"} /\ TileOK(s) /\ PastOK(s)
      /\ \A t \in In : IsRow(t) /\ t.recon = 0 /\ Pass(t) = Pass(task[w]) /\ t.sby = task[w].sby
  BY DEF RowAct, Acts, SliceOK
<1>2. \A p : Before(s, p)' <=> Before(s, p)
  <2>1. NoStart(w, s, In, {})
    BY <1>1 DEF NoStart, IsRow
  <2> QED
    BY <1>1, <2>1, BeforeKept
<1>3. TileOK(s)'
  <2>1. \A t \in fc'[s].queue : IsTile(t) => t \in fc[s].queue
    BY <1>1 DEF IsRow
  <2>2. ~IsTile(task'[w])
    BY <1>1 DEF IsRow
  <2> QED
    BY <1>1, <1>2, <2>1, <2>2, TilesKept
<1>4. PastOK(s)'
  <2>1. TilesPast(fc[s], Pass(task[w]), task[w].sby)
    BY <1>1 DEF PastOK
  <2>2. Grows(s)
    <3>1. /\ fc[s].tileProgress \in [{0, 1} -> [Tiles -> 0 .. TILE_ERROR]] /\ setup \in DOMAIN Setups
      BY DEF IInv, TypeOK, Frames
    <3>2. 0 .. TILE_ERROR \subseteq Int
      BY <3>1, SetupFacts DEF TILE_ERROR
    <3> QED
      BY <1>1, <3>1, <3>2 DEF Grows
  <2>3. \A t \in fc'[s].queue : IsRow(t) /\ t.recon = 0 =>
          t \in fc[s].queue \/ TilesPast(fc[s], Pass(t), t.sby)
    BY <1>1, <2>1
  <2>4. \A r \in fc'[s].frame : TilesPast(fc[s], 0, r) \/ r \in fc[s].frame
    BY <2>1 DEF RowAct
  <2> QED
    BY <1>1, <1>2, <2>1, <2>2, <2>3, <2>4, PastKept
<1> QED
  BY <1>2, <1>3, <1>4

----------------------------------------------------------------------------
(* The rows *)

\* What a row task leaves alone: the tiles, and the progress of the frame.
Apart1(s) ==
  /\ fc'[s].tileProgress = fc[s].tileProgress /\ fc'[s].error = fc[s].error
  /\ ~fc'[s].finished

\* Notes an error in a picture.
Damages(p, error) == [p EXCEPT !.damaged = @ \/ error]

\* A row that goes back to the queue.
Requeued(t, type, deblock) ==
  [t EXCEPT !.type = type, !.recon = 0, !.deblock = deblock, !.slot = None]

\* A row r of a picture that is finished, and a progress k that it shows.
Finishes(p, r, error) == [p EXCEPT !.filtered = @ \cup {r}, !.damaged = @ \/ error]
Shows(p, pass, k) == [p EXCEPT !.progress[pass] = k]

\* A row that is deblocked in columns goes on, or back to the queue.
LEMMA DeblockColsEffect ==
  ASSUME IInv, NEW w \in Workers, DeblockCols(w), NEW s, s = Slot(w)
  PROVE  /\ Acts(w, s) /\ s \in Slots /\ Apart1(s) /\ Busy(w, s)
         /\ task'[w] = task[w] /\ task[w].type = "DeblockCols" /\ "deblock" \in Filters(s)
         /\ fc'[s].deblock = fc[s].deblock /\ fc'[s].copyLpf = fc[s].copyLpf
         /\ fc'[s].frame = fc[s].frame /\ fc'[s].done = fc[s].done /\ fc'[s].entropy = fc[s].entropy
         /\ pics'[fc[s].pic] = Damages(pics[fc[s].pic], fc[s].error)
         /\ \/ /\ at'[w] = "DeblockRows" /\ fc[s].deblock >= task[w].sby
               /\ fc'[s].queue = fc[s].queue
            \/ /\ at'[w] = "search"
               /\ fc'[s].queue = fc[s].queue \cup
                    {Requeued(task[w], "DeblockRows", task[w].sby)}
<1>1. /\ at[w] = "DeblockCols" /\ pics' = Filtered(w) /\ UNCHANGED <<task, caller>>
  BY DEF DeblockCols
<1>2. /\ s \in Slots /\ fc[s] \in Frames /\ task[w] \in Tasks /\ task[w].slot = s
      /\ TaskOK(task[w], Filters(s)) /\ Frame(w) = fc[s] /\ Picture(w) \in Pictures
      /\ Picture(w).filters = Filters(s) /\ PlaceOK(at[w], task[w].type)
      /\ setup \in DOMAIN Setups /\ Busy(w, s) /\ ~fc[s].finished
      /\ [task EXCEPT ![w] = task[w]] = task /\ [fc EXCEPT ![Slot(w)] = Frame(w)] = fc
  BY <1>1, Now
<1>3. task[w].type = "DeblockCols" /\ "deblock" \in Filters(s)
  BY <1>1, <1>2 DEF PlaceOK, TaskOK
<1>q. PICK q : q = [Picture(w) EXCEPT !.damaged = @ \/ Frame(w).error]
  OBVIOUS
<1>4. pics' = [pics EXCEPT ![Frame(w).pic] = q]
  BY <1>1, <1>q DEF Filtered, Picture
<1>5. q \in Pictures /\ q.filters = Filters(s)
      /\ q = Damages(pics[fc[s].pic], fc[s].error)
  BY <1>2, <1>q DEF Damages, Pictures, Frames, Picture
<1>6. CASE EnsureProgress(Frame(w), task[w].sby) /\ Goto(w, "DeblockRows") /\ UNCHANGED fc
  <2>1. StepTo(w, "DeblockRows", task[w], Frame(w), q)
    BY <1>1, <1>2, <1>4, <1>6 DEF StepTo, Goto
  <2>2. Does(w, s, "DeblockRows", task[w], Frame(w), q)
    BY <1>1, <1>2, <1>5, <2>1 DEF Does, Keeps, Places
  <2>3. /\ Acts(w, s) /\ fc'[s] = Frame(w) /\ at'[w] = "DeblockRows"
        /\ task'[w] = task[w] /\ pics'[fc[s].pic] = q
    BY <2>2, Doing
  <2> QED
    BY <1>2, <1>3, <1>5, <1>6, <2>3 DEF Apart1, EnsureProgress
<1>7. CASE ~EnsureProgress(Frame(w), task[w].sby)
  <2>t. PICK t : t = Requeued(task[w], "DeblockRows", task[w].sby)
    OBVIOUS
  <2>g. PICK g : g = [fc[s] EXCEPT !.queue = @ \cup {t}]
    OBVIOUS
  <2>1. StepTo(w, "search", task[w], g, q)
    BY <1>1, <1>2, <1>4, <1>7, <2>t, <2>g DEF DeblockCols, StepTo, Goto, Pend, Tasks, Requeued
  <2>2. t \in Tasks
    <3>1. task[w].sby \in Rows /\ 0 \in 0 .. Sbh
      BY <1>2, SetupFacts DEF Tasks
    <3> QED
      BY <1>2, <2>t, <3>1 DEF Requeued, Tasks, TaskTypes
  <2>3. /\ g \in Frames /\ g.pic = fc[s].pic /\ g.error = fc[s].error /\ g.queue = fc[s].queue \cup {t}
        /\ g.tileProgress = fc[s].tileProgress /\ ~g.finished
        /\ g.deblock = fc[s].deblock /\ g.copyLpf = fc[s].copyLpf
        /\ g.frame = fc[s].frame /\ g.done = fc[s].done /\ g.entropy = fc[s].entropy
    BY <1>2, <2>2, <2>g DEF Frames
  <2>4. Does(w, s, "search", task[w], g, q)
    BY <1>1, <1>2, <1>5, <2>1, <2>3 DEF Does, Keeps, Places
  <2>5. Acts(w, s) /\ fc'[s] = g /\ at'[w] = "search" /\ task'[w] = task[w] /\ pics'[fc[s].pic] = q
    BY <2>4, Doing
  <2> QED
    BY <1>2, <1>3, <1>5, <2>t, <2>3, <2>5 DEF Apart1
<1> QED
  BY <1>6, <1>7 DEF DeblockCols

\* A row that is deblocked in rows, or whose top is saved, goes on to CDEF, or
\* back to the queue if the row above is not saved.
LEMMA DeblockRowsEffect ==
  ASSUME IInv, NEW w \in Workers, DeblockRows(w), NEW s, s = Slot(w)
  PROVE  /\ Acts(w, s) /\ s \in Slots /\ Apart1(s) /\ Busy(w, s)
         /\ task'[w] = task[w] /\ task[w].type \in {"DeblockCols", "DeblockRows"}
         /\ fc'[s].frame = fc[s].frame /\ fc'[s].done = fc[s].done /\ fc'[s].entropy = fc[s].entropy
         /\ pics'[fc[s].pic] = Damages(pics[fc[s].pic], fc[s].error)
         /\ \/ /\ at'[w] = "Cdef" /\ fc'[s].queue = fc[s].queue
               /\ "deblock" \in Filters(s) /\ fc'[s].copyLpf = fc[s].copyLpf
               /\ fc'[s].deblock = Deblocked(fc[s], task[w].sby)
            \/ /\ at'[w] = "Cdef" /\ fc'[s].queue = fc[s].queue
               /\ "deblock" \notin Filters(s) /\ fc'[s].copyLpf = fc[s].copyLpf \cup {task[w].sby}
               /\ TopSaved(fc[s], task[w].sby) /\ fc'[s].deblock = fc[s].deblock
            \/ /\ at'[w] = "search" /\ task[w].type = "DeblockRows"
               /\ fc'[s].queue = fc[s].queue \cup
                    {Requeued(task[w], "Cdef", 0)}
               /\ "deblock" \notin Filters(s) /\ fc'[s].copyLpf = fc[s].copyLpf \cup {task[w].sby}
               /\ fc'[s].deblock = fc[s].deblock
<1>1. /\ at[w] = "DeblockRows" /\ pics' = Filtered(w) /\ UNCHANGED <<task, caller>>
  BY DEF DeblockRows
<1>2. /\ s \in Slots /\ fc[s] \in Frames /\ task[w] \in Tasks /\ task[w].slot = s
      /\ TaskOK(task[w], Filters(s)) /\ Frame(w) = fc[s] /\ Picture(w) \in Pictures
      /\ Picture(w).filters = Filters(s) /\ PlaceOK(at[w], task[w].type)
      /\ setup \in DOMAIN Setups /\ Busy(w, s) /\ ~fc[s].finished
      /\ [task EXCEPT ![w] = task[w]] = task /\ [fc EXCEPT ![Slot(w)] = Frame(w)] = fc
  BY <1>1, Now
<1>3. task[w].type \in {"DeblockCols", "DeblockRows"}
  BY <1>1, <1>2 DEF PlaceOK
<1>q. PICK q : q = [Picture(w) EXCEPT !.damaged = @ \/ Frame(w).error]
  OBVIOUS
<1>4. pics' = [pics EXCEPT ![Frame(w).pic] = q]
  BY <1>1, <1>q DEF Filtered, Picture
<1>5. q \in Pictures /\ q.filters = Filters(s)
      /\ q = Damages(pics[fc[s].pic], fc[s].error)
  BY <1>2, <1>q DEF Damages, Pictures, Frames, Picture
<1>7. task[w].sby \in Rows /\ Deblocked(fc[s], task[w].sby) \in 0 .. TILE_ERROR
  <2>1. task[w].sby \in Rows /\ Sbh \in Nat
    BY <1>2, SetupFacts DEF Tasks
  <2>2. task[w].sby + 1 \in 0 .. TILE_ERROR /\ TILE_ERROR \in 0 .. TILE_ERROR
    BY <2>1 DEF TILE_ERROR, Rows
  <2> QED
    BY <2>1, <2>2 DEF Deblocked
<1>h. PICK saved : saved = [fc[s] EXCEPT !.copyLpf = @ \cup {task[w].sby}]
  OBVIOUS
<1>8. /\ saved \in Frames /\ saved.pic = fc[s].pic /\ saved.error = fc[s].error
      /\ saved.queue = fc[s].queue /\ saved.tileProgress = fc[s].tileProgress /\ ~saved.finished
      /\ saved.deblock = fc[s].deblock /\ saved.copyLpf = fc[s].copyLpf \cup {task[w].sby}
      /\ saved.frame = fc[s].frame /\ saved.done = fc[s].done /\ saved.entropy = fc[s].entropy
  BY <1>2, <1>7, <1>h DEF Frames
<1>9. CASE /\ "deblock" \in Picture(w).filters
           /\ fc' = [fc EXCEPT ![Slot(w)].deblock = Deblocked(Frame(w), task[w].sby)]
           /\ Goto(w, "Cdef")
  <2>g. PICK g : g = [fc[s] EXCEPT !.deblock = Deblocked(fc[s], task[w].sby)]
    OBVIOUS
  <2>1. StepTo(w, "Cdef", task[w], g, q)
    BY <1>1, <1>2, <1>4, <1>9, <2>g DEF StepTo, Goto
  <2>2. /\ g \in Frames /\ g.pic = fc[s].pic /\ g.error = fc[s].error /\ g.queue = fc[s].queue
        /\ g.tileProgress = fc[s].tileProgress /\ ~g.finished
        /\ g.deblock = Deblocked(fc[s], task[w].sby) /\ g.copyLpf = fc[s].copyLpf
        /\ g.frame = fc[s].frame /\ g.done = fc[s].done /\ g.entropy = fc[s].entropy
    BY <1>2, <1>7, <2>g DEF Frames
  <2>3. Does(w, s, "Cdef", task[w], g, q)
    BY <1>1, <1>2, <1>5, <2>1, <2>2 DEF Does, Keeps, Places
  <2>4. Acts(w, s) /\ fc'[s] = g /\ at'[w] = "Cdef" /\ task'[w] = task[w] /\ pics'[fc[s].pic] = q
    BY <2>3, Doing
  <2> QED
    BY <1>2, <1>3, <1>5, <1>9, <2>2, <2>4 DEF Apart1
<1>10. CASE /\ "deblock" \notin Picture(w).filters /\ TopSaved(Frame(w), task[w].sby)
            /\ fc' = [fc EXCEPT ![Slot(w)] = saved] /\ Goto(w, "Cdef")
  <2>1. StepTo(w, "Cdef", task[w], saved, q)
    BY <1>1, <1>2, <1>4, <1>10 DEF StepTo, Goto
  <2>3. Does(w, s, "Cdef", task[w], saved, q)
    BY <1>1, <1>2, <1>5, <1>8, <2>1 DEF Does, Keeps, Places
  <2>4. Acts(w, s) /\ fc'[s] = saved /\ at'[w] = "Cdef" /\ task'[w] = task[w] /\ pics'[fc[s].pic] = q
    BY <2>3, Doing
  <2> QED
    BY <1>2, <1>3, <1>5, <1>8, <1>10, <2>4 DEF Apart1
<1>t. PICK t : t = Requeued(task[w], "Cdef", 0)
  OBVIOUS
<1>11. CASE /\ "deblock" \notin Picture(w).filters
            /\ fc' = [fc EXCEPT ![Slot(w)] = [saved EXCEPT !.queue = @ \cup {t}]]
            /\ Goto(w, "search")
  <2>0. task[w].type = "DeblockRows"
    BY <1>2, <1>3, <1>11 DEF TaskOK
  <2>g. PICK g : g = [saved EXCEPT !.queue = @ \cup {t}]
    OBVIOUS
  <2>1. StepTo(w, "search", task[w], g, q)
    BY <1>1, <1>2, <1>4, <1>11, <2>g DEF StepTo, Goto
  <2>2. t \in Tasks
    <3>1. task[w].sby \in Rows /\ 0 \in 0 .. Sbh /\ 0 \in Rows
      BY <1>2, SetupFacts DEF Tasks
    <3> QED
      BY <1>2, <1>t, <3>1 DEF Requeued, Tasks, TaskTypes
  <2>3. /\ g \in Frames /\ g.pic = fc[s].pic /\ g.error = fc[s].error /\ g.queue = fc[s].queue \cup {t}
        /\ g.tileProgress = fc[s].tileProgress /\ ~g.finished
        /\ g.deblock = fc[s].deblock /\ g.copyLpf = fc[s].copyLpf \cup {task[w].sby}
        /\ g.frame = fc[s].frame /\ g.done = fc[s].done /\ g.entropy = fc[s].entropy
    BY <1>2, <1>8, <2>2, <2>g DEF Frames
  <2>4. Does(w, s, "search", task[w], g, q)
    BY <1>1, <1>2, <1>5, <2>1, <2>3 DEF Does, Keeps, Places
  <2>5. Acts(w, s) /\ fc'[s] = g /\ at'[w] = "search" /\ task'[w] = task[w] /\ pics'[fc[s].pic] = q
    BY <2>4, Doing
  <2> QED
    BY <1>2, <1>3, <1>5, <1>11, <1>t, <2>0, <2>3, <2>5 DEF Apart1
<1>12. Pend([task[w] EXCEPT !.type = "Cdef", !.recon = 0, !.deblock = 0]) = {t}
  BY <1>2, <1>t DEF Requeued, Pend, Tasks
<1>13. saved = [Frame(w) EXCEPT !.copyLpf = @ \cup {task[w].sby}]
  BY <1>2, <1>h
<1> QED
  BY <1>9, <1>10, <1>11, <1>12, <1>13 DEF DeblockRows

\* A row that is finished.
LEMMA FinishRowEffect ==
  ASSUME IInv, NEW w \in Workers, FinishRow(w), NEW s, s = Slot(w)
  PROVE  /\ Acts(w, s) /\ s \in Slots /\ Apart1(s) /\ Busy(w, s)
         /\ task'[w] = task[w] /\ IsRow(task[w]) /\ Pass(task[w]) = 0 /\ at'[w] = "publish"
         /\ fc'[s].queue = fc[s].queue
         /\ fc'[s].deblock = fc[s].deblock /\ fc'[s].copyLpf = fc[s].copyLpf
         /\ fc'[s].frame = fc[s].frame \cup {task[w].sby}
         /\ fc'[s].done = fc[s].done /\ fc'[s].entropy = fc[s].entropy
         /\ pics'[fc[s].pic] =
              Finishes(pics[fc[s].pic], task[w].sby, at[w] = "Cdef" /\ fc[s].error)
<1>1. /\ at[w] \in {"Cdef", "ReconstructionProgress"} /\ UNCHANGED <<task, caller>>
      /\ Goto(w, "publish")
      /\ fc' = [fc EXCEPT ![Slot(w)].frame = @ \cup {task[w].sby}]
  BY DEF FinishRow
<1>2. /\ s \in Slots /\ fc[s] \in Frames /\ task[w] \in Tasks /\ task[w].slot = s
      /\ Frame(w) = fc[s] /\ Picture(w) \in Pictures
      /\ Picture(w).filters = Filters(s) /\ PlaceOK(at[w], task[w].type)
      /\ Busy(w, s) /\ ~fc[s].finished /\ [task EXCEPT ![w] = task[w]] = task
  BY <1>1, Now
<1>3. IsRow(task[w]) /\ Pass(task[w]) = 0
  BY <1>1, <1>2 DEF PlaceOK, InitTypes, IsTile, Pass, IsRow
<1>i. PICK i : i = task[w].sby
  OBVIOUS
<1>q. PICK q : q = [Picture(w) EXCEPT !.filtered = @ \cup {i},
                      !.damaged = @ \/ (at[w] = "Cdef" /\ Frame(w).error)]
  OBVIOUS
<1>g. PICK g : g = [fc[s] EXCEPT !.frame = @ \cup {i}]
  OBVIOUS
<1>4. i \in Rows
  BY <1>2, <1>i DEF Tasks
<1>5. q \in Pictures /\ q.filters = Filters(s)
      /\ q = Finishes(pics[fc[s].pic], i, at[w] = "Cdef" /\ fc[s].error)
  BY <1>2, <1>4, <1>q DEF Finishes, Pictures, Frames, Picture
<1>6. /\ g \in Frames /\ g.pic = fc[s].pic /\ g.error = fc[s].error /\ g.queue = fc[s].queue
      /\ g.tileProgress = fc[s].tileProgress /\ ~g.finished
      /\ g.deblock = fc[s].deblock /\ g.copyLpf = fc[s].copyLpf
      /\ g.frame = fc[s].frame \cup {i} /\ g.done = fc[s].done /\ g.entropy = fc[s].entropy
  BY <1>2, <1>4, <1>g DEF Frames
<1>7. StepTo(w, "publish", task[w], g, q)
  <2>1. pics' = [pics EXCEPT ![Frame(w).pic] = q]
    <3>1. pics' = [pics EXCEPT ![Frame(w).pic].filtered = @ \cup {task[w].sby},
                     ![Frame(w).pic].damaged = @ \/ (at[w] = "Cdef" /\ Frame(w).error)]
      BY DEF FinishRow
    <3>2. pics \in [1 .. Number -> Pictures] /\ Frame(w).pic \in 1 .. Number
      BY <1>1, <1>2, BusyFacts
    <3> QED
      BY <3>1, <3>2, <1>i, <1>q DEF Picture
  <2> QED
    BY <1>1, <1>2, <1>i, <1>g, <2>1 DEF StepTo, Goto
<1>8. Does(w, s, "publish", task[w], g, q)
  BY <1>1, <1>2, <1>5, <1>6, <1>7 DEF Does, Keeps, Places
<1>9. Acts(w, s) /\ fc'[s] = g /\ at'[w] = "publish" /\ task'[w] = task[w] /\ pics'[fc[s].pic] = q
  BY <1>8, Doing
<1> QED
  BY <1>2, <1>3, <1>5, <1>6, <1>9, <1>i DEF Apart1

\* The rows of a picture are published.
LEMMA PublishRowsEffect ==
  ASSUME IInv, NEW w \in Workers, PublishRows(w), NEW s, s = Slot(w)
  PROVE  /\ Acts(w, s) /\ s \in Slots /\ Apart1(s) /\ Busy(w, s)
         /\ task'[w] = task[w] /\ IsRow(task[w]) /\ Pass(task[w]) = 0
         /\ at[w] = "publish" /\ at'[w] = "count"
         /\ fc'[s].queue = fc[s].queue
         /\ fc'[s].deblock = fc[s].deblock /\ fc'[s].copyLpf = fc[s].copyLpf
         /\ fc'[s].frame = fc[s].frame /\ fc'[s].entropy = fc[s].entropy
         /\ FinishedRows(w) \in 0 .. Sbh
         /\ fc'[s].done = [fc[s].done EXCEPT ![0] = fc[s].done[0] \/ FinishedRows(w) = Sbh]
         /\ pics'[fc[s].pic] = Shows(pics[fc[s].pic], 1,
              IF ~TwoPass THEN pics[fc[s].pic].progress[1] ELSE IF fc[s].error THEN FRAME_ERROR
              ELSE IF FinishedRows(w) = Sbh THEN AllRows ELSE FinishedRows(w))
<1>1. at[w] = "publish" /\ Goto(w, "count") /\ UNCHANGED <<task, caller>>
  BY DEF PublishRows
<1>2. /\ s \in Slots /\ fc[s] \in Frames /\ task[w] \in Tasks /\ task[w].slot = s
      /\ Frame(w) = fc[s] /\ Picture(w) \in Pictures /\ setup \in DOMAIN Setups
      /\ Picture(w).filters = Filters(s) /\ Busy(w, s)
      /\ ~fc[s].finished /\ [task EXCEPT ![w] = task[w]] = task
  BY <1>1, Now
<1>3. IsRow(task[w]) /\ Pass(task[w]) = 0
  BY <1>1, RowMine DEF IsRow
<1>n. PICK n : n = FinishedRows(w)
  OBVIOUS
<1>4. fc[s].frame \subseteq Rows /\ FromTop(fc[s].frame) \in 0 .. Sbh
  BY <1>2, FromTopFacts DEF Frames
<1>5. n \in 0 .. Sbh
  BY <1>2, <1>n, <1>4, SetupFacts DEF FinishedRows
<1>q. PICK q : q = [Picture(w) EXCEPT !.progress[1] =
                      IF ~TwoPass THEN @ ELSE IF fc[s].error THEN FRAME_ERROR
                      ELSE IF n = Sbh THEN AllRows ELSE n]
  OBVIOUS
<1>g. PICK g : g = [fc[s] EXCEPT !.done[0] = @ \/ n = Sbh]
  OBVIOUS
<1>6. q \in Pictures /\ q.filters = Filters(s)
  <2>1. FRAME_ERROR \in 0 .. TILE_ERROR /\ AllRows \in 0 .. TILE_ERROR /\ n \in 0 .. TILE_ERROR
    BY <1>2, <1>5, SetupFacts DEF FRAME_ERROR, AllRows, TILE_ERROR
  <2> QED
    BY <1>2, <1>q, <2>1 DEF Pictures, Progress
<1>7. /\ g \in Frames /\ g.pic = fc[s].pic /\ g.error = fc[s].error /\ g.queue = fc[s].queue
      /\ g.tileProgress = fc[s].tileProgress /\ ~g.finished
      /\ g.deblock = fc[s].deblock /\ g.copyLpf = fc[s].copyLpf
      /\ g.frame = fc[s].frame /\ g.entropy = fc[s].entropy
      /\ g.done = [fc[s].done EXCEPT ![0] = fc[s].done[0] \/ n = Sbh]
  <2>1. fc[s].done \in [{0, 1} -> BOOLEAN] /\ (fc[s].done[0] \/ n = Sbh) \in BOOLEAN
    BY <1>2 DEF Frames
  <2>2. g \in Frames
    BY <1>2, <1>g, <2>1 DEF Frames
  <2>3. g.done = [fc[s].done EXCEPT ![0] = fc[s].done[0] \/ n = Sbh]
    BY <1>2, <1>g DEF Frames
  <2> QED
    BY <1>2, <1>g, <2>2, <2>3 DEF Frames
<1>8. StepTo(w, "count", task[w], g, q)
  <2>1. pics' = [pics EXCEPT ![Frame(w).pic] = q]
    BY <1>2, <1>n, <1>q DEF PublishRows, Picture
  <2>2. fc' = [fc EXCEPT ![s] = g]
    BY <1>2, <1>n, <1>g DEF PublishRows
  <2> QED
    BY <1>1, <1>2, <2>1, <2>2 DEF StepTo, Goto
<1>9. Does(w, s, "count", task[w], g, q)
  BY <1>1, <1>2, <1>6, <1>7, <1>8 DEF Does, Keeps, Places
<1>10. Acts(w, s) /\ fc'[s] = g /\ at'[w] = "count" /\ task'[w] = task[w] /\ pics'[fc[s].pic] = q
  BY <1>9, Doing
<1>11. q = Shows(pics[fc[s].pic], 1,
              IF ~TwoPass THEN pics[fc[s].pic].progress[1] ELSE IF fc[s].error THEN FRAME_ERROR
              ELSE IF FinishedRows(w) = Sbh THEN AllRows ELSE FinishedRows(w))
  <2>1. q = [Picture(w) EXCEPT !.progress[1] =
               IF ~TwoPass THEN Picture(w).progress[1] ELSE IF fc[s].error THEN FRAME_ERROR
               ELSE IF n = Sbh THEN AllRows ELSE n]
    BY <1>2, <1>q DEF Pictures, Progress
  <2> QED
    BY <2>1, <1>2, <1>n DEF Picture, Shows
<1>12. fc'[s].done = [fc[s].done EXCEPT ![0] = fc[s].done[0] \/ FinishedRows(w) = Sbh]
  BY <1>7, <1>10, <1>n
<1> QED
  BY <1>1, <1>2, <1>3, <1>5, <1>7, <1>10, <1>11, <1>12, <1>n DEF Apart1

\* The entropy progress is published.
LEMMA EntropyProgressEffect ==
  ASSUME IInv, NEW w \in Workers, EntropyProgress(w), NEW s, s = Slot(w)
  PROVE  /\ Acts(w, s) /\ s \in Slots /\ Apart1(s) /\ Busy(w, s)
         /\ task'[w] = task[w] /\ IsRow(task[w]) /\ Pass(task[w]) = 1 /\ TwoPass
         /\ Mine(w, s) = {<<1, "row", task[w].sby>>} /\ task[w].sby \in Rows
         /\ at[w] = "EntropyProgress" /\ at'[w] = "count"
         /\ fc'[s].queue = fc[s].queue
         /\ fc'[s].deblock = fc[s].deblock /\ fc'[s].copyLpf = fc[s].copyLpf
         /\ fc'[s].frame = fc[s].frame
         /\ fc'[s].entropy = (IF fc[s].error THEN TILE_ERROR ELSE task[w].sby + 1)
         /\ fc'[s].done[0] = fc[s].done[0]
         /\ fc'[s].done[1] = (fc[s].done[1] \/ task[w].sby + 1 = Sbh)
         /\ pics'[fc[s].pic] = Shows(pics[fc[s].pic], 0,
              IF fc[s].error THEN FRAME_ERROR
              ELSE IF task[w].sby + 1 = Sbh THEN AllRows ELSE task[w].sby + 1)
<1>1. at[w] = "EntropyProgress" /\ Goto(w, "count") /\ UNCHANGED <<task, caller>>
  BY DEF EntropyProgress
<1>2. /\ s \in Slots /\ fc[s] \in Frames /\ task[w] \in Tasks /\ task[w].slot = s
      /\ Frame(w) = fc[s] /\ Picture(w) \in Pictures /\ setup \in DOMAIN Setups
      /\ Picture(w).filters = Filters(s) /\ Busy(w, s)
      /\ ~fc[s].finished /\ [task EXCEPT ![w] = task[w]] = task
  BY <1>1, Now
<1>i. PICK i : i = task[w].sby
  OBVIOUS
<1>3. /\ IsRow(task[w]) /\ Pass(task[w]) = 1 /\ TwoPass /\ i \in Rows
      /\ Mine(w, s) = {<<1, "row", i>>}
  BY <1>1, <1>i, RowMine DEF IsRow
<1>4. i + 1 \in 1 .. Sbh
  BY <1>2, <1>3, SetupFacts DEF Rows
<1>q. PICK q : q = [Picture(w) EXCEPT !.progress[0] =
                      IF fc[s].error THEN FRAME_ERROR ELSE IF i + 1 = Sbh THEN AllRows ELSE i + 1]
  OBVIOUS
<1>g. PICK g : g = [fc[s] EXCEPT !.entropy = IF fc[s].error THEN TILE_ERROR ELSE i + 1,
                                 !.done[1] = @ \/ i + 1 = Sbh]
  OBVIOUS
<1>5. /\ FRAME_ERROR \in 0 .. TILE_ERROR /\ AllRows \in 0 .. TILE_ERROR
      /\ i + 1 \in 0 .. TILE_ERROR /\ TILE_ERROR \in 0 .. TILE_ERROR
  BY <1>2, <1>4, SetupFacts DEF FRAME_ERROR, AllRows, TILE_ERROR
<1>6. q \in Pictures /\ q.filters = Filters(s)
  BY <1>2, <1>q, <1>5 DEF Pictures, Progress
<1>7. /\ g \in Frames /\ g.pic = fc[s].pic /\ g.error = fc[s].error /\ g.queue = fc[s].queue
      /\ g.tileProgress = fc[s].tileProgress /\ ~g.finished
      /\ g.deblock = fc[s].deblock /\ g.copyLpf = fc[s].copyLpf
      /\ g.frame = fc[s].frame /\ g.done[0] = fc[s].done[0]
      /\ g.done[1] = (fc[s].done[1] \/ i + 1 = Sbh)
      /\ g.entropy = (IF fc[s].error THEN TILE_ERROR ELSE i + 1)
  <2>1. fc[s].done \in [{0, 1} -> BOOLEAN] /\ (fc[s].done[1] \/ i + 1 = Sbh) \in BOOLEAN
    BY <1>2 DEF Frames
  <2>2. g \in Frames
    BY <1>2, <1>g, <1>5, <2>1 DEF Frames
  <2>3. g.done = [fc[s].done EXCEPT ![1] = fc[s].done[1] \/ i + 1 = Sbh]
    BY <1>2, <1>g DEF Frames
  <2> QED
    BY <1>2, <1>g, <2>1, <2>2, <2>3 DEF Frames
<1>8. StepTo(w, "count", task[w], g, q)
  <2>1. pics' = [pics EXCEPT ![Frame(w).pic] = q]
    BY <1>2, <1>i, <1>q DEF EntropyProgress, Picture
  <2>2. fc' = [fc EXCEPT ![s] = g]
    <3>1. fc \in [Slots -> Frames]
      BY DEF IInv, TypeOK
    <3>2. fc' = [fc EXCEPT ![s].entropy = IF fc[s].error THEN TILE_ERROR ELSE i + 1,
                           ![s].done[1] = @ \/ i + 1 = Sbh]
      BY <1>2, <1>i DEF EntropyProgress
    <3> QED
      BY <1>2, <1>g, <3>1, <3>2
  <2> QED
    BY <1>1, <1>2, <2>1, <2>2 DEF StepTo, Goto
<1>9. Does(w, s, "count", task[w], g, q)
  BY <1>1, <1>2, <1>6, <1>7, <1>8 DEF Does, Keeps, Places
<1>10. Acts(w, s) /\ fc'[s] = g /\ at'[w] = "count" /\ task'[w] = task[w] /\ pics'[fc[s].pic] = q
  BY <1>9, Doing
<1>11. q = Shows(pics[fc[s].pic], 0,
              IF fc[s].error THEN FRAME_ERROR
              ELSE IF task[w].sby + 1 = Sbh THEN AllRows ELSE task[w].sby + 1)
  BY <1>2, <1>i, <1>q DEF Picture, Shows
<1> QED
  BY <1>1, <1>2, <1>3, <1>7, <1>10, <1>11, <1>i DEF Apart1

\* The steps of a row.
LEMMA DeblockColsSlice ==
  ASSUME RInv, NEW w \in Workers, DeblockCols(w)
  PROVE  RInv'
<1>0. IInv /\ IInv'
  BY DeblockColsStep DEF RInv
<1>s. PICK s : s = Slot(w)
  OBVIOUS
<1>1. /\ Acts(w, s) /\ s \in Slots /\ Apart1(s) /\ Busy(w, s)
      /\ task'[w] = task[w] /\ task[w].type = "DeblockCols" /\ "deblock" \in Filters(s)
      /\ fc'[s].deblock = fc[s].deblock /\ fc'[s].copyLpf = fc[s].copyLpf
      /\ fc'[s].frame = fc[s].frame /\ fc'[s].done = fc[s].done
      /\ pics'[fc[s].pic] = Damages(pics[fc[s].pic], fc[s].error)
  BY <1>0, <1>s, DeblockColsEffect
<1>2. \/ /\ at'[w] = "DeblockRows" /\ fc[s].deblock >= task[w].sby /\ fc'[s].queue = fc[s].queue
      \/ /\ at'[w] = "search"
         /\ fc'[s].queue = fc[s].queue \cup
              {Requeued(task[w], "DeblockRows", task[w].sby)}
  BY <1>0, <1>s, DeblockColsEffect
<1>3. /\ ~fc[s].finished /\ fc[s].pic \in 1 .. Number /\ task[w] \in Tasks /\ at[w] = "DeblockCols"
      /\ SliceOK(s) /\ pics[fc[s].pic] \in Pictures /\ Honest(fc[s].pic) /\ setup' = setup
  BY <1>0, <1>1, <1>s, BusyFacts DEF DeblockCols, Busy, RInv, caller
<1>4. /\ IsRow(task[w]) /\ Pass(task[w]) = 0
      /\ ~fc[s].error => fc[s].deblock <= task[w].sby
  <2>1. IsRow(task[w]) /\ Pass(task[w]) = 0
    BY <1>1 DEF IsRow, IsTile, InitTypes, Pass
  <2>2. RowAt(fc[s], Filters(s), at[w], task[w])
    BY <1>1, <1>3, <2>1 DEF SliceOK, FiltOK
  <2> QED
    BY <1>1, <1>3, <2>1, <2>2 DEF RowAt
<1>i. PICK In : In = IF at'[w] = "search" THEN {Requeued(task[w], "DeblockRows", task[w].sby)} ELSE {}
  OBVIOUS
<1>j. fc'[s].queue = fc[s].queue \cup In
  BY <1>2, <1>i
<1>5. \A t \in In : /\ t.type = "DeblockRows" /\ t.recon = 0 /\ t.sby = task[w].sby
                    /\ IsRow(t) /\ Pass(t) = 0
  BY <1>3, <1>i DEF Requeued, Tasks, IsRow, IsTile, InitTypes, Pass
<1>6. RowAct(w, s, In)
  BY <1>1, <1>2, <1>4, <1>5, <1>j DEF RowAct, Apart1
<1>7. TileOK(s)' /\ PastOK(s)' /\ \A p : Before(s, p)' <=> Before(s, p)
  BY <1>0, <1>1, <1>3, <1>6, RowActs
<1>8. FiltOK(s)'
  <2>1. ~fc'[s].finished /\ fc'[s].error = fc[s].error /\ FiltOK(s)
    BY <1>1, <1>3 DEF Apart1, SliceOK
  <2>2. \A t \in fc'[s].queue : t \in fc[s].queue \/ RowQueued(fc'[s], Filters(s), t)
    BY <1>1, <1>4, <1>5, <1>j, <2>1 DEF RowQueued
  <2>3. Busy(w, s)' => RowAt(fc'[s], Filters(s), at'[w], task'[w])
    BY <1>1, <1>2, <1>4, <2>1 DEF RowAt, Busy
  <2> QED
    BY <1>0, <1>1, <2>1, <2>2, <2>3, FiltKept
<1>9. PicOK(s)' /\ Honest(fc[s].pic)'
  <2>1. /\ pics'[fc[s].pic].progress[1] = pics[fc[s].pic].progress[1]
        /\ pics'[fc[s].pic].filtered = pics[fc[s].pic].filtered
    BY <1>1, <1>3 DEF Pictures, Damages
  <2>2. PicOK(s) /\ ~fc'[s].finished
    BY <1>1, <1>3 DEF SliceOK, Apart1
  <2>3. PicOK(s)'
    BY <1>1, <1>7, <2>1, <2>2, PicKept
  <2>4. Honest(fc[s].pic)'
    <3>1. \A n : n = fc[s].pic => Honest(n)'
      BY <1>3, <2>1, HonestKept
    <3> QED
      BY <3>1, <1>1 DEF Honest, Acts, Touch
  <2> QED
    BY <2>3, <2>4
<1> QED
  BY <1>0, <1>1, <1>7, <1>8, <1>9, SliceStep DEF SliceOK

\* A row that is deblocked in rows lets the next one go on, in the same order.
LEMMA DeblockRowsSlice ==
  ASSUME RInv, NEW w \in Workers, DeblockRows(w)
  PROVE  RInv'
<1>0. IInv /\ IInv'
  BY DeblockRowsStep DEF RInv
<1>s. PICK s : s = Slot(w)
  OBVIOUS
<1>1. /\ Acts(w, s) /\ s \in Slots /\ Apart1(s) /\ Busy(w, s)
      /\ task'[w] = task[w] /\ task[w].type \in {"DeblockCols", "DeblockRows"}
      /\ fc'[s].frame = fc[s].frame /\ fc'[s].done = fc[s].done
      /\ pics'[fc[s].pic] = Damages(pics[fc[s].pic], fc[s].error)
  BY <1>0, <1>s, DeblockRowsEffect
<1>2. \/ /\ at'[w] = "Cdef" /\ fc'[s].queue = fc[s].queue
         /\ "deblock" \in Filters(s) /\ fc'[s].copyLpf = fc[s].copyLpf
         /\ fc'[s].deblock = Deblocked(fc[s], task[w].sby)
      \/ /\ at'[w] = "Cdef" /\ fc'[s].queue = fc[s].queue
         /\ "deblock" \notin Filters(s) /\ fc'[s].copyLpf = fc[s].copyLpf \cup {task[w].sby}
         /\ TopSaved(fc[s], task[w].sby) /\ fc'[s].deblock = fc[s].deblock
      \/ /\ at'[w] = "search" /\ task[w].type = "DeblockRows"
         /\ fc'[s].queue = fc[s].queue \cup {Requeued(task[w], "Cdef", 0)}
         /\ "deblock" \notin Filters(s) /\ fc'[s].copyLpf = fc[s].copyLpf \cup {task[w].sby}
         /\ fc'[s].deblock = fc[s].deblock
  BY <1>0, <1>s, DeblockRowsEffect
<1>3. /\ ~fc[s].finished /\ fc[s].pic \in 1 .. Number /\ task[w] \in Tasks /\ at[w] = "DeblockRows"
      /\ SliceOK(s) /\ pics[fc[s].pic] \in Pictures /\ Honest(fc[s].pic) /\ setup' = setup
      /\ setup \in DOMAIN Setups /\ Apart(s) /\ TasksOK(s) /\ task \in [Workers -> Tasks]
      /\ fc[s] \in Frames
  BY <1>0, <1>1, <1>s, BusyFacts DEF DeblockRows, Busy, RInv, caller
<1>4. /\ IsRow(task[w]) /\ Pass(task[w]) = 0
      /\ "deblock" \in Filters(s) /\ ~fc[s].error =>
           fc[s].deblock <= task[w].sby /\ fc[s].deblock >= task[w].sby
  <2>1. IsRow(task[w]) /\ Pass(task[w]) = 0
    BY <1>1 DEF IsRow, IsTile, InitTypes, Pass
  <2>2. RowAt(fc[s], Filters(s), at[w], task[w])
    BY <1>1, <1>3, <2>1 DEF SliceOK, FiltOK
  <2> QED
    BY <1>1, <1>3, <2>1, <2>2 DEF RowAt
<1>i. PICK In : In = IF at'[w] = "search" THEN {Requeued(task[w], "Cdef", 0)} ELSE {}
  OBVIOUS
<1>j. fc'[s].queue = fc[s].queue \cup In
  BY <1>2, <1>i
<1>5. \A t \in In : /\ t.type = "Cdef" /\ t.recon = 0 /\ t.sby = task[w].sby
                    /\ IsRow(t) /\ Pass(t) = 0
  BY <1>3, <1>i DEF Requeued, Tasks, IsRow, IsTile, InitTypes, Pass
<1>6. RowAct(w, s, In)
  BY <1>1, <1>2, <1>4, <1>5, <1>j DEF RowAct, Apart1
<1>7. TileOK(s)' /\ PastOK(s)' /\ \A p : Before(s, p)' <=> Before(s, p)
  BY <1>0, <1>1, <1>3, <1>6, RowActs
<1>8. FiltOK(s)'
  <2>1. ~fc'[s].finished /\ fc'[s].error = fc[s].error /\ FiltOK(s)
    BY <1>1, <1>3 DEF Apart1, SliceOK
  <2>2. CASE "deblock" \notin Filters(s)
    <3>1. /\ fc'[s].deblock = fc[s].deblock /\ fc'[s].copyLpf = fc[s].copyLpf \cup {task[w].sby}
          /\ at'[w] # "search" => TopSaved(fc[s], task[w].sby) /\ at'[w] = "Cdef"
      BY <1>2, <2>2
    <3>2. \A t \in fc'[s].queue : t \in fc[s].queue \/ RowQueued(fc'[s], Filters(s), t)
      BY <1>5, <1>j, <2>2, <3>1 DEF RowQueued
    <3>3. Busy(w, s)' => RowAt(fc'[s], Filters(s), at'[w], task'[w])
      <4>1. TopSaved(fc[s], task[w].sby) => TopsSaved(fc'[s], task[w].sby)
        <5>1. task[w].sby \in Int /\ (task[w].sby = 0 => task[w].sby - 1 \notin Rows)
          BY <1>3, SetupFacts DEF Tasks, Rows
        <5> QED
          BY <3>1, <5>1 DEF TopSaved, TopsSaved
      <4> QED
        BY <1>1, <2>2, <3>1, <4>1 DEF RowAt, Busy
    <3> QED
      BY <1>0, <1>1, <2>1, <3>1, <3>2, <3>3, FiltKept
  <2>3. CASE "deblock" \in Filters(s) /\ fc[s].error
    <3>1. fc'[s].queue = fc[s].queue /\ fc'[s].copyLpf = fc[s].copyLpf /\ at'[w] = "Cdef"
      BY <1>2, <2>3
    <3>2. Filters(s)' = Filters(s) /\ Rows' = Rows /\ Touch(w, s)
      BY <1>1, <1>3, SameSetup, TouchFacts DEF Acts
    <3>3. \A t : (IsRow(t)' <=> IsRow(t)) /\ Pass(t)' = Pass(t)
      BY DEF IsRow, IsTile, InitTypes, Pass
    <3>4. \A t : RowQueued(fc[s], Filters(s), t) => RowQueued(fc[s], Filters(s), t)'
      BY <2>1, <2>3, <3>1, <3>2 DEF RowQueued
    <3>5. \A v \in Workers : RowAt(fc[s], Filters(s), at[v], task[v])'
      BY <2>1, <2>3, <3>2 DEF RowAt
    <3> QED
      BY <2>1, <3>1, <3>2, <3>3, <3>4, <3>5 DEF FiltOK
  <2>4. CASE "deblock" \in Filters(s) /\ ~fc[s].error
    <3>1. /\ fc'[s].queue = fc[s].queue /\ fc'[s].copyLpf = fc[s].copyLpf /\ at'[w] = "Cdef"
          /\ fc'[s].deblock = task[w].sby + 1
      BY <1>2, <2>4 DEF Deblocked
    <3>2. Filters(s)' = Filters(s) /\ Rows' = Rows /\ Touch(w, s)
      BY <1>1, <1>3, SameSetup, TouchFacts DEF Acts
    <3>3. \A t : (IsRow(t)' <=> IsRow(t)) /\ Pass(t)' = Pass(t)
      BY DEF IsRow, IsTile, InitTypes, Pass
    <3>4. task[w].sby \in Int /\ fc[s].deblock \in Int /\ fc[s].deblock = task[w].sby
      <4>1. Sbh \in Nat /\ TILE_ERROR \in Nat
        BY <1>3, SetupFacts DEF TILE_ERROR
      <4>2. fc[s].deblock \in 0 .. TILE_ERROR /\ task[w].sby \in Rows
        BY <1>3 DEF Frames, Tasks
      <4>3. task[w].sby \in Int /\ fc[s].deblock \in Int
        BY <4>1, <4>2 DEF Rows
      <4> QED
        BY <1>4, <2>4, <4>3
    <3>5. Mine(w, s) = {<<0, "row", task[w].sby>>}
      BY <1>1, <1>3, <1>4, MineFacts DEF IsRow
    <3>6. ASSUME NEW t \in fc'[s].queue, IsRow(t), Pass(t) = 0
          PROVE  RowQueued(fc[s], Filters(s), t)'
      <4>1. t \in Tasks /\ TaskOK(t, Filters(s)) /\ t \in fc[s].queue
        BY <1>3, <3>1, <3>6 DEF TasksOK, Frames
      <4>2. <<0, "row", t.sby>> \in Units(t)
        BY <1>3, <4>1, <3>6, UnitsFacts DEF IsRow
      <4>3. t.sby # task[w].sby
        BY <1>3, <3>5, <4>1, <4>2 DEF Apart
      <4>4. RowQueued(fc[s], Filters(s), t)
        BY <2>1, <3>6, <4>1 DEF FiltOK
      <4>5. t.sby \in Int
        BY <1>3, <4>1, SetupFacts DEF Tasks, Rows
      <4> QED
        BY <2>1, <2>4, <3>1, <3>2, <3>4, <4>3, <4>4, <4>5 DEF RowQueued
    <3>7. ASSUME NEW v \in Workers, Busy(v, s)', IsRow(task'[v]), Pass(task'[v]) = 0
          PROVE  RowAt(fc[s], Filters(s), at[v], task[v])'
      <4>1. CASE v = w
        BY <1>1, <2>4, <3>1, <3>2, <3>4, <4>1 DEF RowAt
      <4>2. CASE v # w
        <5>1. Busy(v, s) /\ task'[v] = task[v] /\ at'[v] = at[v]
          BY <4>2, <1>1, <3>2, <3>7, TouchFacts DEF Touch
        <5>2. RowAt(fc[s], Filters(s), at[v], task[v])
          BY <2>1, <5>1, <3>7 DEF FiltOK
        <5>3. <<0, "row", task[v].sby>> \in Mine(v, s)
          BY <1>3, <5>1, <3>7, MineFacts DEF IsRow
        <5>4. task[v].sby # task[w].sby
          BY <1>3, <3>5, <4>2, <5>3 DEF Apart
        <5>5. task[v].sby \in Int
          BY <1>3, SetupFacts DEF Tasks, Rows
        <5> QED
          BY <2>1, <2>4, <3>1, <3>2, <3>4, <5>1, <5>2, <5>4, <5>5 DEF RowAt
      <4> QED
        BY <4>1, <4>2
    <3> QED
      BY <3>3, <3>6, <3>7 DEF FiltOK
  <2> QED
    BY <2>2, <2>3, <2>4
<1>9. PicOK(s)' /\ Honest(fc[s].pic)'
  <2>1. /\ pics'[fc[s].pic].progress[1] = pics[fc[s].pic].progress[1]
        /\ pics'[fc[s].pic].filtered = pics[fc[s].pic].filtered
    BY <1>1, <1>3 DEF Pictures, Damages
  <2>2. PicOK(s) /\ ~fc'[s].finished
    BY <1>1, <1>3 DEF SliceOK, Apart1
  <2>3. PicOK(s)'
    BY <1>1, <1>7, <2>1, <2>2, PicKept
  <2>4. Honest(fc[s].pic)'
    <3>1. \A n : n = fc[s].pic => Honest(n)'
      BY <1>3, <2>1, HonestKept
    <3> QED
      BY <3>1, <1>1 DEF Honest, Acts, Touch
  <2> QED
    BY <2>3, <2>4
<1> QED
  BY <1>0, <1>1, <1>7, <1>8, <1>9, SliceStep DEF SliceOK

\* A row that is filtered lies behind the tiles that it needs, like every row of the
\* frame before it: the worker that has run FinishRow disturbs nothing of RInv.
LEMMA FinishRowSlice ==
  ASSUME RInv, NEW w \in Workers, FinishRow(w)
  PROVE  RInv'
<1>0. IInv /\ IInv'
  BY FinishRowStep DEF RInv
<1>s. PICK s : s = Slot(w)
  OBVIOUS
<1>1. /\ Acts(w, s) /\ s \in Slots /\ Apart1(s) /\ Busy(w, s)
      /\ task'[w] = task[w] /\ IsRow(task[w]) /\ Pass(task[w]) = 0 /\ at'[w] = "publish"
      /\ fc'[s].queue = fc[s].queue
      /\ fc'[s].deblock = fc[s].deblock /\ fc'[s].copyLpf = fc[s].copyLpf
      /\ fc'[s].frame = fc[s].frame \cup {task[w].sby} /\ fc'[s].done = fc[s].done
      /\ pics'[fc[s].pic] =
           Finishes(pics[fc[s].pic], task[w].sby, at[w] = "Cdef" /\ fc[s].error)
  BY <1>0, <1>s, FinishRowEffect
<1>3. /\ ~fc[s].finished /\ fc[s].pic \in 1 .. Number
      /\ SliceOK(s) /\ pics[fc[s].pic] \in Pictures /\ Honest(fc[s].pic) /\ setup' = setup
      /\ Unfinished(s)
  BY <1>0, <1>1, <1>s, BusyFacts DEF FinishRow, Busy, RInv, caller
<1>6. RowAct(w, s, {})
  BY <1>1 DEF RowAct, Apart1
<1>7. TileOK(s)' /\ PastOK(s)' /\ \A p : Before(s, p)' <=> Before(s, p)
  BY <1>0, <1>1, <1>3, <1>6, RowActs
<1>8. FiltOK(s)'
  <2>1. ~fc'[s].finished /\ FiltOK(s)
    BY <1>1, <1>3 DEF Apart1, SliceOK
  <2>2. RowAt(fc'[s], Filters(s), at'[w], task'[w])
    BY <1>1 DEF RowAt
  <2> QED
    BY <1>0, <1>1, <2>1, <2>2, FiltKept
<1>9. PicOK(s)' /\ Honest(fc[s].pic)'
  <2>1. /\ pics'[fc[s].pic].progress = pics[fc[s].pic].progress
        /\ pics'[fc[s].pic].filtered = pics[fc[s].pic].filtered \cup {task[w].sby}
    BY <1>1, <1>3 DEF Pictures, Finishes
  <2>2. PicOK(s) /\ ~fc'[s].finished /\ fc'[s].error = fc[s].error /\ fc'[s].pic = fc[s].pic
    BY <1>1, <1>3 DEF SliceOK, Apart1, Acts, Touch
  <2>3. ~Before(s, 0)
    BY <1>0, <1>1, <1>3, HolderBegun DEF IsRow
  <2>4. /\ Rows' = Rows /\ TwoPass' = TwoPass /\ FRAME_ERROR' = FRAME_ERROR /\ AllRows' = AllRows
    BY <1>3, SameSetup
  <2>5. PicOK(s)'
    BY <1>1, <1>7, <2>1, <2>2, <2>3, <2>4 DEF PicOK
  <2>6. Honest(fc[s].pic)'
    <3>1. \A n : n = fc[s].pic => Honest(n)'
      BY <1>3, <2>1, HonestKept
    <3> QED
      BY <3>1, <2>2 DEF Honest
  <2> QED
    BY <2>5, <2>6
<1> QED
  BY <1>0, <1>1, <1>7, <1>8, <1>9, SliceStep DEF SliceOK

\* The rows that a worker shows are in the frame.
LEMMA PublishRowsSlice ==
  ASSUME RInv, NEW w \in Workers, PublishRows(w)
  PROVE  RInv'
<1>0. IInv /\ IInv'
  BY PublishRowsStep DEF RInv
<1>s. PICK s : s = Slot(w)
  OBVIOUS
<1>1. /\ Acts(w, s) /\ s \in Slots /\ Apart1(s) /\ Busy(w, s)
      /\ task'[w] = task[w] /\ IsRow(task[w]) /\ Pass(task[w]) = 0
      /\ at[w] = "publish" /\ at'[w] = "count"
      /\ fc'[s].queue = fc[s].queue
      /\ fc'[s].deblock = fc[s].deblock /\ fc'[s].copyLpf = fc[s].copyLpf
      /\ fc'[s].frame = fc[s].frame /\ FinishedRows(w) \in 0 .. Sbh
  BY <1>0, <1>s, PublishRowsEffect
<1>2. /\ fc'[s].done = [fc[s].done EXCEPT ![0] = fc[s].done[0] \/ FinishedRows(w) = Sbh]
      /\ pics'[fc[s].pic] = Shows(pics[fc[s].pic], 1,
           IF ~TwoPass THEN pics[fc[s].pic].progress[1] ELSE IF fc[s].error THEN FRAME_ERROR
           ELSE IF FinishedRows(w) = Sbh THEN AllRows ELSE FinishedRows(w))
  BY <1>0, <1>s, PublishRowsEffect
<1>3. /\ ~fc[s].finished /\ fc[s].pic \in 1 .. Number /\ fc[s] \in Frames
      /\ SliceOK(s) /\ pics[fc[s].pic] \in Pictures /\ Honest(fc[s].pic) /\ setup' = setup
      /\ Unfinished(s) /\ setup \in DOMAIN Setups
  BY <1>0, <1>1, <1>s, BusyFacts DEF PublishRows, Busy, RInv, caller
<1>6. RowAct(w, s, {})
  BY <1>1 DEF RowAct, Apart1
<1>7. TileOK(s)' /\ PastOK(s)' /\ \A p : Before(s, p)' <=> Before(s, p)
  BY <1>0, <1>1, <1>3, <1>6, RowActs
<1>8. FiltOK(s)'
  <2>1. ~fc'[s].finished /\ FiltOK(s)
    BY <1>1, <1>3 DEF Apart1, SliceOK
  <2>2. RowAt(fc'[s], Filters(s), at'[w], task'[w])
    BY <1>1 DEF RowAt
  <2> QED
    BY <1>0, <1>1, <2>1, <2>2, FiltKept
<1>9. PicOK(s)' /\ Honest(fc[s].pic)'
  <2>n. PICK n : n = FinishedRows(w)
    OBVIOUS
  <2>k. PICK k : k = IF ~TwoPass THEN pics[fc[s].pic].progress[1] ELSE IF fc[s].error THEN FRAME_ERROR
                     ELSE IF n = Sbh THEN AllRows ELSE n
    OBVIOUS
  <2>1. /\ pics'[fc[s].pic].progress[1] = k
        /\ pics'[fc[s].pic].filtered = pics[fc[s].pic].filtered
        /\ pics[fc[s].pic].progress[1] \in 0 .. TILE_ERROR
    BY <1>2, <1>3, <2>n, <2>k DEF Pictures, Progress, Shows
  <2>2. PicOK(s) /\ ~fc'[s].finished /\ fc'[s].error = fc[s].error /\ fc'[s].pic = fc[s].pic
    BY <1>1, <1>3 DEF SliceOK, Apart1, Acts, Touch
  <2>3. ~Before(s, 0)
    BY <1>0, <1>1, <1>3, HolderBegun DEF IsRow
  <2>4. /\ Rows' = Rows /\ TwoPass' = TwoPass /\ FRAME_ERROR' = FRAME_ERROR /\ AllRows' = AllRows
        /\ Sbh' = Sbh
    BY <1>3, SameSetup
  <2>5. fc'[s].done[0] = (fc[s].done[0] \/ n = Sbh)
    BY <1>2, <1>3, <2>n DEF Frames
  <2>6. /\ Sbh \in Nat /\ n \in 0 .. Sbh /\ FRAME_ERROR = Sbh /\ AllRows = Sbh + 1
        /\ pics[fc[s].pic].progress[1] \in Int
    <3>1. Sbh \in Nat /\ TILE_ERROR = Sbh + 1
      BY <1>3, SetupFacts DEF TILE_ERROR
    <3> QED
      BY <1>1, <2>1, <2>n, <3>1 DEF FRAME_ERROR, AllRows
  <2>7. fc[s].frame \subseteq Rows /\ fc[s].frame = pics[fc[s].pic].filtered
    BY <1>3, <2>2, <2>3 DEF PicOK, Frames
  <2>8. ~fc[s].error => /\ n = Sbh => Rows \subseteq fc[s].frame
                        /\ n # Sbh => 0 .. n - 1 \subseteq fc[s].frame /\ ~fc[s].done[0]
    <3>1. /\ FromTop(fc[s].frame) \in 0 .. Sbh
          /\ \A r \in 0 .. FromTop(fc[s].frame) - 1 : r \in fc[s].frame
          /\ Rows \subseteq fc[s].frame <=> FromTop(fc[s].frame) = Sbh
      BY <1>3, <2>7, FromTopFacts
    <3>2. CASE TwoPass /\ pics[fc[s].pic].progress[1] >= FRAME_ERROR /\ ~fc[s].error
      <4>1. pics[fc[s].pic].progress[1] = AllRows
        <5>1. pics[fc[s].pic].progress[1] # FRAME_ERROR
          BY <2>2, <3>2 DEF PicOK
        <5>2. pics[fc[s].pic].progress[1] <= Sbh + 1
          BY <2>1, <2>6 DEF TILE_ERROR
        <5> QED
          BY <2>6, <3>2, <5>1, <5>2
      <4>2. 0 .. Sbh - 1 \subseteq pics[fc[s].pic].filtered
        BY <1>3, <2>6, <4>1 DEF Honest
      <4>3. n = Sbh
        BY <1>3, <2>n, <3>2, <1>s DEF FinishedRows, Picture, Frame
      <4> QED
        BY <2>7, <4>2, <4>3 DEF Rows
    <3>3. CASE ~(TwoPass /\ pics[fc[s].pic].progress[1] >= FRAME_ERROR) /\ ~fc[s].error
      <4>1. n = FromTop(fc[s].frame)
        BY <2>n, <3>3, <1>s DEF FinishedRows, Picture, Frame
      <4>2. fc[s].done[0] => Rows \subseteq fc[s].frame
        BY <2>2, <2>3, <3>3 DEF PicOK
      <4> QED
        BY <3>1, <4>1, <4>2
    <3> QED
      BY <3>2, <3>3
  <2>9. PicOK(s)'
    <3>1. fc'[s].done[0] /\ ~fc'[s].error => Rows \subseteq fc'[s].frame /\ (TwoPass => k = AllRows)
      BY <1>1, <2>2, <2>5, <2>8, <2>k
    <3>2. k = FRAME_ERROR => fc'[s].error
      BY <2>2, <2>6, <2>k DEF PicOK
    <3> QED
      BY <1>1, <1>7, <2>1, <2>2, <2>3, <2>4, <2>7, <3>1, <3>2 DEF PicOK
  <2>10. Honest(fc[s].pic)'
    <3>1. k # FRAME_ERROR => 0 .. (IF k = AllRows THEN Sbh ELSE k) - 1 \subseteq pics[fc[s].pic].filtered
      <4>1. CASE ~TwoPass
        BY <1>3, <2>k, <4>1 DEF Honest
      <4>2. CASE TwoPass
        BY <2>6, <2>7, <2>8, <2>k, <4>2 DEF Rows
      <4> QED
        BY <4>1, <4>2
    <3> QED
      BY <2>1, <2>2, <2>4, <3>1 DEF Honest
  <2> QED
    BY <2>9, <2>10
<1> QED
  BY <1>0, <1>1, <1>7, <1>8, <1>9, SliceStep DEF SliceOK

\* The entropy progress of a frame is not what its filters or pictures look at.
LEMMA EntropyProgressSlice ==
  ASSUME RInv, NEW w \in Workers, EntropyProgress(w)
  PROVE  RInv'
<1>0. IInv /\ IInv'
  BY EntropyProgressStep DEF RInv
<1>s. PICK s : s = Slot(w)
  OBVIOUS
<1>1. /\ Acts(w, s) /\ s \in Slots /\ Apart1(s) /\ Busy(w, s)
      /\ task'[w] = task[w] /\ IsRow(task[w]) /\ Pass(task[w]) = 1
      /\ at'[w] = "count" /\ fc'[s].queue = fc[s].queue
      /\ fc'[s].deblock = fc[s].deblock /\ fc'[s].copyLpf = fc[s].copyLpf
      /\ fc'[s].frame = fc[s].frame /\ fc'[s].done[0] = fc[s].done[0]
      /\ pics'[fc[s].pic] = Shows(pics[fc[s].pic], 0,
           IF fc[s].error THEN FRAME_ERROR
           ELSE IF task[w].sby + 1 = Sbh THEN AllRows ELSE task[w].sby + 1)
  BY <1>0, <1>s, EntropyProgressEffect
<1>3. /\ ~fc[s].finished /\ fc[s].pic \in 1 .. Number
      /\ SliceOK(s) /\ pics[fc[s].pic] \in Pictures /\ Honest(fc[s].pic) /\ setup' = setup
      /\ Unfinished(s)
  BY <1>0, <1>1, <1>s, BusyFacts DEF EntropyProgress, Busy, RInv, caller
<1>6. RowAct(w, s, {})
  BY <1>1 DEF RowAct, Apart1
<1>7. TileOK(s)' /\ PastOK(s)' /\ \A p : Before(s, p)' <=> Before(s, p)
  BY <1>0, <1>1, <1>3, <1>6, RowActs
<1>8. FiltOK(s)'
  <2>1. ~fc'[s].finished /\ FiltOK(s)
    BY <1>1, <1>3 DEF Apart1, SliceOK
  <2> QED
    BY <1>0, <1>1, <2>1, FiltKept
<1>9. PicOK(s)' /\ Honest(fc[s].pic)'
  <2>1. /\ pics'[fc[s].pic].progress[1] = pics[fc[s].pic].progress[1]
        /\ pics'[fc[s].pic].filtered = pics[fc[s].pic].filtered
    BY <1>1, <1>3 DEF Pictures, Progress, Shows
  <2>2. PicOK(s) /\ ~fc'[s].finished /\ fc'[s].pic = fc[s].pic
    BY <1>1, <1>3 DEF SliceOK, Apart1, Acts, Touch
  <2>3. PicOK(s)'
    BY <1>1, <1>7, <2>1, <2>2, PicKept
  <2>4. Honest(fc[s].pic)'
    <3>1. \A n : n = fc[s].pic => Honest(n)'
      BY <1>3, <2>1, HonestKept
    <3> QED
      BY <3>1, <2>2 DEF Honest
  <2> QED
    BY <2>3, <2>4
<1> QED
  BY <1>0, <1>1, <1>7, <1>8, <1>9, SliceStep DEF SliceOK

----------------------------------------------------------------------------
(* The end of a task *)

\* The counter of a frame that is not left is not 0.
LEMMA Counting ==
  ASSUME IInv, NEW s \in Slots, Unfinished(s)
  PROVE  fc[s].counter - 1 \in Nat
<1>1. /\ setup \in DOMAIN Setups /\ fc \in [Slots -> Frames] /\ task \in [Workers -> Tasks]
      /\ TasksOK(s) /\ fc[s].counter = Cardinality(ToDo(s)) /\ ToDo(s) # {}
  BY DEF IInv, TypeOK, Unfinished, FrameOK
<1>2. IsFiniteSet(ToDo(s))
  BY <1>1, ToDoFacts
<1>3. Cardinality(ToDo(s)) \in Nat /\ Cardinality(ToDo(s)) # 0
  BY <1>1, <1>2, FS_CardinalityType, FS_EmptySet
<1> QED
  BY <1>1, <1>3

\* A worker counts its task, with its frame f and its picture p.
Counts(w, s, f, p) ==
  /\ at[w] \in {"tileDone", "tileFailed", "count"} /\ s = Slot(w)
  /\ f \in Frames /\ p \in Pictures /\ Like(fc[s], f) /\ p.filters = Filters(s)
  /\ (fc[s].error => f.error) /\ CountTask(w, f, p) /\ UNCHANGED <<task, caller>>

\* What a task does that is not the last one ...
Goes(s, f, p) ==
  /\ fc'[s] = [f EXCEPT !.counter = @ - 1] /\ ~fc'[s].finished
  /\ fc'[s].queue = fc[s].queue /\ fc'[s].frame = fc[s].frame /\ fc'[s].done = fc[s].done
  /\ fc'[s].nextTileRow = fc[s].nextTileRow /\ fc'[s].tileProgress = f.tileProgress
  /\ fc'[s].error = f.error /\ fc'[s].deblock = f.deblock /\ fc'[s].copyLpf = f.copyLpf
  /\ fc'[s].entropy = f.entropy /\ pics'[fc[s].pic] = p

\* ... and what the last one does.
Leaves(s, f, p) ==
  /\ fc'[s].finished /\ fc[s].done[0] /\ (TwoPass => fc[s].done[1]) /\ fc[s].counter = 1
  /\ \E g \in Frames : /\ g = [f EXCEPT !.counter = @ - 1]
                       /\ fc'[s] = Left(g, f.error)
                       /\ pics'[fc[s].pic] = LeftPic(g, p, f.error)

\* The counter decides whether the frame is left.
LEMMA CountedEffect ==
  ASSUME IInv, NEW w \in Workers, NEW s, NEW f, NEW p, Counts(w, s, f, p)
  PROVE  /\ Acts(w, s) /\ s \in Slots /\ Busy(w, s) /\ at'[w] = "search" /\ task'[w] = task[w]
         /\ Goes(s, f, p) \/ Leaves(s, f, p)
<1>0. /\ at[w] \in {"tileDone", "tileFailed", "count"} /\ s = Slot(w)
      /\ f \in Frames /\ p \in Pictures /\ Like(fc[s], f) /\ p.filters = Filters(s)
      /\ (fc[s].error => f.error) /\ CountTask(w, f, p) /\ UNCHANGED <<task, caller>>
  BY DEF Counts
<1>1. /\ s \in Slots /\ Busy(w, s) /\ fc[s] \in Frames /\ Unfinished(s) /\ Frame(w) = fc[s]
      /\ setup \in DOMAIN Setups /\ task[w] \in Tasks /\ ~fc[s].finished
      /\ [task EXCEPT ![w] = task[w]] = task
  BY <1>0, Now DEF Unfinished
<1>2. fc[s].counter - 1 \in Nat
  BY <1>1, Counting
<1>g. PICK g : g = [f EXCEPT !.counter = @ - 1]
  OBVIOUS
<1>h. PICK h : h = IF Complete(g) THEN Left(g, ExitError(g)) ELSE g
  OBVIOUS
<1>q. PICK q : q = IF Complete(g) THEN LeftPic(g, p, ExitError(g)) ELSE p
  OBVIOUS
<1>3. /\ f.counter = fc[s].counter /\ f.queue = fc[s].queue /\ f.frame = fc[s].frame
      /\ f.done = fc[s].done /\ f.nextTileRow = fc[s].nextTileRow /\ f.pic = fc[s].pic
      /\ ~f.finished
  BY <1>0, <1>1 DEF Like
<1>4. /\ g \in Frames /\ g.counter = fc[s].counter - 1 /\ g.queue = f.queue /\ g.frame = f.frame
      /\ g.done = f.done /\ g.nextTileRow = f.nextTileRow /\ ~g.finished
      /\ g.pic = f.pic /\ g.error = f.error /\ g.error \in BOOLEAN
      /\ g.tileProgress = f.tileProgress /\ g.deblock = f.deblock /\ g.copyLpf = f.copyLpf
      /\ g.entropy = f.entropy
  BY <1>0, <1>2, <1>3, <1>g DEF Frames
<1>5. /\ h \in Frames /\ h.pic = f.pic /\ (Complete(g) => h.finished) /\ (~Complete(g) => h = g)
  BY <1>4, <1>h, LeftTypes DEF ExitError
<1>6. q \in Pictures /\ q.filters = p.filters
  BY <1>0, <1>1, <1>4, <1>q, LeftPicTypes DEF ExitError
<1>7. StepTo(w, "search", task[w], h, q)
  BY <1>0, <1>1, <1>3, <1>4, <1>g, <1>h, <1>q DEF CountTask, Goto, StepTo
<1>8. Keeps(fc[s], h)
  BY <1>0, <1>4, <1>5 DEF Keeps
<1>9. Does(w, s, "search", task[w], h, q)
  BY <1>0, <1>1, <1>3, <1>5, <1>6, <1>7, <1>8 DEF Does, Places
<1>10. Acts(w, s) /\ fc'[s] = h /\ at'[w] = "search" /\ task'[w] = task[w] /\ pics'[fc[s].pic] = q
  BY <1>9, Doing
<1>11. CASE Complete(g)
  <2>1. fc'[s].finished /\ fc'[s] = Left(g, f.error) /\ pics'[fc[s].pic] = LeftPic(g, p, f.error)
    BY <1>4, <1>5, <1>10, <1>11, <1>h, <1>q DEF ExitError
  <2>2. fc[s].done[0] /\ (TwoPass => fc[s].done[1]) /\ fc[s].counter = 1
    <3>1. g.counter = 0 /\ g.done[0] /\ (TwoPass => g.done[1])
      BY <1>11 DEF Complete
    <3>2. fc[s].counter \in Nat /\ fc[s].counter - 1 = 0
      BY <1>1, <1>4, <3>1 DEF Frames
    <3>3. fc[s].counter = 1
      BY <3>2
    <3> QED
      BY <1>3, <1>4, <3>1, <3>3
  <2>3. Leaves(s, f, p)
    BY <1>4, <1>g, <2>1, <2>2 DEF Leaves
  <2> QED
    BY <1>1, <1>10, <2>3
<1>12. CASE ~Complete(g)
  <2>1. fc'[s] = g /\ pics'[fc[s].pic] = p
    BY <1>5, <1>10, <1>12, <1>q
  <2>2. Goes(s, f, p)
    BY <1>3, <1>4, <1>g, <2>1 DEF Goes
  <2> QED
    BY <1>1, <1>10, <2>2
<1> QED
  BY <1>11, <1>12

\* A frame that is left keeps the rows that its picture shows.
LEMMA LeftHonest ==
  ASSUME setup' = setup, NEW n, Honest(n), NEW f, NEW p \in Pictures, NEW fail,
         p.progress[1] \in {pics[n].progress[1], FRAME_ERROR}, p.filtered = pics[n].filtered,
         pics'[n] = LeftPic(f, p, fail)
  PROVE  Honest(n)'
<1>1. LeftPic(f, p, fail).filtered = p.filtered
  BY DEF LeftPic, Pictures
<1>2. LeftPic(f, p, fail).progress[1] \in {p.progress[1], FRAME_ERROR}
  BY DEF LeftPic, Pictures, Progress
<1> QED
  BY <1>1, <1>2, HonestKept

\* A worker at the end of its row leaves the rows of the frame as they are.
LEMMA EndRowSlice ==
  ASSUME RInv, NEW w \in Workers, EndRow(w)
  PROVE  RInv'
<1>0. IInv /\ IInv'
  BY EndRowStep DEF RInv
<1>s. PICK s : s = Slot(w)
  OBVIOUS
<1>1. at[w] = "count" /\ CountTask(w, Frame(w), Picture(w)) /\ UNCHANGED <<task, caller>>
  BY DEF EndRow
<1>2. /\ s \in Slots /\ fc[s] \in Frames /\ Frame(w) = fc[s] /\ Busy(w, s) /\ ~fc[s].finished
      /\ Picture(w) \in Pictures /\ Picture(w).filters = Filters(s) /\ PlaceOK(at[w], task[w].type)
  BY <1>0, <1>1, <1>s, Now
<1>3. Counts(w, s, fc[s], Picture(w))
  BY <1>1, <1>2, <1>s DEF Counts, Like
<1>4. /\ Acts(w, s) /\ at'[w] = "search" /\ task'[w] = task[w]
      /\ Goes(s, fc[s], Picture(w)) \/ Leaves(s, fc[s], Picture(w))
  BY <1>0, <1>3, CountedEffect
<1>5. /\ Picture(w) = pics[fc[s].pic] /\ SliceOK(s) /\ fc[s].pic \in 1 .. Number /\ setup' = setup
      /\ Honest(fc[s].pic) /\ fc'[s].pic = fc[s].pic
  BY <1>0, <1>1, <1>2, <1>4 DEF Picture, RInv, Unfinished, IInv, FrameOK, Acts, Touch
<1>6. IsRow(task[w])
  BY <1>1, <1>2 DEF PlaceOK, IsRow, IsTile, InitTypes
<1>7. CASE Goes(s, fc[s], Picture(w))
  <2>1. /\ ~fc'[s].finished /\ fc'[s].queue = fc[s].queue /\ fc'[s].frame = fc[s].frame
        /\ fc'[s].done = fc[s].done /\ fc'[s].tileProgress = fc[s].tileProgress
        /\ fc'[s].deblock = fc[s].deblock /\ fc'[s].copyLpf = fc[s].copyLpf
        /\ pics'[fc[s].pic] = pics[fc[s].pic]
    BY <1>5, <1>7 DEF Goes
  <2>2. RowAct(w, s, {})
    BY <1>2, <1>4, <1>6, <2>1 DEF RowAct
  <2>3. TileOK(s)' /\ PastOK(s)' /\ \A p : Before(s, p)' <=> Before(s, p)
    BY <1>0, <1>2, <1>5, <2>2, RowActs
  <2>4. FiltOK(s)'
    <3>1. ~Busy(w, s)' /\ FiltOK(s)
      BY <1>4, <1>5 DEF Busy, SliceOK
    <3> QED
      BY <1>0, <1>2, <1>4, <2>1, <3>1, FiltKept
  <2>5. PicOK(s)'
    <3>1. PicOK(s)
      BY <1>5 DEF SliceOK
    <3> QED
      BY <1>2, <1>4, <2>1, <2>3, <3>1, PicKept
  <2>6. Honest(fc[s].pic)'
    <3>1. \A n : n = fc[s].pic => Honest(n)'
      BY <1>5, <2>1, HonestKept
    <3> QED
      BY <3>1, <1>5 DEF Honest
  <2> QED
    BY <1>0, <1>2, <1>4, <2>3, <2>4, <2>5, <2>6, SliceStep DEF SliceOK
<1>8. CASE Leaves(s, fc[s], Picture(w))
  <2>1. PICK g : fc'[s].finished /\ pics'[fc[s].pic] = LeftPic(g, Picture(w), fc[s].error)
    BY <1>8 DEF Leaves
  <2>2. Honest(fc[s].pic)'
    <3>1. \A n : n = fc[s].pic => Honest(n)'
      BY <1>2, <1>5, <2>1, LeftHonest
    <3> QED
      BY <3>1, <1>5 DEF Honest
  <2> QED
    BY <1>0, <1>2, <1>4, <2>1, <2>2, SliceStep
<1> QED
  BY <1>4, <1>7, <1>8

----------------------------------------------------------------------------
(* The tiles *)

\* A worker that has decoded a row of a tile, or failed to, says so; then it goes
\* on with the next row, leaves it in the queue, or is done with the tile.
TileAct(w, s, In) ==
  /\ Acts(w, s) /\ ~fc'[s].finished /\ Busy(w, s) /\ IsTile(task[w])
  /\ at[w] \in {"tileDone", "tileFailed"} /\ at'[w] \in {"search", "start"}
  /\ fc'[s].tileProgress =
       [fc[s].tileProgress EXCEPT ![Pass(task[w])][task[w].tile] = TileProgress(w)]
  /\ fc'[s].queue = fc[s].queue \cup In
  /\ fc'[s].frame = fc[s].frame /\ fc'[s].done = fc[s].done
  /\ fc'[s].deblock = fc[s].deblock /\ fc'[s].copyLpf = fc[s].copyLpf
  /\ \A t \in In \cup (IF at'[w] = "search" THEN {} ELSE {task'[w]}) :
       t.type = task[w].type /\ t.tile = task[w].tile /\ t.sby = task[w].sby + 1
  /\ pics'[fc[s].pic].progress[1] = pics[fc[s].pic].progress[1]
  /\ pics'[fc[s].pic].filtered = pics[fc[s].pic].filtered

\* What its progress is.
LEMMA TileMoves ==
  ASSUME IInv, NEW s \in Slots, NEW w \in Workers, TileOK(s), NEW In, TileAct(w, s, In)
  PROVE  /\ \A p \in {0, 1} : \A i \in Tiles : p # Pass(task[w]) \/ i # task[w].tile =>
              fc'[s].tileProgress[p][i] = fc[s].tileProgress[p][i]
         /\ fc'[s].tileProgress[Pass(task[w])][task[w].tile] = TileProgress(w)
         /\ TileProgress(w) \in {task[w].sby + 1, TILE_ERROR}
         /\ at[w] = "tileDone" => TileProgress(w) = task[w].sby + 1
         /\ Grows(s) /\ task[w].sby + 1 # TILE_ERROR
<1>1. /\ Busy(w, s) /\ IsTile(task[w]) /\ at[w] \in {"tileDone", "tileFailed"}
      /\ fc'[s].tileProgress =
           [fc[s].tileProgress EXCEPT ![Pass(task[w])][task[w].tile] = TileProgress(w)]
  BY DEF TileAct
<1>2. /\ setup \in DOMAIN Setups /\ fc[s] \in Frames /\ task[w] \in Tasks
  BY DEF IInv, TypeOK
<1>p. PICK p : p = Pass(task[w])
  OBVIOUS
<1>i. PICK i : i = task[w].tile
  OBVIOUS
<1>3. p \in {0, 1} /\ i \in Tiles
  BY <1>2, <1>p, <1>i DEF Pass, Tasks
<1>4. fc[s].tileProgress \in [{0, 1} -> [Tiles -> 0 .. TILE_ERROR]]
  BY <1>2 DEF Frames
<1>5. /\ \A q \in {0, 1} : \A j \in Tiles : q # p \/ j # i =>
           fc'[s].tileProgress[q][j] = fc[s].tileProgress[q][j]
      /\ fc'[s].tileProgress[p][i] = TileProgress(w)
  BY <1>1, <1>3, <1>4, <1>p, <1>i
<1>6. Sbh \in Nat /\ TILE_ERROR = Sbh + 1 /\ task[w].sby \in 0 .. Sbh - 1
  BY <1>2, SetupFacts DEF TILE_ERROR, Tasks, Rows
<1>7. /\ TileProgress(w) \in {task[w].sby + 1, TILE_ERROR}
      /\ at[w] = "tileDone" => TileProgress(w) = task[w].sby + 1
      /\ at[w] = "tileFailed" => TileProgress(w) = TILE_ERROR
  BY DEF TileProgress
<1>8. TileProgress(w) >= fc[s].tileProgress[p][i]
  <2>1. fc[s].tileProgress[p][i] \in 0 .. TILE_ERROR
    BY <1>3, <1>4
  <2>2. CASE at[w] = "tileFailed"
    BY <1>6, <1>7, <2>1, <2>2
  <2>3. CASE at[w] = "tileDone"
    <3>1. fc[s].tileProgress[p][i] = task[w].sby
      BY <1>1, <1>p, <1>i, <2>3 DEF TileOK
    <3> QED
      BY <1>6, <1>7, <2>3, <3>1
  <2> QED
    BY <1>1, <2>2, <2>3
<1>9. Grows(s)
  <2>1. ASSUME NEW q \in {0, 1}, NEW j \in Tiles
        PROVE  fc'[s].tileProgress[q][j] >= fc[s].tileProgress[q][j]
    <3>1. fc[s].tileProgress[q][j] \in Int
      <4>1. fc[s].tileProgress[q][j] \in 0 .. TILE_ERROR
        BY <1>4
      <4> QED
        BY <1>6, <4>1
    <3>2. CASE q = p /\ j = i
      BY <1>5, <1>8, <3>2
    <3>3. CASE q # p \/ j # i
      BY <1>5, <3>1, <3>3
    <3> QED
      BY <3>2, <3>3
  <2> QED
    BY <2>1 DEF Grows
<1> QED
  BY <1>5, <1>6, <1>7, <1>9, <1>p, <1>i

\* The other tiles, and those who count on them, stay as they are.
LEMMA TileActs ==
  ASSUME IInv, IInv', NEW s \in Slots, NEW w \in Workers, SliceOK(s), NEW In, TileAct(w, s, In)
  PROVE  SliceOK(s)'
<1>1. /\ Acts(w, s) /\ ~fc'[s].finished /\ Busy(w, s) /\ IsTile(task[w])
      /\ at[w] \in {"tileDone", "tileFailed"} /\ at'[w] \in {"search", "start"}
      /\ fc'[s].queue = fc[s].queue \cup In
      /\ fc'[s].frame = fc[s].frame /\ fc'[s].done = fc[s].done
      /\ fc'[s].deblock = fc[s].deblock /\ fc'[s].copyLpf = fc[s].copyLpf
      /\ pics'[fc[s].pic].progress[1] = pics[fc[s].pic].progress[1]
      /\ pics'[fc[s].pic].filtered = pics[fc[s].pic].filtered
  BY DEF TileAct
<1>2. \A t \in In \cup (IF at'[w] = "search" THEN {} ELSE {task'[w]}) :
        t.type = task[w].type /\ t.tile = task[w].tile /\ t.sby = task[w].sby + 1
  BY DEF TileAct
<1>3. /\ TileOK(s) /\ PastOK(s) /\ FiltOK(s) /\ PicOK(s) /\ Touch(w, s) /\ Unfinished(s) /\ setup' = setup
      /\ setup \in DOMAIN Setups /\ fc[s] \in Frames /\ task[w] \in Tasks /\ task \in [Workers -> Tasks]
      /\ TasksOK(s) /\ Apart(s)
  BY <1>1 DEF SliceOK, Acts, Touch, IInv, TypeOK, FrameOK, Unfinished
<1>p. PICK p : p = Pass(task[w])
  OBVIOUS
<1>i. PICK i : i = task[w].tile
  OBVIOUS
<1>4. /\ \A q \in {0, 1} : \A j \in Tiles : q # p \/ j # i =>
           fc'[s].tileProgress[q][j] = fc[s].tileProgress[q][j]
      /\ fc'[s].tileProgress[p][i] = TileProgress(w)
      /\ TileProgress(w) \in {task[w].sby + 1, TILE_ERROR}
      /\ at[w] = "tileDone" => TileProgress(w) = task[w].sby + 1
      /\ Grows(s) /\ task[w].sby + 1 # TILE_ERROR
  BY <1>3, <1>p, <1>i, TileMoves
<1>5. /\ p \in {0, 1} /\ i \in Tiles /\ task[w].type \in {"TileEntropy", "TileReconstruction"}
      /\ task[w].type \notin InitTypes
  BY <1>1, <1>3, <1>p, <1>i DEF Pass, Tasks, IsTile, InitTypes
<1>6. /\ \A t \in In : IsTile(t) /\ Pass(t) = p /\ ~IsRow(t) /\ t.type \notin InitTypes
                       /\ t.tile = i /\ t.sby = task[w].sby + 1
      /\ at'[w] # "search" => /\ IsTile(task'[w]) /\ Pass(task'[w]) = p /\ ~IsRow(task'[w])
                              /\ task'[w].type \notin InitTypes
                              /\ task'[w].tile = i /\ task'[w].sby = task[w].sby + 1
  BY <1>1, <1>2, <1>5, <1>p, <1>i DEF IsTile, Pass, IsRow
<1>7. \A b : Before(s, b)' <=> Before(s, b)
  <2>1. NoStart(w, s, In, {})
    BY <1>1, <1>5, <1>6 DEF NoStart, Busy
  <2> QED
    BY <1>3, <2>1, BeforeKept
<1>8. Busy(w, s)' => at'[w] = "start"
  BY <1>1 DEF Busy
<1>9. TileOK(s)'
  <2>0. Mine(w, s) = {<<p, "tile", i>>}
    BY <1>1, <1>3, <1>p, <1>i, MineFacts
  <2>1. /\ Tiles' = Tiles /\ TILE_ERROR' = TILE_ERROR /\ RowStart' = RowStart /\ TileCols' = TileCols
    BY <1>3, SameSetup
  <2>2. \A j : TileRow(j)' = TileRow(j)
    BY <2>1 DEF TileRow
  <2>3. ASSUME NEW t \in fc'[s].queue, IsTile(t)
        PROVE  fc'[s].tileProgress[Pass(t)][t.tile] \in {t.sby, TILE_ERROR}
    <3>1. CASE t \in In
      BY <1>4, <1>6, <3>1
    <3>2. CASE t \in fc[s].queue
      <4>1. t \in Tasks /\ TaskOK(t, Filters(s)) /\ AtRow(fc[s], t)
        BY <1>3, <2>3, <3>2 DEF TasksOK, Frames, TileOK
      <4>2. Units(t) = {<<Pass(t), "tile", t.tile>>}
        BY <1>3, <2>3, <4>1, UnitsFacts
      <4>3. Pass(t) # p \/ t.tile # i
        BY <1>3, <2>0, <3>2, <4>2 DEF Apart
      <4>4. Pass(t) \in {0, 1} /\ t.tile \in Tiles
        BY <4>1 DEF Pass, Tasks
      <4> QED
        BY <1>4, <4>1, <4>3, <4>4 DEF AtRow
    <3> QED
      BY <1>1, <3>1, <3>2
  <2>4. ASSUME NEW v \in Workers, Busy(v, s)'
        PROVE  /\ IsTile(task'[v]) => fc'[s].tileProgress[Pass(task'[v])][task'[v].tile]
                                        \in {task'[v].sby, TILE_ERROR}
               /\ at'[v] = "tileDone" =>
                    fc'[s].tileProgress[Pass(task'[v])][task'[v].tile] = task'[v].sby
               /\ at'[v] = "tileFailed" => fc'[s].error
               /\ at'[v] = "create" => \A j \in Tiles : fc'[s].tileProgress[0][j] = RowStart[TileRow(j)]
    <3>1. CASE v = w
      BY <1>4, <1>6, <1>8, <2>4, <3>1
    <3>2. CASE v # w
      <4>1. Busy(v, s) /\ at'[v] = at[v] /\ task'[v] = task[v]
        BY <3>2, <1>3, <2>4, TouchFacts DEF Touch
      <4>2. /\ IsTile(task[v]) => AtRow(fc[s], task[v])
            /\ at[v] = "tileDone" => fc[s].tileProgress[Pass(task[v])][task[v].tile] = task[v].sby
            /\ at[v] = "tileFailed" => fc[s].error
            /\ at[v] = "create" => \A j \in Tiles : fc[s].tileProgress[0][j] = RowStart[TileRow(j)]
        BY <1>3, <4>1 DEF TileOK
      <4>3. PlaceOK(at[v], task[v].type) /\ task[v] \in Tasks
        BY <1>3, <4>1 DEF TasksOK
      <4>4. ASSUME IsTile(task[v])
            PROVE  fc'[s].tileProgress[Pass(task[v])][task[v].tile]
                     = fc[s].tileProgress[Pass(task[v])][task[v].tile]
        <5>1. Mine(v, s) = {<<Pass(task[v]), "tile", task[v].tile>>}
          BY <1>3, <4>1, <4>4, MineFacts
        <5>2. Pass(task[v]) # p \/ task[v].tile # i
          BY <1>3, <2>0, <3>2, <5>1 DEF Apart
        <5>3. Pass(task[v]) \in {0, 1} /\ task[v].tile \in Tiles
          BY <4>3 DEF Pass, Tasks
        <5> QED
          BY <1>4, <5>2, <5>3
      <4>5. at[v] = "tileDone" => IsTile(task[v])
        BY <4>3 DEF PlaceOK, IsTile
      <4>6. at[v] = "create" => p # 0
        <5>1. ASSUME at[v] = "create" PROVE Before(s, 0)
          BY <4>1, <4>3, <5>1 DEF Before, PlaceOK, InitTypes
        <5>2. ~Before(s, p)
          BY <1>1, <1>3, <1>5, <1>p, HolderBegun
        <5> QED
          BY <5>1, <5>2
      <4>7. fc[s].error => fc'[s].error
        BY <1>1 DEF Acts, Keeps
      <4> QED
        BY <1>4, <4>1, <4>2, <4>4, <4>5, <4>6, <4>7 DEF AtRow
    <3> QED
      BY <3>1, <3>2
  <2>5. ASSUME ~Before(s, 1)', NEW b \in {0, 1}, NEW j \in Tiles
        PROVE  fc'[s].tileProgress[b][j] # TILE_ERROR \/ fc'[s].error
    <3>1. fc[s].error => fc'[s].error
      BY <1>1 DEF Acts, Keeps
    <3>2. CASE b = p /\ j = i
      <4>1. at[w] = "tileFailed" => fc[s].error
        BY <1>1, <1>3 DEF TileOK
      <4> QED
        BY <1>1, <1>4, <3>1, <3>2, <4>1
    <3>3. CASE b # p \/ j # i
      BY <1>3, <1>4, <1>7, <2>5, <3>1, <3>3 DEF TileOK
    <3> QED
      BY <3>2, <3>3
  <2>6. \A t : (IsTile(t)' <=> IsTile(t)) /\ Pass(t)' = Pass(t)
    BY DEF IsTile, Pass
  <2> QED
    BY <2>1, <2>2, <2>3, <2>4, <2>5, <2>6 DEF TileOK, AtRow
<1>10. PastOK(s)'
  <2>1. \A t \in fc'[s].queue : IsRow(t) => t \in fc[s].queue
    BY <1>1, <1>6
  <2>2. ~(Busy(w, s)' /\ IsRow(task'[w]))
    BY <1>6, <1>8
  <2>3. ~Before(s, 0)' => \A r \in fc'[s].frame : r \in fc[s].frame /\ ~Before(s, 0)
    BY <1>1, <1>7
  <2> QED
    BY <1>1, <1>3, <1>4, <2>1, <2>2, <2>3, PastKept
<1>11. FiltOK(s)'
  <2>1. \A t \in fc'[s].queue : IsRow(t) => t \in fc[s].queue
    BY <1>1, <1>6
  <2>2. ~(Busy(w, s)' /\ IsRow(task'[w]))
    BY <1>6, <1>8
  <2> QED
    BY <1>1, <1>3, <2>1, <2>2, FiltKept
<1>12. PicOK(s)'
  BY <1>1, <1>3, <1>7, PicKept
<1> QED
  BY <1>9, <1>10, <1>11, <1>12 DEF SliceOK

\* What a step leaves alone that has nothing to do with rows.
Fixed(s) ==
  /\ ~fc'[s].finished /\ fc'[s].frame = fc[s].frame /\ fc'[s].done = fc[s].done
  /\ fc'[s].deblock = fc[s].deblock /\ fc'[s].copyLpf = fc[s].copyLpf
  /\ fc'[s].entropy = fc[s].entropy

\* A tile that ends has all of its rows behind it.
LEMMA EndTileSlice ==
  ASSUME RInv, NEW w \in Workers, EndTile(w)
  PROVE  RInv'
<1>0. IInv /\ IInv'
  BY EndTileStep DEF RInv
<1>s. PICK s : s = Slot(w)
  OBVIOUS
<1>f. PICK f : f = [Frame(w) EXCEPT !.tileProgress[Pass(task[w])][task[w].tile] = TileProgress(w)]
  OBVIOUS
<1>p. PICK p : p = [Picture(w) EXCEPT !.cdf =
                      IF ~Publishes(w) THEN @ ELSE IF f.error THEN "error" ELSE "ok"]
  OBVIOUS
<1>1. at[w] \in {"tileDone", "tileFailed"} /\ CountTask(w, f, p) /\ UNCHANGED <<task, caller>>
  BY <1>f, <1>p DEF EndTile
<1>2. /\ s \in Slots /\ fc[s] \in Frames /\ Frame(w) = fc[s] /\ Busy(w, s) /\ ~fc[s].finished
      /\ Picture(w) \in Pictures /\ Picture(w).filters = Filters(s) /\ PlaceOK(at[w], task[w].type)
      /\ setup \in DOMAIN Setups /\ task[w] \in Tasks
  BY <1>0, <1>1, <1>s, Now
<1>3. TileProgress(w) \in 0 .. TILE_ERROR
  BY <1>2, SetupFacts DEF TileProgress, TILE_ERROR, Tasks, Rows
<1>4. /\ f \in Frames /\ Like(fc[s], f) /\ f.error = fc[s].error
      /\ f.tileProgress =
           [fc[s].tileProgress EXCEPT ![Pass(task[w])][task[w].tile] = TileProgress(w)]
      /\ f.deblock = fc[s].deblock /\ f.copyLpf = fc[s].copyLpf
  BY <1>2, <1>3, <1>f DEF Frames, Like
<1>5. /\ p \in Pictures /\ p.filters = Filters(s)
      /\ p.progress = pics[fc[s].pic].progress /\ p.filtered = pics[fc[s].pic].filtered
  BY <1>2, <1>p DEF Pictures, Picture
<1>6. Counts(w, s, f, p)
  BY <1>1, <1>4, <1>5, <1>s DEF Counts
<1>7. /\ Acts(w, s) /\ at'[w] = "search" /\ task'[w] = task[w]
      /\ Goes(s, f, p) \/ Leaves(s, f, p)
  BY <1>0, <1>6, CountedEffect
<1>8. /\ SliceOK(s) /\ fc[s].pic \in 1 .. Number /\ setup' = setup
      /\ Honest(fc[s].pic) /\ fc'[s].pic = fc[s].pic
  BY <1>0, <1>1, <1>2, <1>7 DEF RInv, Unfinished, IInv, FrameOK, Acts, Touch
<1>9. IsTile(task[w])
  BY <1>1, <1>2 DEF PlaceOK, IsTile
<1>10. CASE Goes(s, f, p)
  <2>1. TileAct(w, s, {})
    BY <1>1, <1>2, <1>4, <1>5, <1>7, <1>9, <1>10 DEF TileAct, Goes
  <2>2. SliceOK(s)'
    BY <1>0, <1>2, <1>8, <2>1, TileActs
  <2>3. Honest(fc[s].pic)'
    <3>1. pics'[fc[s].pic] = p
      BY <1>10 DEF Goes
    <3>2. \A n : n = fc[s].pic => Honest(n)'
      BY <1>5, <1>8, <3>1, HonestKept
    <3> QED
      BY <3>2, <1>8 DEF Honest
  <2> QED
    BY <1>0, <1>2, <1>7, <2>2, <2>3, SliceStep
<1>11. CASE Leaves(s, f, p)
  <2>1. PICK g : fc'[s].finished /\ pics'[fc[s].pic] = LeftPic(g, p, f.error)
    BY <1>11 DEF Leaves
  <2>2. Honest(fc[s].pic)'
    <3>1. \A n : n = fc[s].pic => Honest(n)'
      BY <1>5, <1>8, <2>1, LeftHonest
    <3> QED
      BY <3>1, <1>8 DEF Honest
  <2> QED
    BY <1>0, <1>2, <1>7, <2>1, <2>2, SliceStep
<1> QED
  BY <1>7, <1>10, <1>11

\* The task of w goes on as next, at once or through the queue.
GoesTo(w, s, next) ==
  /\ next = [task[w] EXCEPT !.sby = @ + 1]
  /\ next.type = task[w].type /\ next.tile = task[w].tile /\ next.sby = task[w].sby + 1
  /\ \/ /\ at'[w] = "start" /\ task'[w] = next /\ fc'[s].queue = fc[s].queue
        /\ TileReady(fc[s], next)
        /\ fc'[s].error = (fc[s].error \/ TileError(fc[s], next))
     \/ /\ at'[w] = "search" /\ fc'[s].error = fc[s].error
        /\ fc'[s].queue = fc[s].queue \cup {[next EXCEPT !.slot = None]}

\* A tile that is not at its end.
LEMMA NextTileTaskEffect ==
  ASSUME IInv, NEW w \in Workers, NextTileTask(w), NEW s, s = Slot(w)
  PROVE  /\ s \in Slots /\ Fixed(s) /\ pics'[fc[s].pic] = pics[fc[s].pic]
         /\ Busy(w, s) /\ Acts(w, s) /\ IsTile(task[w]) /\ at[w] \in {"tileDone", "tileFailed"}
         /\ fc'[s].tileProgress =
              [fc[s].tileProgress EXCEPT ![Pass(task[w])][task[w].tile] = TileProgress(w)]
         /\ \E next \in Tasks : GoesTo(w, s, next)
<1>1. at[w] \in {"tileDone", "tileFailed"} /\ ~LastOfTile(task[w]) /\ UNCHANGED <<pics, caller>>
  BY DEF NextTileTask
<1>2. /\ s \in Slots /\ fc[s] \in Frames /\ task[w] \in Tasks /\ task[w].slot = s
      /\ TaskOK(task[w], Filters(s)) /\ Frame(w) = fc[s] /\ Picture(w) \in Pictures
      /\ Picture(w).filters = Filters(s) /\ PlaceOK(at[w], task[w].type)
      /\ setup \in DOMAIN Setups /\ Busy(w, s) /\ ~fc[s].finished
      /\ Picture(w) = pics[fc[s].pic]
  BY <1>1, BusyFacts
<1>3. /\ [task EXCEPT ![w] = task[w]] = task
      /\ [pics EXCEPT ![Frame(w).pic] = Picture(w)] = pics
  BY <1>1, Same
<1>4. IsTile(task[w])
  BY <1>1, <1>2 DEF PlaceOK, IsTile
<1>5. task[w].sby + 1 \in Rows
  <2>1. task[w].tile \in Tiles /\ task[w].sby \in Rows
    BY <1>2 DEF Tasks
  <2>2. /\ RowStart[TileRow(task[w].tile) + 1] \in 0 .. Sbh
        /\ task[w].sby < RowStart[TileRow(task[w].tile) + 1]
    BY <1>2, <1>4, <2>1, TileRowType DEF TaskOK
  <2> QED
    BY <1>1, <1>2, <2>1, <2>2, SetupFacts DEF LastOfTile, Rows
<1>n. PICK next : next = [task[w] EXCEPT !.sby = @ + 1]
  OBVIOUS
<1>6. /\ next \in Tasks /\ next.slot = s /\ next.type = task[w].type /\ next.tile = task[w].tile
      /\ next.sby = task[w].sby + 1
  BY <1>2, <1>5, <1>n DEF Tasks
<1>9. TileProgress(w) \in 0 .. TILE_ERROR
  BY <1>2, SetupFacts DEF TileProgress, TILE_ERROR, Tasks, Rows
<1>f. PICK f : f = [Frame(w) EXCEPT !.tileProgress[Pass(task[w])][task[w].tile] = TileProgress(w)]
  OBVIOUS
<1>10. /\ f \in Frames /\ f.error = fc[s].error /\ f.queue = fc[s].queue /\ f.pic = fc[s].pic
       /\ f.tileProgress =
            [fc[s].tileProgress EXCEPT ![Pass(task[w])][task[w].tile] = TileProgress(w)]
       /\ ~f.finished /\ f.frame = fc[s].frame /\ f.done = fc[s].done
       /\ f.deblock = fc[s].deblock /\ f.copyLpf = fc[s].copyLpf /\ f.entropy = fc[s].entropy
  BY <1>2, <1>9, <1>f DEF Frames
<1>11. CASE TileReady(Frame(w), next)
  <2>e. PICK e \in BOOLEAN : e = (fc[s].error \/ TileError(fc[s], next))
    <3>1. (fc[s].error \/ TileError(fc[s], next)) \in BOOLEAN
      OBVIOUS
    <3> QED
      BY <3>1
  <2>g. PICK g : g = [f EXCEPT !.error = e]
    OBVIOUS
  <2>1. fc' = [fc EXCEPT ![s] = g] /\ task' = [task EXCEPT ![w] = next] /\ Goto(w, "start")
    <3>1. [f EXCEPT !.error = @ \/ TileError(Frame(w), next)] = g
      BY <1>2, <1>10, <2>e, <2>g
    <3> QED
      BY <1>11, <1>n, <1>f, <3>1 DEF NextTileTask
  <2>2. StepTo(w, "start", next, g, Picture(w))
    BY <1>1, <1>2, <1>3, <2>1 DEF StepTo, Goto
  <2>3. /\ g \in Frames /\ g.error = e /\ g.queue = fc[s].queue /\ g.pic = fc[s].pic
        /\ g.tileProgress = f.tileProgress
        /\ ~g.finished /\ g.frame = fc[s].frame /\ g.done = fc[s].done
        /\ g.deblock = fc[s].deblock /\ g.copyLpf = fc[s].copyLpf /\ g.entropy = fc[s].entropy
    BY <1>10, <2>e, <2>g DEF Frames
  <2>4. Does(w, s, "start", next, g, Picture(w))
    BY <1>1, <1>2, <1>6, <2>2, <2>3, <2>e DEF Does, Keeps, Places
  <2>5. /\ Acts(w, s) /\ fc'[s] = g /\ at'[w] = "start" /\ task'[w] = next
        /\ pics'[fc[s].pic] = Picture(w)
    BY <2>4, Doing
  <2>6. fc'[s].error = (fc[s].error \/ TileError(fc[s], next)) /\ TileReady(fc[s], next)
    BY <1>2, <1>11, <2>3, <2>5, <2>e
  <2>7. Fixed(s) /\ fc'[s].queue = fc[s].queue /\ fc'[s].tileProgress = f.tileProgress
    BY <2>3, <2>5 DEF Fixed
  <2> QED
    BY <1>1, <1>2, <1>4, <1>6, <1>n, <1>10, <2>5, <2>6, <2>7 DEF GoesTo
<1>12. CASE ~TileReady(Frame(w), next)
  <2>t. PICK t : t = [next EXCEPT !.slot = None]
    OBVIOUS
  <2>g. PICK g : g = [f EXCEPT !.queue = @ \cup {t}]
    OBVIOUS
  <2>1. StepTo(w, "search", task[w], g, Picture(w))
    BY <1>1, <1>2, <1>3, <1>12, <1>n, <1>f, <2>t, <2>g DEF NextTileTask, StepTo, Goto, Pend
  <2>2. t \in Tasks
    BY <1>6, <2>t DEF Tasks
  <2>3. /\ g \in Frames /\ g.error = fc[s].error /\ g.queue = fc[s].queue \cup {t} /\ g.pic = fc[s].pic
        /\ g.tileProgress = f.tileProgress
        /\ ~g.finished /\ g.frame = fc[s].frame /\ g.done = fc[s].done
        /\ g.deblock = fc[s].deblock /\ g.copyLpf = fc[s].copyLpf /\ g.entropy = fc[s].entropy
    BY <1>10, <2>2, <2>g DEF Frames
  <2>4. Does(w, s, "search", task[w], g, Picture(w))
    BY <1>1, <1>2, <1>6, <2>1, <2>3 DEF Does, Keeps, Places
  <2>5. /\ Acts(w, s) /\ fc'[s] = g /\ at'[w] = "search" /\ task'[w] = task[w]
        /\ pics'[fc[s].pic] = Picture(w)
    BY <2>4, Doing
  <2>7. /\ Fixed(s) /\ fc'[s].queue = fc[s].queue \cup {t} /\ fc'[s].error = fc[s].error
        /\ fc'[s].tileProgress = f.tileProgress
    BY <2>3, <2>5 DEF Fixed
  <2> QED
    BY <1>1, <1>2, <1>4, <1>6, <1>n, <1>10, <2>5, <2>7, <2>t DEF GoesTo
<1> QED
  BY <1>11, <1>12

\* A tile that goes on is one row further, and so is its task.
LEMMA NextTileTaskSlice ==
  ASSUME RInv, NEW w \in Workers, NextTileTask(w)
  PROVE  RInv'
<1>0. IInv /\ IInv'
  BY NextTileTaskStep DEF RInv
<1>s. PICK s : s = Slot(w)
  OBVIOUS
<1>1. /\ s \in Slots /\ Fixed(s) /\ pics'[fc[s].pic] = pics[fc[s].pic]
      /\ Busy(w, s) /\ Acts(w, s) /\ IsTile(task[w]) /\ at[w] \in {"tileDone", "tileFailed"}
      /\ fc'[s].tileProgress =
           [fc[s].tileProgress EXCEPT ![Pass(task[w])][task[w].tile] = TileProgress(w)]
  BY <1>0, <1>s, NextTileTaskEffect
<1>n. PICK next \in Tasks : GoesTo(w, s, next)
  BY <1>0, <1>s, NextTileTaskEffect
<1>i. PICK In : In = IF at'[w] = "start" THEN {} ELSE {[next EXCEPT !.slot = None]}
  OBVIOUS
<1>2. fc'[s].queue = fc[s].queue \cup In /\ at'[w] \in {"search", "start"}
  BY <1>n, <1>i DEF GoesTo
<1>3. \A t \in In : t.type = task[w].type /\ t.tile = task[w].tile /\ t.sby = task[w].sby + 1
  BY <1>n, <1>i DEF Tasks, GoesTo
<1>4. TileAct(w, s, In)
  BY <1>1, <1>2, <1>3, <1>n DEF TileAct, Fixed, GoesTo
<1>5. SliceOK(s) /\ fc[s].pic \in 1 .. Number /\ Honest(fc[s].pic) /\ setup' = setup /\ fc'[s].pic = fc[s].pic
  BY <1>0, <1>1 DEF RInv, Acts, Touch, Unfinished, IInv, FrameOK
<1>6. SliceOK(s)'
  BY <1>0, <1>1, <1>4, <1>5, TileActs
<1>7. Honest(fc[s].pic)'
  <2>1. \A n : n = fc[s].pic => Honest(n)'
    BY <1>1, <1>5, HonestKept
  <2> QED
    BY <2>1, <1>5 DEF Honest
<1> QED
  BY <1>0, <1>1, <1>6, <1>7, SliceStep

----------------------------------------------------------------------------
(* The start of a task *)

\* What a worker does with the task it has found.
Begins(w, s) ==
  \/ /\ ~IsTile(task[w]) /\ at'[w] = task[w].type /\ pics'[fc[s].pic] = pics[fc[s].pic]
     /\ fc'[s].error = (fc[s].error \/ flush)
  \/ /\ IsTile(task[w]) /\ at'[w] = "tileFailed" /\ fc'[s].error
     /\ pics'[fc[s].pic] = Damages(pics[fc[s].pic], TRUE)
  \/ /\ IsTile(task[w]) /\ at'[w] = "tileDone" /\ ~fc[s].error /\ ~flush /\ ~fc'[s].error
     /\ pics'[fc[s].pic] = Damages(pics[fc[s].pic], FALSE)

\* A row goes to its code, and a tile is decoded, or not after an error.
LEMMA StartEffect ==
  ASSUME IInv, NEW w \in Workers, Start(w), NEW s, s = Slot(w)
  PROVE  /\ s \in Slots /\ Busy(w, s) /\ Acts(w, s) /\ Fixed(s) /\ task'[w] = task[w]
         /\ fc'[s].queue = fc[s].queue /\ fc'[s].tileProgress = fc[s].tileProgress
         /\ at[w] = "start" /\ Begins(w, s)
<1>1. at[w] = "start" /\ UNCHANGED <<task, caller>>
  BY DEF Start
<1>2. /\ s \in Slots /\ fc[s] \in Frames /\ task[w] \in Tasks /\ task[w].slot = s
      /\ Frame(w) = fc[s] /\ Picture(w) \in Pictures /\ Picture(w).filters = Filters(s)
      /\ Busy(w, s) /\ ~fc[s].finished /\ [task EXCEPT ![w] = task[w]] = task
      /\ [pics EXCEPT ![Frame(w).pic] = Picture(w)] = pics
  BY <1>1, Now
<1>3. flush \in BOOLEAN /\ Picture(w) = pics[fc[s].pic]
  BY <1>2 DEF IInv, TypeOK, Picture
<1>4. CASE ~IsTile(task[w])
  <2>g. PICK g : g = [fc[s] EXCEPT !.error = Frame(w).error \/ flush]
    OBVIOUS
  <2>1. StepTo(w, task[w].type, task[w], g, Picture(w))
    BY <1>1, <1>2, <1>4, <2>g DEF Start, StepTo, Goto
  <2>2. /\ g \in Frames /\ g.error = (fc[s].error \/ flush) /\ g.queue = fc[s].queue
        /\ g.pic = fc[s].pic /\ g.tileProgress = fc[s].tileProgress
        /\ ~g.finished /\ g.frame = fc[s].frame /\ g.done = fc[s].done
        /\ g.deblock = fc[s].deblock /\ g.copyLpf = fc[s].copyLpf /\ g.entropy = fc[s].entropy
    BY <1>2, <1>3, <2>g DEF Frames
  <2>3. task[w].type \in Places
    BY <1>2, <1>4 DEF Tasks, TaskTypes, Places, IsTile
  <2>4. Does(w, s, task[w].type, task[w], g, Picture(w))
    BY <1>1, <1>2, <2>1, <2>2, <2>3 DEF Does, Keeps
  <2>5. /\ Acts(w, s) /\ fc'[s] = g /\ at'[w] = task[w].type /\ task'[w] = task[w]
        /\ pics'[fc[s].pic] = Picture(w)
    BY <2>4, Doing
  <2>6. Begins(w, s)
    BY <1>3, <1>4, <2>2, <2>5 DEF Begins
  <2> QED
    BY <1>1, <1>2, <2>2, <2>5, <2>6 DEF Fixed
<1>5. CASE IsTile(task[w])
  <2>1. PICK fails \in BOOLEAN :
          /\ (Frame(w).error \/ flush => fails)
          /\ fc' = [fc EXCEPT ![Slot(w)].error = fails \/ (Frame(w).error \/ flush)]
          /\ Goto(w, IF fails THEN "tileFailed" ELSE "tileDone")
          /\ pics' = [pics EXCEPT ![Frame(w).pic].damaged = @ \/ fails]
    BY <1>5 DEF Start
  <2>g. PICK g : g = [fc[s] EXCEPT !.error = fails \/ (Frame(w).error \/ flush)]
    OBVIOUS
  <2>q. PICK q : q = [Picture(w) EXCEPT !.damaged = @ \/ fails]
    OBVIOUS
  <2>l. PICK l : l = IF fails THEN "tileFailed" ELSE "tileDone"
    OBVIOUS
  <2>2. StepTo(w, l, task[w], g, q)
    BY <1>1, <1>2, <2>1, <2>g, <2>q, <2>l DEF StepTo, Goto, Picture
  <2>3. /\ g \in Frames /\ g.error = (fails \/ (fc[s].error \/ flush)) /\ g.queue = fc[s].queue
        /\ g.pic = fc[s].pic /\ g.tileProgress = fc[s].tileProgress
        /\ ~g.finished /\ g.frame = fc[s].frame /\ g.done = fc[s].done
        /\ g.deblock = fc[s].deblock /\ g.copyLpf = fc[s].copyLpf /\ g.entropy = fc[s].entropy
    BY <1>2, <1>3, <2>g DEF Frames
  <2>4. q \in Pictures /\ q.filters = Filters(s)
    BY <1>2, <2>q DEF Pictures
  <2>5. Does(w, s, l, task[w], g, q)
    BY <1>1, <1>2, <2>2, <2>3, <2>4, <2>l DEF Does, Keeps, Places
  <2>6. Acts(w, s) /\ fc'[s] = g /\ at'[w] = l /\ task'[w] = task[w] /\ pics'[fc[s].pic] = q
    BY <2>5, Doing
  <2>7. Begins(w, s)
    <3>1. CASE fails
      <4>1. q = Damages(pics[fc[s].pic], TRUE)
        BY <1>3, <2>q, <3>1 DEF Damages
      <4> QED
        BY <1>5, <2>3, <2>6, <2>l, <3>1, <4>1 DEF Begins
    <3>2. CASE ~fails
      <4>1. q = Damages(pics[fc[s].pic], FALSE)
        BY <1>3, <2>q, <3>2 DEF Damages
      <4> QED
        BY <1>2, <1>5, <2>1, <2>3, <2>6, <2>l, <3>2, <4>1 DEF Begins
    <3> QED
      BY <3>1, <3>2
  <2> QED
    BY <1>1, <1>2, <2>3, <2>6, <2>7 DEF Fixed
<1> QED
  BY <1>4, <1>5

\* A worker that starts has found its tile or row where it should be.
LEMMA StartSlice ==
  ASSUME RInv, NEW w \in Workers, Start(w)
  PROVE  RInv'
<1>0. IInv /\ IInv'
  BY StartStep DEF RInv
<1>s. PICK s : s = Slot(w)
  OBVIOUS
<1>1. /\ s \in Slots /\ Busy(w, s) /\ Acts(w, s) /\ Fixed(s) /\ task'[w] = task[w]
      /\ fc'[s].queue = fc[s].queue /\ fc'[s].tileProgress = fc[s].tileProgress
      /\ at[w] = "start" /\ Begins(w, s)
  BY <1>0, <1>s, StartEffect
<1>2. /\ SliceOK(s) /\ fc[s].pic \in 1 .. Number /\ setup' = setup /\ Touch(w, s)
      /\ Honest(fc[s].pic) /\ fc'[s].pic = fc[s].pic /\ pics[fc[s].pic] \in Pictures
      /\ task[w] \in Tasks /\ TaskOK(task[w], Filters(s)) /\ setup \in DOMAIN Setups
      /\ fc[s] \in Frames /\ ~fc'[s].finished
  BY <1>0, <1>1, <1>s, BusyFacts DEF RInv, Unfinished, Acts, Touch, Fixed
<1>3. \/ IsTile(task[w]) /\ at'[w] = "tileFailed" /\ fc'[s].error
      \/ IsTile(task[w]) /\ at'[w] = "tileDone" /\ ~fc[s].error
      \/ ~IsTile(task[w]) /\ at'[w] = task[w].type
  BY <1>1 DEF Begins
<1>4. at'[w] \notin {"search", "create", "publish", "count"}
  BY <1>2, <1>3 DEF Tasks, TaskTypes
<1>5. \A b : Before(s, b)' <=> Before(s, b)
  <2>1. Busy(w, s)'
    BY <1>1, <1>2, <1>4, TouchFacts
  <2>2. at[w] # "create" /\ at'[w] # "create" /\ at[w] # "search"
    BY <1>1, <1>4
  <2>3. Mine(w, s)' = Mine(w, s)
    BY <1>1, <1>2, <2>1, <2>2, SameMine
  <2> QED
    BY <1>0, <1>s, <1>1, <1>2, <1>4, <2>2, <2>3, StayRows
<1>6. TileOK(s)'
  <2>1. TileOK(s)
    BY <1>2 DEF SliceOK
  <2>2. IsTile(task[w]) => AtRow(fc[s], task[w])
    BY <1>1, <2>1 DEF TileOK
  <2>3. at'[w] = "tileDone" => fc[s].tileProgress[Pass(task[w])][task[w].tile] = task[w].sby
    <3>1. ASSUME at'[w] = "tileDone"
          PROVE  fc[s].tileProgress[Pass(task[w])][task[w].tile] = task[w].sby
      <4>1. IsTile(task[w]) /\ ~fc[s].error
        BY <1>2, <1>3, <3>1 DEF Tasks, TaskTypes
      <4>2. ~Before(s, 1)
        <5>1. task[w].type \notin InitTypes
          BY <4>1 DEF IsTile, InitTypes
        <5>2. ~Before(s, Pass(task[w])) /\ Unfinished(s)
          BY <1>0, <1>1, <5>1, HolderBegun DEF Acts
        <5> QED
          BY <5>2 DEF Before, Pass
      <4>3. Pass(task[w]) \in {0, 1} /\ task[w].tile \in Tiles
        BY <1>2 DEF Pass, Tasks
      <4>4. fc[s].tileProgress[Pass(task[w])][task[w].tile] # TILE_ERROR
        BY <2>1, <4>1, <4>2, <4>3 DEF TileOK
      <4> QED
        BY <2>2, <4>1, <4>4 DEF AtRow
    <3> QED
      BY <3>1
  <2>4. at'[w] = "tileFailed" => fc'[s].error
    BY <1>2, <1>3 DEF Tasks, TaskTypes
  <2> QED
    BY <1>0, <1>1, <1>2, <1>4, <1>5, <2>1, <2>2, <2>3, <2>4, TilesKept
<1>7. PastOK(s)'
  <2>1. PastOK(s)
    BY <1>2 DEF SliceOK
  <2>2. Grows(s)
    <3>1. fc[s].tileProgress \in [{0, 1} -> [Tiles -> 0 .. TILE_ERROR]]
      BY <1>2 DEF Frames
    <3>2. 0 .. TILE_ERROR \subseteq Int
      BY <1>2, SetupFacts DEF TILE_ERROR
    <3> QED
      BY <1>1, <3>1, <3>2 DEF Grows
  <2>3. IsRow(task[w]) => TilesPast(fc[s], Pass(task[w]), task[w].sby)
    BY <1>1, <2>1 DEF PastOK
  <2>4. ~Before(s, 0)' => \A r \in fc'[s].frame : r \in fc[s].frame /\ ~Before(s, 0)
    BY <1>1, <1>5 DEF Fixed
  <2> QED
    BY <1>0, <1>1, <1>2, <2>1, <2>2, <2>3, <2>4, PastKept
<1>8. FiltOK(s)'
  <2>1. FiltOK(s) /\ fc'[s].deblock = fc[s].deblock /\ fc'[s].copyLpf = fc[s].copyLpf
    BY <1>1, <1>2 DEF SliceOK, Fixed
  <2>2. IsRow(task[w]) /\ Pass(task[w]) = 0 => RowAt(fc'[s], Filters(s), at'[w], task[w])
    <3>1. ASSUME IsRow(task[w]), Pass(task[w]) = 0
          PROVE  RowAt(fc'[s], Filters(s), at'[w], task[w])
      <4>1. RowAt(fc[s], Filters(s), "start", task[w])
        BY <1>1, <2>1, <3>1 DEF FiltOK
      <4>2. at'[w] = task[w].type
        BY <1>3, <3>1 DEF IsRow
      <4>3. fc[s].error => fc'[s].error
        BY <1>1, <1>2 DEF Acts, Keeps
      <4>4. task[w].type = "Cdef" => "deblock" \notin Filters(s)
        BY <1>2 DEF TaskOK
      <4> QED
        BY <2>1, <4>1, <4>2, <4>3, <4>4 DEF RowAt, TopsSaved
    <3> QED
      BY <3>1
  <2> QED
    BY <1>0, <1>1, <1>2, <2>1, <2>2, FiltKept
<1>9. PicOK(s)' /\ Honest(fc[s].pic)'
  <2>1. /\ pics'[fc[s].pic].progress[1] = pics[fc[s].pic].progress[1]
        /\ pics'[fc[s].pic].filtered = pics[fc[s].pic].filtered
    BY <1>1, <1>2 DEF Begins, Damages, Pictures
  <2>2. PicOK(s) /\ fc'[s].frame = fc[s].frame /\ fc'[s].done = fc[s].done
    BY <1>1, <1>2 DEF SliceOK, Fixed
  <2>3. PicOK(s)'
    BY <1>1, <1>2, <1>5, <2>1, <2>2, PicKept
  <2>4. Honest(fc[s].pic)'
    <3>1. \A n : n = fc[s].pic => Honest(n)'
      BY <1>2, <2>1, HonestKept
    <3> QED
      BY <3>1, <1>2 DEF Honest
  <2> QED
    BY <2>3, <2>4
<1> QED
  BY <1>0, <1>1, <1>6, <1>7, <1>8, <1>9, SliceStep DEF SliceOK

----------------------------------------------------------------------------
(* The start of a frame *)

\* A pass that is created resets the progress of its filters, if it has any.
LEMMA CreatedProgress ==
  ASSUME setup \in DOMAIN Setups, NEW p \in {0, 1}, NEW filters, NEW f \in Frames
  PROVE  /\ Created(f, p, filters).tileProgress = f.tileProgress
         /\ Created(f, p, filters).error = f.error
         /\ Created(f, p, filters).deblock = (IF p = 0 THEN 0 ELSE f.deblock)
         /\ Created(f, p, filters).copyLpf = (IF p = 0 THEN {} ELSE f.copyLpf)
         /\ Created(f, p, filters).entropy = (IF p = 1 THEN 0 ELSE f.entropy)
<1>r. PICK r : r = Reset(f, p)
  OBVIOUS
<1>1. /\ r.tileProgress = f.tileProgress /\ r.error = f.error
      /\ r.deblock = (IF p = 0 THEN 0 ELSE f.deblock)
      /\ r.copyLpf = (IF p = 0 THEN {} ELSE f.copyLpf)
      /\ r.entropy = (IF p = 1 THEN 0 ELSE f.entropy)
      /\ DOMAIN r = DOMAIN f
  <2>1. CASE p = 1
    <3>1. r = [f EXCEPT !.done = [@ EXCEPT ![1] = FALSE],
                        !.nextTileRow = [@ EXCEPT ![1] = 0], !.entropy = 0]
      BY <2>1, <1>r DEF Reset
    <3> QED
      BY <3>1, <2>1 DEF Frames
  <2>2. CASE p = 0
    <3>1. r = [f EXCEPT !.done = [@ EXCEPT ![0] = FALSE],
                        !.nextTileRow = [@ EXCEPT ![0] = 0],
                        !.frame = {}, !.copyLpf = {}, !.deblock = 0]
      BY <2>2, <1>r DEF Reset
    <3> QED
      BY <3>1, <2>2 DEF Frames
  <2> QED
    BY <2>1, <2>2
<1>2. Created(f, p, filters) = [r EXCEPT !.initDone = TRUE, !.queue = @ \cup PassTasks(p, filters)]
  BY <1>r DEF Created
<1> QED
  BY <1>1, <1>2 DEF Frames

\* The tiles start at their first rows, and all else stays.
LEMMA SetUpProgress ==
  ASSUME setup \in DOMAIN Setups, NEW f \in Frames
  PROVE  /\ \A p \in {0, 1} : \A i \in Tiles :
              SetUp(f).tileProgress[p][i] = RowStart[TileRow(i)]
         /\ SetUp(f).error = f.error /\ SetUp(f).deblock = f.deblock
         /\ SetUp(f).copyLpf = f.copyLpf /\ SetUp(f).entropy = f.entropy
  BY DEF SetUp, Frames

\* The tasks of a pass are tiles at their first rows, and the first row.
LEMMA PassTasksRows ==
  ASSUME setup \in DOMAIN Setups, NEW p \in {0, 1}, p = 1 => TwoPass,
         NEW filters \in SUBSET {"deblock", "cdef"}
  PROVE  \A t \in PassTasks(p, filters) :
           /\ Pass(t) = p /\ t.type \notin InitTypes /\ t \in Tasks /\ t.tile \in Tiles
           /\ IsTile(t) => t.sby = RowStart[TileRow(t.tile)]
           /\ ~IsTile(t) => t.recon = 1 /\ t.sby = 0 /\ t.type # "Cdef"
<1>r. PICK row : PassRow(row, p, filters) /\ TilesToo(row, p, filters)
  BY PassTasksAre
<1>1. ASSUME NEW t \in PassTasks(p, filters)
      PROVE  /\ Pass(t) = p /\ t.type \notin InitTypes /\ t \in Tasks /\ t.tile \in Tiles
             /\ IsTile(t) => t.sby = RowStart[TileRow(t.tile)]
             /\ ~IsTile(t) => t.recon = 1 /\ t.sby = 0 /\ t.type # "Cdef"
  <2>1. CASE t = row
    <3>1. t \in Tasks /\ t.sby = 0 /\ t.recon = 1 /\ TaskOK(t, filters) /\ Pass(t) = p
          /\ t.type \notin InitTypes
      BY <2>1, <1>r DEF PassRow
    <3>2. ~IsTile(t) /\ t.type # "Cdef"
      BY <3>1 DEF TaskOK
    <3> QED
      BY <3>1, <3>2 DEF Tasks
  <2>2. CASE t # row
    <3>1. PICK i \in Tiles : PassTile(t, i, p, filters)
      BY <2>2, <1>r, <1>1 DEF TilesToo
    <3>2. t = Task(IF p = 1 THEN "TileEntropy" ELSE "TileReconstruction", RowStart[TileRow(i)], i)
      BY <3>1 DEF PassTile
    <3>3. IsTile(t) /\ t.sby = RowStart[TileRow(i)] /\ t.tile = i
      BY <3>2 DEF Task, IsTile
    <3> QED
      BY <3>1, <3>3 DEF PassTile
  <2> QED
    BY <2>1, <2>2
<1> QED
  BY <1>1

\* A frame that cannot start is left at once.
Aborts(s, q) ==
  /\ fc'[s].finished
  /\ \E f \in Frames : /\ f.pic = fc[s].pic /\ fc'[s] = Left(f, TRUE)
                       /\ pics'[fc[s].pic] = LeftPic(f, AbortedPic(q), TRUE)

\* It is left at once, with the error in its picture.
LEMMA AbortEffect ==
  ASSUME IInv, NEW w \in Workers, at[w] \in {"Init", "InitCdf"}, NEW b \in BOOLEAN,
         Abort(Slot(w), b), Goto(w, "search"), UNCHANGED <<task, caller>>, NEW s, s = Slot(w)
  PROVE  /\ s \in Slots /\ Busy(w, s) /\ Acts(w, s) /\ at'[w] = "search" /\ task'[w] = task[w]
         /\ Aborts(s, Picture(w)) /\ Picture(w) = pics[fc[s].pic]
<1>1. /\ s \in Slots /\ fc[s] \in Frames /\ task[w] \in Tasks /\ Frame(w) = fc[s]
      /\ Picture(w) \in Pictures /\ Picture(w).filters = Filters(s) /\ setup \in DOMAIN Setups
      /\ [task EXCEPT ![w] = task[w]] = task /\ Busy(w, s)
  BY Now
<1>f. PICK f : f = [fc[s] EXCEPT !.counter = 0, !.done = [x \in {0, 1} |-> TRUE], !.initDone = b]
  OBVIOUS
<1>p. PICK p : p = AbortedPic(Picture(w))
  OBVIOUS
<1>3. f \in Frames /\ f.pic = fc[s].pic
  <2>1. [x \in {0, 1} |-> TRUE] \in [{0, 1} -> BOOLEAN] /\ 0 \in Nat
    OBVIOUS
  <2> QED
    BY <1>1, <1>f, <2>1 DEF Frames
<1>4. p \in Pictures /\ p.filters = Filters(s)
  <2>1. FRAME_ERROR \in 0 .. TILE_ERROR
    BY <1>1, SetupFacts DEF FRAME_ERROR, TILE_ERROR
  <2>2. [x \in {0, 1} |-> FRAME_ERROR] \in Progress
    BY <2>1 DEF Progress
  <2> QED
    BY <1>1, <1>p, <2>2 DEF AbortedPic, Pictures
<1>g. PICK g : g = Left(f, TRUE)
  OBVIOUS
<1>q. PICK q : q = LeftPic(f, p, TRUE)
  OBVIOUS
<1>5. g \in Frames /\ g.finished /\ g.pic = fc[s].pic
  BY <1>3, <1>g, LeftTypes
<1>6. q \in Pictures /\ q.filters = Filters(s)
  BY <1>1, <1>4, <1>q, LeftPicTypes
<1>7. StepTo(w, "search", task[w], g, q)
  <2>1. fc' = [fc EXCEPT ![s] = g]
    BY <1>f, <1>g DEF Abort
  <2>2. pics' = [pics EXCEPT ![fc[s].pic] = q]
    BY <1>1, <1>f, <1>q, <1>p, <1>3 DEF Abort, Picture, Frame
  <2> QED
    BY <1>1, <2>1, <2>2 DEF StepTo, Goto
<1>8. Does(w, s, "search", task[w], g, q)
  BY <1>1, <1>5, <1>6, <1>7 DEF Does, Keeps, Places
<1>9. Acts(w, s) /\ fc'[s] = g /\ at'[w] = "search" /\ task'[w] = task[w] /\ pics'[fc[s].pic] = q
  BY <1>8, Doing
<1>10. Aborts(s, Picture(w))
  BY <1>3, <1>5, <1>9, <1>g, <1>q, <1>p DEF Aborts
<1> QED
  BY <1>1, <1>9, <1>10 DEF Picture

\* An aborted frame shows nothing that is not there.
LEMMA AbortSlice ==
  ASSUME RInv, IInv', NEW w \in Workers, at[w] \in {"Init", "InitCdf"}, NEW b \in BOOLEAN,
         Abort(Slot(w), b), Goto(w, "search"), UNCHANGED <<task, caller>>
  PROVE  RInv'
<1>0. IInv
  BY DEF RInv
<1>s. PICK s : s = Slot(w)
  OBVIOUS
<1>1. /\ s \in Slots /\ Busy(w, s) /\ Acts(w, s) /\ Aborts(s, Picture(w))
      /\ Picture(w) = pics[fc[s].pic]
  BY <1>0, <1>s, AbortEffect
<1>2. PICK f \in Frames : pics'[fc[s].pic] = LeftPic(f, AbortedPic(pics[fc[s].pic]), TRUE)
  BY <1>1 DEF Aborts
<1>3. /\ setup' = setup /\ fc[s].pic \in 1 .. Number /\ Honest(fc[s].pic) /\ fc'[s].pic = fc[s].pic
      /\ pics[fc[s].pic] \in Pictures /\ fc'[s].finished /\ setup \in DOMAIN Setups
  BY <1>0, <1>1, <1>s, BusyFacts DEF RInv, Acts, Touch, Aborts
<1>p. PICK p : p = AbortedPic(pics[fc[s].pic])
  OBVIOUS
<1>4. p \in Pictures /\ p.progress[1] = FRAME_ERROR /\ p.filtered = pics[fc[s].pic].filtered
  <2>1. FRAME_ERROR \in 0 .. TILE_ERROR
    BY <1>3, SetupFacts DEF FRAME_ERROR, TILE_ERROR
  <2>2. [x \in {0, 1} |-> FRAME_ERROR] \in Progress
    BY <2>1 DEF Progress
  <2> QED
    BY <1>3, <1>p, <2>2 DEF AbortedPic, Pictures
<1>5. Honest(fc[s].pic)'
  <2>e. PICK e : e = TRUE
    OBVIOUS
  <2>1. pics'[fc[s].pic] = LeftPic(f, p, e)
    BY <1>2, <1>p, <2>e
  <2>2. ASSUME NEW n, n = fc[s].pic PROVE Honest(n)'
    <3>1. /\ Honest(n) /\ p.progress[1] \in {pics[n].progress[1], FRAME_ERROR}
          /\ p.filtered = pics[n].filtered /\ pics'[n] = LeftPic(f, p, e)
      BY <1>3, <1>4, <2>1, <2>2
    <3> QED
      <4>1. setup' = setup /\ p \in Pictures
        BY <1>3, <1>4
      <4>2. LeftPic(f, p, e).filtered = p.filtered
        BY <4>1 DEF LeftPic, Pictures
      <4>3. LeftPic(f, p, e).progress[1] \in {p.progress[1], FRAME_ERROR}
        BY <4>1 DEF LeftPic, Pictures, Progress
      <4>4. pics'[n].progress[1] \in {pics[n].progress[1], FRAME_ERROR}
        BY <3>1, <4>3
      <4>5. pics[n].filtered \subseteq pics'[n].filtered
        BY <3>1, <4>2
      <4>6. Honest(n)
        BY <3>1
      <4> QED
        BY <4>1, <4>4, <4>5, <4>6, HonestKept
  <2> QED
    BY <2>2, <1>3 DEF Honest
<1> QED
  BY <1>0, <1>1, <1>3, <1>5, SliceStep

\* A step in a frame that has no rows and tiles before and after it.
Starts(w, s) ==
  /\ Acts(w, s) /\ Fixed(s) /\ fc'[s].tileProgress = fc[s].tileProgress
  /\ pics'[fc[s].pic] = pics[fc[s].pic]
  /\ \A t \in fc'[s].queue : t.type \in InitTypes
  /\ Busy(w, s)' => /\ task'[w].type \in InitTypes
                    /\ at'[w] \notin {"create", "tileDone", "tileFailed"}
  /\ \A p \in {0, 1} : Before(s, p) /\ Before(s, p)'

\* It has nothing to keep.
LEMMA StartsSlice ==
  ASSUME RInv, IInv', NEW s \in Slots, NEW w \in Workers, Starts(w, s)
  PROVE  RInv'
<1>1. /\ IInv /\ Acts(w, s) /\ ~fc'[s].finished /\ SliceOK(s) /\ fc[s].pic \in 1 .. Number
      /\ Honest(fc[s].pic) /\ setup' = setup /\ fc'[s].pic = fc[s].pic
      /\ fc[s] \in Frames /\ setup \in DOMAIN Setups
      /\ pics'[fc[s].pic] = pics[fc[s].pic] /\ fc'[s].tileProgress = fc[s].tileProgress
  <2>1. /\ IInv /\ Acts(w, s) /\ Touch(w, s) /\ Unfinished(s) /\ ~fc'[s].finished
        /\ pics'[fc[s].pic] = pics[fc[s].pic] /\ fc'[s].tileProgress = fc[s].tileProgress
    BY DEF Starts, Acts, Fixed, RInv
  <2>2. /\ SliceOK(s) /\ fc[s].pic \in 1 .. Number
    BY <2>1 DEF RInv, IInv, FrameOK, Unfinished
  <2>3. Honest(fc[s].pic) /\ fc[s] \in Frames /\ setup \in DOMAIN Setups
    BY <2>1, <2>2 DEF RInv, IInv, TypeOK
  <2> QED
    BY <2>1, <2>2, <2>3 DEF Touch
<1>2. /\ \A t \in fc'[s].queue : ~IsTile(t) /\ ~IsRow(t)
      /\ Busy(w, s)' => /\ ~IsTile(task'[w]) /\ ~IsRow(task'[w])
                        /\ at'[w] \notin {"create", "tileDone", "tileFailed"}
      /\ \A p \in {0, 1} : Before(s, p) /\ Before(s, p)'
  BY DEF Starts, IsTile, IsRow, InitTypes
<1>3. /\ fc'[s].frame = fc[s].frame /\ fc'[s].done = fc[s].done
      /\ fc'[s].deblock = fc[s].deblock /\ fc'[s].copyLpf = fc[s].copyLpf
  BY DEF Starts, Fixed
<1>4. TileOK(s)'
  <2>1. TileOK(s) /\ (Before(s, 1) => Before(s, 1)')
    BY <1>1, <1>2 DEF SliceOK
  <2> QED
    BY <1>1, <1>2, <2>1, TilesKept
<1>5. PastOK(s)'
  <2>1. PastOK(s) /\ Before(s, 0)'
    BY <1>1, <1>2 DEF SliceOK
  <2>2. Grows(s)
    <3>1. fc[s].tileProgress \in [{0, 1} -> [Tiles -> 0 .. TILE_ERROR]]
      BY <1>1 DEF Frames
    <3>2. 0 .. TILE_ERROR \subseteq Int
      BY <1>1, SetupFacts DEF TILE_ERROR
    <3> QED
      BY <1>1, <3>1, <3>2 DEF Grows
  <2> QED
    BY <1>1, <1>2, <2>1, <2>2, PastKept
<1>6. FiltOK(s)'
  <2>1. FiltOK(s)
    BY <1>1 DEF SliceOK
  <2> QED
    BY <1>1, <1>2, <1>3, <2>1, FiltKept
<1>7. PicOK(s)'
  <2>1. PicOK(s) /\ (Before(s, 0)' <=> Before(s, 0))
    BY <1>1, <1>2 DEF SliceOK
  <2> QED
    BY <1>1, <1>3, <2>1, PicKept
<1>8. Honest(fc[s].pic)'
  <2>1. \A n : n = fc[s].pic => Honest(n)'
    BY <1>1, HonestKept
  <2> QED
    BY <2>1, <1>1 DEF Honest
<1> QED
  BY <1>1, <1>4, <1>5, <1>6, <1>7, <1>8, SliceStep DEF SliceOK

\* A worker at the first task of a frame aborts it, or goes on to its CDF.
LEMMA InitFrameEffect ==
  ASSUME IInv, NEW w \in Workers, InitFrame(w), NEW s, s = Slot(w)
  PROVE  /\ s \in Slots /\ at[w] = "Init" /\ UNCHANGED caller
         /\ \/ Abort(Slot(w), FALSE) /\ Goto(w, "search") /\ UNCHANGED task
            \/ Starts(w, s)
<1>1. at[w] = "Init" /\ UNCHANGED caller
  BY DEF InitFrame
<1>2. /\ s \in Slots /\ fc[s] \in Frames /\ task[w] \in Tasks /\ task[w].slot = s
      /\ Frame(w) = fc[s] /\ Picture(w) \in Pictures
      /\ Picture(w).filters = Filters(s) /\ setup \in DOMAIN Setups /\ Busy(w, s)
      /\ ~fc[s].finished
      /\ [task EXCEPT ![w] = task[w]] = task /\ [fc EXCEPT ![Slot(w)] = Frame(w)] = fc
      /\ [pics EXCEPT ![Frame(w).pic] = Picture(w)] = pics
  BY <1>1, Now
<1>3. /\ task[w].type \in InitTypes /\ fc[s].queue = {} /\ Picture(w) = pics[fc[s].pic]
  BY <1>1, StartMine, BusyFacts
<1>4. \A p \in {0, 1} : Before(s, p)
  BY <1>1, <1>2, <1>3 DEF Before
<1>5. CASE Abort(Slot(w), FALSE) /\ Goto(w, "search") /\ UNCHANGED task
  BY <1>1, <1>2, <1>5
<1>6. CASE /\ task' = [task EXCEPT ![w].type = "InitCdf"]
           /\ Goto(w, "start") /\ UNCHANGED <<fc, pics>>
  <2>k. PICK k : k = [task[w] EXCEPT !.type = "InitCdf"]
    OBVIOUS
  <2>1. StepTo(w, "start", k, Frame(w), Picture(w))
    BY <1>1, <1>2, <1>6, <2>k DEF StepTo, Goto
  <2>2. k \in Tasks /\ k.slot = s /\ k.type = "InitCdf"
    BY <1>2, <2>k DEF Tasks, TaskTypes
  <2>3. Does(w, s, "start", k, fc[s], Picture(w))
    BY <1>1, <1>2, <2>1, <2>2 DEF Does, Keeps, Places
  <2>4. /\ Acts(w, s) /\ fc'[s] = fc[s] /\ at'[w] = "start" /\ task'[w] = k
        /\ pics'[fc[s].pic] = pics[fc[s].pic]
    BY <1>3, <2>3, Doing
  <2>5. Busy(w, s)'
    BY <1>2, <2>4, TouchFacts DEF Acts
  <2>6. \A p \in {0, 1} : Before(s, p)'
    BY <2>2, <2>4, <2>5 DEF Before, InitTypes
  <2>7. Starts(w, s)
    BY <1>2, <1>3, <1>4, <2>2, <2>4, <2>6 DEF Starts, Fixed, InitTypes
  <2> QED
    BY <1>1, <1>2, <2>7
<1>7. CASE /\ fc' = [fc EXCEPT ![Slot(w)].queue = @ \cup Pend([task[w] EXCEPT !.type = "InitCdf"])]
           /\ Goto(w, "search") /\ UNCHANGED <<task, pics>>
  <2>t. PICK t : t = [task[w] EXCEPT !.type = "InitCdf", !.slot = None]
    OBVIOUS
  <2>g. PICK g : g = [fc[s] EXCEPT !.queue = @ \cup {t}]
    OBVIOUS
  <2>1. StepTo(w, "search", task[w], g, Picture(w))
    BY <1>1, <1>2, <1>7, <2>t, <2>g DEF StepTo, Goto, Pend, Tasks
  <2>2. t \in Tasks /\ t.type = "InitCdf"
    BY <1>2, <2>t DEF Tasks, TaskTypes
  <2>3. /\ g \in Frames /\ g.queue = {t} /\ g.pic = fc[s].pic /\ ~g.finished
        /\ g.frame = fc[s].frame /\ g.done = fc[s].done /\ g.deblock = fc[s].deblock
        /\ g.copyLpf = fc[s].copyLpf /\ g.entropy = fc[s].entropy
        /\ g.tileProgress = fc[s].tileProgress /\ g.error = fc[s].error
    BY <1>2, <1>3, <2>2, <2>g DEF Frames
  <2>4. Does(w, s, "search", task[w], g, Picture(w))
    BY <1>1, <1>2, <2>1, <2>3 DEF Does, Keeps, Places
  <2>5. /\ Acts(w, s) /\ fc'[s] = g /\ at'[w] = "search" /\ task'[w] = task[w]
        /\ pics'[fc[s].pic] = pics[fc[s].pic]
    BY <1>3, <2>4, Doing
  <2>6. \A p \in {0, 1} : Before(s, p)'
    BY <2>2, <2>3, <2>5 DEF Before, InitTypes
  <2>7. Starts(w, s)
    BY <1>3, <1>4, <2>2, <2>3, <2>5, <2>6 DEF Starts, Fixed, InitTypes
  <2> QED
    BY <1>1, <1>2, <2>7
<1> QED
  BY <1>5, <1>6, <1>7 DEF InitFrame

\* Neither disturbs the rows.
LEMMA InitFrameSlice ==
  ASSUME RInv, NEW w \in Workers, InitFrame(w)
  PROVE  RInv'
<1>0. IInv /\ IInv'
  BY InitFrameStep DEF RInv
<1>s. PICK s : s = Slot(w)
  OBVIOUS
<1>1. /\ s \in Slots /\ at[w] = "Init" /\ UNCHANGED caller
      /\ \/ Abort(Slot(w), FALSE) /\ Goto(w, "search") /\ UNCHANGED task
         \/ Starts(w, s)
  BY <1>0, <1>s, InitFrameEffect
<1>2. CASE Abort(Slot(w), FALSE) /\ Goto(w, "search") /\ UNCHANGED task
  <2>1. FALSE \in BOOLEAN
    OBVIOUS
  <2> QED
    BY <1>0, <1>1, <1>2, <2>1, AbortSlice
<1>3. CASE Starts(w, s)
  BY <1>0, <1>1, <1>3, StartsSlice
<1> QED
  BY <1>1, <1>2, <1>3

\* A worker that creates the first pass of a frame is alone in it.
Opens(w, s) ==
  LET p == pics[fc[s].pic]
  IN /\ Acts(w, s) /\ at'[w] = "create" /\ task'[w] = task[w]
     /\ task[w].type = "InitCdf" /\ fc[s].queue = {} /\ TwoPass
     /\ pics'[fc[s].pic] = p /\ p.filters \in SUBSET {"deblock", "cdef"}
     /\ ~fc'[s].finished /\ ~fc[s].error /\ ~fc'[s].error
     /\ fc'[s].queue = PassTasks(1, p.filters)
     /\ \A q \in {0, 1} : \A i \in Tiles : fc'[s].tileProgress[q][i] = RowStart[TileRow(i)]
     /\ fc'[s].entropy = 0 /\ ~fc'[s].done[1]
     /\ Busy(w, s)' /\ \A v \in Workers : Busy(v, s)' => v = w
     /\ Before(s, 0) /\ Before(s, 1) /\ Before(s, 0)' /\ ~Before(s, 1)'

\* The worker that starts a frame aborts it, or creates the first pass.
LEMMA InitFrameCdfEffect ==
  ASSUME IInv, NEW w \in Workers, InitFrameCdf(w), NEW s, s = Slot(w)
  PROVE  /\ s \in Slots /\ at[w] = "InitCdf" /\ UNCHANGED <<task, caller>>
         /\ \/ Abort(Slot(w), TRUE) /\ Goto(w, "search")
            \/ Opens(w, s)
<1>1. at[w] = "InitCdf" /\ UNCHANGED <<task, caller>>
  BY DEF InitFrameCdf
<1>2. /\ s \in Slots /\ fc[s] \in Frames /\ task[w] \in Tasks /\ task[w].slot = s
      /\ Frame(w) = fc[s] /\ Picture(w) \in Pictures
      /\ Picture(w).filters = Filters(s) /\ setup \in DOMAIN Setups /\ Busy(w, s)
      /\ ~fc[s].finished
      /\ [task EXCEPT ![w] = task[w]] = task
      /\ [pics EXCEPT ![Frame(w).pic] = Picture(w)] = pics
  BY <1>1, Now
<1>3. /\ TwoPass /\ task[w].type = "InitCdf" /\ fc[s].queue = {} /\ Picture(w) = pics[fc[s].pic]
      /\ \A v \in Workers \ {w} : ~Busy(v, s)
  BY <1>1, StartMine, BusyFacts
<1>4. Before(s, 0) /\ Before(s, 1)
  BY <1>1, <1>2, <1>3 DEF Before, InitTypes
<1>5. CASE Abort(Slot(w), TRUE) /\ Goto(w, "search")
  BY <1>1, <1>2, <1>5
<1>6. CASE /\ ~Frame(w).error
           /\ fc' = [fc EXCEPT ![Slot(w)] = Created(SetUp(Frame(w)), 1, Picture(w).filters)]
           /\ Goto(w, "create") /\ UNCHANGED pics
  <2>f. PICK f : f = SetUp(fc[s])
    OBVIOUS
  <2>g. PICK g : g = Created(f, 1, Filters(s))
    OBVIOUS
  <2>In. PICK In : In = PassTasks(1, Filters(s))
    OBVIOUS
  <2>0. Filters(s) \in SUBSET {"deblock", "cdef"} /\ ~fc[s].error
    BY <1>2, <1>6 DEF Pictures
  <2>1. f \in Frames /\ Like(fc[s], f)
    BY <1>2, <2>f, SetUpFacts
  <2>2. /\ g \in Frames /\ g.queue = In /\ g.pic = fc[s].pic /\ ~g.finished /\ ~g.done[1]
    <3>1. PassTasks(1, Filters(s)) \subseteq Tasks
      BY <1>2, <1>3, <2>0, PassTasksFacts
    <3>2. setup \in DOMAIN Setups /\ f \in Frames /\ 1 \in {0, 1}
      BY <1>2, <2>1
    <3>3. /\ g \in Frames /\ g.queue = f.queue \cup In /\ g.pic = f.pic
          /\ g.counter = f.counter /\ g.finished = f.finished
          /\ g.nextTileRow = [f.nextTileRow EXCEPT ![1] = 0]
          /\ g.done = [f.done EXCEPT ![1] = FALSE]
      BY <2>g, <2>In, <3>1, <3>2, CreatedFacts
    <3>4. f.done \in [{0, 1} -> BOOLEAN]
      BY <2>1 DEF Frames
    <3> QED
      BY <1>2, <1>3, <2>1, <3>3, <3>4 DEF Like
  <2>3. /\ \A p \in {0, 1} : \A i \in Tiles : g.tileProgress[p][i] = RowStart[TileRow(i)]
        /\ g.error = fc[s].error /\ g.entropy = 0
    <3>1. /\ \A p \in {0, 1} : \A i \in Tiles : f.tileProgress[p][i] = RowStart[TileRow(i)]
          /\ f.error = fc[s].error
      BY <1>2, <2>f, SetUpProgress
    <3>2. g.tileProgress = f.tileProgress /\ g.error = f.error /\ g.entropy = 0
      BY <1>2, <2>1, <2>g, CreatedProgress
    <3> QED
      BY <3>1, <3>2
  <2>4. StepTo(w, "create", task[w], g, Picture(w))
    BY <1>1, <1>2, <1>6, <2>f, <2>g DEF StepTo, Goto
  <2>5. Does(w, s, "create", task[w], g, Picture(w))
    BY <1>1, <1>2, <2>0, <2>2, <2>3, <2>4 DEF Does, Keeps, Places
  <2>6. /\ Acts(w, s) /\ fc'[s] = g /\ at'[w] = "create" /\ task'[w] = task[w]
        /\ pics'[fc[s].pic] = pics[fc[s].pic]
    BY <1>3, <2>5, Doing
  <2>7. /\ Touch(w, s) /\ setup' = setup /\ fc'[s].pic = fc[s].pic /\ Unfinished(s)
    BY <2>6 DEF Acts, Touch
  <2>8. Busy(w, s)' /\ \A v \in Workers : Busy(v, s)' => v = w
    BY <1>2, <1>3, <2>6, <2>7, TouchFacts
  <2>9. Before(s, 0)' /\ ~Before(s, 1)'
    <3>1. Before(s, 0)'
      BY <1>3, <2>6, <2>8 DEF Before, InitTypes
    <3>2. \A t \in In : t.type \notin InitTypes
      BY <1>2, <1>3, <2>0, <2>In, PassTasksRows
    <3>3. fc'[s].queue = In /\ InitTypes' = InitTypes
      BY <2>2, <2>6 DEF InitTypes
    <3>4. ~Before(s, 1)'
      BY <2>6, <2>8, <3>2, <3>3 DEF Before
    <3> QED
      BY <3>1, <3>4
  <2>10. Opens(w, s)
    BY <1>3, <1>4, <2>0, <2>2, <2>3, <2>6, <2>8, <2>9, <2>In DEF Opens, Filters
  <2> QED
    BY <1>1, <1>2, <2>10
<1> QED
  BY <1>5, <1>6 DEF InitFrameCdf

\* The tiles are at their first rows then, and no row is under way.
LEMMA OpensSlice ==
  ASSUME RInv, IInv', NEW s \in Slots, NEW w \in Workers, Opens(w, s)
  PROVE  RInv'
<1>1. /\ IInv /\ Acts(w, s) /\ Touch(w, s) /\ setup' = setup /\ fc'[s].pic = fc[s].pic
      /\ Unfinished(s) /\ setup \in DOMAIN Setups
  BY DEF Opens, Acts, Touch, RInv, IInv, TypeOK
<1>2. /\ \A v \in Workers : Busy(v, s)' => v = w /\ at'[v] = "create" /\ task'[v] = task[w]
      /\ ~IsTile(task[w]) /\ ~IsRow(task[w])
  BY DEF Opens, IsTile, IsRow, InitTypes
<1>3. \A t \in fc'[s].queue : /\ Pass(t) = 1 /\ t.tile \in Tiles
                              /\ IsTile(t) => t.sby = RowStart[TileRow(t.tile)]
                              /\ ~IsTile(t) => t.recon = 1
  <2>1. TwoPass /\ Filters(s) \in SUBSET {"deblock", "cdef"} /\ fc'[s].queue = PassTasks(1, Filters(s))
    BY DEF Opens, Filters
  <2> QED
    BY <1>1, <2>1, PassTasksRows
<1>4. /\ Tiles' = Tiles /\ TILE_ERROR' = TILE_ERROR /\ RowStart' = RowStart /\ TileCols' = TileCols
      /\ FRAME_ERROR' = FRAME_ERROR
  BY <1>1, SameSetup
<1>5. \A i : TileRow(i)' = TileRow(i)
  BY <1>4 DEF TileRow
<1>6. \A q \in {0, 1} : \A i \in Tiles : fc'[s].tileProgress[q][i] = RowStart[TileRow(i)]
  BY DEF Opens
<1>7. TileOK(s)'
  <2>1. ASSUME NEW t \in fc'[s].queue, IsTile(t) PROVE AtRow(fc[s], t)'
    BY <2>1, <1>3, <1>4, <1>6 DEF AtRow, Pass
  <2>2. ASSUME NEW v \in Workers, Busy(v, s)'
        PROVE  /\ ~IsTile(task'[v]) /\ at'[v] = "create"
               /\ \A i \in Tiles : fc'[s].tileProgress[0][i] = RowStart[TileRow(i)]
    BY <2>2, <1>2, <1>6
  <2>3. \A p \in {0, 1} : \A i \in Tiles : fc'[s].tileProgress[p][i] # TILE_ERROR
    <3>1. \A i \in Tiles : RowStart[TileRow(i)] # TILE_ERROR
      BY <1>1, TileRowType, SetupFacts DEF Rows, TILE_ERROR
    <3> QED
      BY <3>1, <1>6
  <2>4. \A t : IsTile(t)' <=> IsTile(t)
    BY DEF IsTile
  <2> QED
    BY <2>1, <2>2, <2>3, <2>4, <1>4, <1>5 DEF TileOK, Pass
<1>8. Before(s, 0) /\ Before(s, 0)' /\ pics'[fc[s].pic] = pics[fc[s].pic]
  BY DEF Opens
<1>9. PastOK(s)' /\ FiltOK(s)'
  <2>1. \A t : (IsRow(t)' <=> IsRow(t)) /\ Pass(t)' = Pass(t)
    BY DEF IsRow, IsTile, InitTypes, Pass
  <2>2. /\ \A t \in fc'[s].queue : Pass(t) = 1 /\ (IsRow(t) => t.recon # 0)
        /\ \A v \in Workers : Busy(v, s)' => ~IsRow(task'[v])
    BY <1>2, <1>3 DEF IsRow
  <2> QED
    BY <1>8, <2>1, <2>2 DEF PastOK, FiltOK
<1>10. SliceOK(s) /\ Honest(fc[s].pic) /\ fc[s].pic \in 1 .. Number
  BY <1>1 DEF RInv, IInv, FrameOK, Unfinished
<1>11. PicOK(s)'
  <2>1. /\ pics[fc[s].pic].progress[1] = 0 /\ pics[fc[s].pic].filtered = {}
        /\ pics[fc[s].pic].progress[1] # FRAME_ERROR
    BY <1>8, <1>10 DEF SliceOK, PicOK, Opens
  <2> QED
    BY <1>1, <1>4, <1>8, <2>1 DEF PicOK
<1>12. Honest(fc[s].pic)'
  <2>1. \A n : n = fc[s].pic => Honest(n)'
    BY <1>1, <1>8, <1>10, HonestKept
  <2> QED
    BY <2>1, <1>1 DEF Honest
<1> QED
  BY <1>1, <1>7, <1>9, <1>11, <1>12, SliceStep DEF SliceOK

\* The worker that starts a frame does not disturb the rows.
LEMMA InitFrameCdfSlice ==
  ASSUME RInv, NEW w \in Workers, InitFrameCdf(w)
  PROVE  RInv'
<1>0. IInv /\ IInv'
  BY InitFrameCdfStep DEF RInv
<1>s. PICK s : s = Slot(w)
  OBVIOUS
<1>1. /\ s \in Slots /\ at[w] = "InitCdf" /\ UNCHANGED <<task, caller>>
      /\ \/ Abort(Slot(w), TRUE) /\ Goto(w, "search")
         \/ Opens(w, s)
  BY <1>0, <1>s, InitFrameCdfEffect
<1>2. CASE Abort(Slot(w), TRUE) /\ Goto(w, "search")
  <2>1. TRUE \in BOOLEAN
    OBVIOUS
  <2> QED
    BY <1>0, <1>1, <1>2, <2>1, AbortSlice
<1>3. CASE Opens(w, s)
  BY <1>0, <1>1, <1>3, OpensSlice
<1> QED
  BY <1>1, <1>2, <1>3

\* A worker that creates the second pass of a frame.
CreatesSecond(w, s) ==
  LET p == pics[fc[s].pic]
  IN /\ Acts(w, s) /\ at[w] = "create" /\ at'[w] = "search" /\ task'[w] = task[w]
     /\ Busy(w, s) /\ task[w].type = "InitCdf" /\ UNCHANGED caller
     /\ pics'[fc[s].pic] = p /\ p.filters \in SUBSET {"deblock", "cdef"}
     /\ ~fc'[s].finished /\ fc'[s].error = fc[s].error
     /\ fc'[s].queue = fc[s].queue \cup PassTasks(0, p.filters)
     /\ fc'[s].tileProgress = fc[s].tileProgress /\ fc'[s].entropy = fc[s].entropy
     /\ ~fc'[s].done[0] /\ fc'[s].done[1] = fc[s].done[1]
     /\ fc'[s].frame = {} /\ fc'[s].copyLpf = {} /\ fc'[s].deblock = 0
     /\ Before(s, 0) /\ (Before(s, 1)' <=> Before(s, 1))

\* ... and then those of the second, beside the workers at the first.
LEMMA CreateSecondEffect ==
  ASSUME IInv, NEW w \in Workers, CreateSecond(w), NEW s, s = Slot(w)
  PROVE  s \in Slots /\ CreatesSecond(w, s)
<1>1. /\ at[w] = "create" /\ UNCHANGED <<task, pics, caller>> /\ Goto(w, "search")
      /\ fc' = [fc EXCEPT ![Slot(w)] = Created(@, 0, Picture(w).filters)]
  BY DEF CreateSecond
<1>2. /\ s \in Slots /\ fc[s] \in Frames /\ task[w] \in Tasks /\ task[w].slot = s
      /\ Frame(w) = fc[s] /\ Picture(w) \in Pictures
      /\ Picture(w).filters = Filters(s) /\ setup \in DOMAIN Setups /\ Busy(w, s)
      /\ ~fc[s].finished /\ PlaceOK(at[w], task[w].type)
      /\ [task EXCEPT ![w] = task[w]] = task /\ task \in [Workers -> Tasks]
      /\ [pics EXCEPT ![Frame(w).pic] = Picture(w)] = pics
  BY <1>1, Now
<1>3. task[w].type = "InitCdf" /\ Picture(w) = pics[fc[s].pic]
  BY <1>1, <1>2, BusyFacts DEF PlaceOK
<1>4. Before(s, 0)
  BY <1>1, <1>2, <1>3 DEF Before, InitTypes
<1>g. PICK g : g = Created(fc[s], 0, Filters(s))
  OBVIOUS
<1>In. PICK In : In = PassTasks(0, Filters(s))
  OBVIOUS
<1>5. Filters(s) \in SUBSET {"deblock", "cdef"}
  BY <1>2 DEF Pictures
<1>6. /\ g \in Frames /\ g.queue = fc[s].queue \cup In /\ g.pic = fc[s].pic
      /\ ~g.finished /\ ~g.done[0] /\ g.done[1] = fc[s].done[1] /\ g.frame = {}
  <2>1. /\ g \in Frames /\ g.queue = fc[s].queue \cup In /\ g.pic = fc[s].pic
        /\ g.counter = fc[s].counter /\ g.finished = fc[s].finished
        /\ g.nextTileRow = [fc[s].nextTileRow EXCEPT ![0] = 0]
        /\ g.done = [fc[s].done EXCEPT ![0] = FALSE] /\ g.frame = {}
    <3>1. PassTasks(0, Filters(s)) \subseteq Tasks
      BY <1>2, <1>5, PassTasksFacts
    <3> QED
      BY <1>2, <1>g, <1>In, <3>1, CreatedFacts
  <2>2. fc[s].done \in [{0, 1} -> BOOLEAN]
    BY <1>2 DEF Frames
  <2> QED
    BY <1>2, <2>1, <2>2
<1>7. /\ g.tileProgress = fc[s].tileProgress /\ g.error = fc[s].error
      /\ g.deblock = 0 /\ g.copyLpf = {} /\ g.entropy = fc[s].entropy
  BY <1>2, <1>g, CreatedProgress
<1>8. StepTo(w, "search", task[w], g, Picture(w))
  <2>1. fc' = [fc EXCEPT ![s] = g]
    BY <1>1, <1>2, <1>g
  <2> QED
    BY <1>1, <1>2, <2>1 DEF StepTo, Goto
<1>9. Does(w, s, "search", task[w], g, Picture(w))
  BY <1>1, <1>2, <1>6, <1>7, <1>8 DEF Does, Keeps, Places
<1>10. /\ Acts(w, s) /\ fc'[s] = g /\ at'[w] = "search" /\ task'[w] = task[w]
       /\ pics'[fc[s].pic] = pics[fc[s].pic]
  BY <1>3, <1>9, Doing
<1>11. /\ Touch(w, s) /\ setup' = setup /\ fc'[s].pic = fc[s].pic /\ Unfinished(s) /\ ~Busy(w, s)'
  BY <1>10 DEF Acts, Touch, Busy
<1>12. \A t \in In : t.type \notin InitTypes
  BY <1>2, <1>5, <1>In, PassTasksRows
<1>13. Before(s, 1)' <=> Before(s, 1)
  <2>1. \A v \in Workers \ {w} : /\ Busy(v, s)' <=> Busy(v, s)
                                 /\ at'[v] = at[v] /\ task'[v] = task[v]
    BY <1>2, <1>11, TouchFacts DEF Touch
  <2>2. InitTypes' = InitTypes /\ fc'[s].queue = fc[s].queue \cup In
    BY <1>6, <1>10 DEF InitTypes
  <2> QED
    BY <1>1, <1>11, <1>12, <2>1, <2>2 DEF Before
<1> QED
  BY <1>1, <1>2, <1>3, <1>4, <1>5, <1>6, <1>7, <1>10, <1>13, <1>In DEF CreatesSecond, Filters

\* No row of the second pass is under way before that.
LEMMA CreateSecondSlice ==
  ASSUME RInv, NEW w \in Workers, CreateSecond(w)
  PROVE  RInv'
<1>0. IInv /\ IInv'
  BY CreateSecondStep DEF RInv
<1>s. PICK s : s = Slot(w)
  OBVIOUS
<1>1. s \in Slots /\ CreatesSecond(w, s)
  BY <1>0, <1>s, CreateSecondEffect
<1>In. PICK In : In = PassTasks(0, Filters(s))
  OBVIOUS
<1>2. /\ s \in Slots /\ Acts(w, s) /\ Touch(w, s) /\ setup' = setup
      /\ fc'[s].pic = fc[s].pic /\ Unfinished(s) /\ ~Busy(w, s)' /\ Busy(w, s) /\ at[w] = "create"
      /\ fc[s] \in Frames /\ setup \in DOMAIN Setups /\ Filters(s) \in SUBSET {"deblock", "cdef"}
  BY <1>0, <1>1 DEF CreatesSecond, Acts, Touch, Busy, IInv, TypeOK, Filters
<1>3. /\ fc'[s].queue = fc[s].queue \cup In /\ ~fc'[s].finished
      /\ fc'[s].tileProgress = fc[s].tileProgress /\ fc'[s].error = fc[s].error
      /\ ~fc'[s].done[0] /\ fc'[s].frame = {} /\ fc'[s].copyLpf = {} /\ fc'[s].deblock = 0
      /\ pics'[fc[s].pic] = pics[fc[s].pic] /\ Before(s, 0) /\ (Before(s, 1) => Before(s, 1)')
  BY <1>1, <1>In DEF CreatesSecond, Filters
<1>4. SliceOK(s) /\ Honest(fc[s].pic) /\ fc[s].pic \in 1 .. Number
  BY <1>0, <1>2 DEF RInv, IInv, FrameOK, Unfinished
<1>5. \A t \in In : /\ Pass(t) = 0 /\ t.tile \in Tiles /\ t \in Tasks
                    /\ IsTile(t) => t.sby = RowStart[TileRow(t.tile)]
                    /\ ~IsTile(t) => t.recon = 1 /\ t.sby = 0 /\ t.type # "Cdef"
  BY <1>2, <1>In, PassTasksRows
<1>6. TileOK(s)'
  <2>1. TileOK(s) /\ \A i \in Tiles : fc[s].tileProgress[0][i] = RowStart[TileRow(i)]
    BY <1>1, <1>2, <1>4 DEF SliceOK, TileOK
  <2>2. \A t \in In : IsTile(t) => AtRow(fc[s], t)
    BY <1>5, <2>1 DEF AtRow
  <2>4. \A t \in fc'[s].queue : IsTile(t) => t \in fc[s].queue \/ AtRow(fc[s], t)
    BY <1>3, <1>2, <2>2
  <2> QED
    BY <1>0, <1>1, <1>2, <1>3, <2>1, <2>4, TilesKept
<1>7. PastOK(s)'
  <2>1. PastOK(s) /\ ~fc'[s].finished
    BY <1>3, <1>2, <1>4 DEF SliceOK
  <2>2. Grows(s)
    <3>1. fc[s].tileProgress \in [{0, 1} -> [Tiles -> 0 .. TILE_ERROR]]
      BY <1>2 DEF Frames
    <3>2. 0 .. TILE_ERROR \subseteq Int
      BY <1>2, SetupFacts DEF TILE_ERROR
    <3> QED
      BY <1>3, <1>2, <3>1, <3>2 DEF Grows
  <2>3. \A t \in fc'[s].queue : IsRow(t) /\ t.recon = 0 => t \in fc[s].queue
    BY <1>3, <1>2, <1>5 DEF IsRow
  <2>4. fc'[s].frame = {}
    BY <1>3, <1>2
  <2> QED
    BY <1>0, <1>2, <1>3, <2>1, <2>2, <2>3, <2>4, PastKept
<1>8. FiltOK(s)'
  <2>1. /\ \A t \in fc[s].queue : ~(IsRow(t) /\ Pass(t) = 0)
        /\ \A v \in Workers : Busy(v, s) => ~(IsRow(task[v]) /\ Pass(task[v]) = 0)
    BY <1>0, <1>2, <1>3, HolderBegun DEF IsRow
  <2>2. \A v \in Workers : Busy(v, s)' => ~(IsRow(task'[v]) /\ Pass(task'[v]) = 0)
    BY <1>2, <2>1, TouchFacts DEF Touch
  <2>3. \A t : (IsRow(t)' <=> IsRow(t)) /\ Pass(t)' = Pass(t)
    BY DEF IsRow, IsTile, InitTypes, Pass
  <2>4. ASSUME NEW t \in fc'[s].queue, IsRow(t), Pass(t) = 0
        PROVE  RowQueued(fc[s], Filters(s), t)'
    <3>1. t \in In
      BY <1>3, <1>2, <2>1, <2>4
    <3>2. t.sby = 0 /\ t.type # "Cdef"
      BY <1>5, <2>4, <3>1 DEF IsRow
    <3>3. fc'[s].deblock = 0
      BY <1>3, <1>2
    <3> QED
      BY <3>2, <3>3 DEF RowQueued
  <2> QED
    BY <2>2, <2>3, <2>4 DEF FiltOK
<1>9. PicOK(s)'
  <2>1. /\ pics[fc[s].pic].progress[1] = 0 /\ pics[fc[s].pic].filtered = {}
        /\ pics[fc[s].pic].progress[1] = FRAME_ERROR => fc[s].error
    BY <1>3, <1>4 DEF SliceOK, PicOK
  <2>2. FRAME_ERROR' = FRAME_ERROR
    BY <1>2, SameSetup
  <2>3. fc'[s].frame = {} /\ ~fc'[s].done[0] /\ fc'[s].error = fc[s].error
    BY <1>3, <1>2
  <2> QED
    BY <1>2, <1>3, <2>1, <2>2, <2>3 DEF PicOK
<1>10. Honest(fc[s].pic)'
  <2>1. \A n : n = fc[s].pic => Honest(n)'
    BY <1>2, <1>3, <1>4, HonestKept
  <2> QED
    BY <2>1, <1>2 DEF Honest
<1> QED
  BY <1>0, <1>2, <1>3, <1>6, <1>7, <1>8, <1>9, <1>10, SliceStep DEF SliceOK

----------------------------------------------------------------------------
(* The search *)

\* A row is in one row of tiles, which next_tile_row finds by its number.
LEMMA RowTilesAre ==
  ASSUME setup \in DOMAIN Setups, NEW f \in Frames, NEW t \in Tasks,
         RowStart[f.nextTileRow[Pass(t)]] <= t.sby,
         t.sby < RowStart[f.nextTileRow[Pass(t)] + 1],
         NEW i \in Tiles, RowStart[TileRow(i)] <= t.sby, t.sby < RowStart[TileRow(i) + 1]
  PROVE  i \in RowTiles(f, t)
<1>n. PICK n : n = f.nextTileRow[Pass(t)]
  OBVIOUS
<1>q. PICK q : q = TileRow(i)
  OBVIOUS
<1>1. /\ n \in 0 .. TileRows - 1 /\ q \in 0 .. TileRows - 1 /\ TileRows \in Nat \ {0}
      /\ TileCols \in Nat \ {0} /\ t.sby \in Nat
  <2>1. q \in 0 .. TileRows - 1 /\ TileRows \in Nat \ {0} /\ TileCols \in Nat \ {0} /\ Sbh \in Nat
    BY <1>q, SetupFacts, TileRowType
  <2>2. f.nextTileRow \in [{0, 1} -> 0 .. TileRows - 1] /\ Pass(t) \in {0, 1}
    BY DEF Frames, Pass
  <2>3. t.sby \in Nat
    BY <2>1 DEF Tasks, Rows
  <2> QED
    BY <1>n, <2>1, <2>2, <2>3
<1>2. /\ n \in 0 .. TileRows /\ n + 1 \in 0 .. TileRows
      /\ q \in 0 .. TileRows /\ q + 1 \in 0 .. TileRows
  BY <1>1
<1>3. /\ \A x \in 0 .. TileRows : RowStart[x] \in Nat
      /\ \A x, y \in 0 .. TileRows : x < y => RowStart[x] < RowStart[y]
  BY SetupFacts
<1>4. RowStart[n] <= t.sby /\ t.sby < RowStart[n + 1] /\ RowStart[q] <= t.sby /\ t.sby < RowStart[q + 1]
  BY <1>n, <1>q
<1>5. \A x, y \in 0 .. TileRows : x <= y => RowStart[x] <= RowStart[y]
  <2>1. ASSUME NEW x \in 0 .. TileRows, NEW y \in 0 .. TileRows, x <= y
        PROVE  RowStart[x] <= RowStart[y]
    <3>1. RowStart[x] \in Nat /\ RowStart[y] \in Nat /\ (x < y => RowStart[x] < RowStart[y])
      BY <1>3
    <3>2. CASE x = y
      BY <3>1, <3>2
    <3>3. CASE x # y
      <4>1. x < y
        BY <1>1, <2>1, <3>3
      <4> QED
        BY <3>1, <4>1
    <3> QED
      BY <3>2, <3>3
  <2> QED
    BY <2>1
<1>6. ~(n < q)
  <2>1. ASSUME n < q PROVE FALSE
    <3>1. n + 1 <= q
      BY <1>1, <2>1
    <3>2. RowStart[n + 1] <= RowStart[q] /\ RowStart[n + 1] \in Nat /\ RowStart[q] \in Nat
      BY <1>2, <1>3, <1>5, <3>1
    <3> QED
      BY <1>1, <1>4, <3>2
  <2> QED
    BY <2>1
<1>7. ~(q < n)
  <2>1. ASSUME q < n PROVE FALSE
    <3>1. q + 1 <= n
      BY <1>1, <2>1
    <3>2. RowStart[q + 1] <= RowStart[n] /\ RowStart[q + 1] \in Nat /\ RowStart[n] \in Nat
      BY <1>2, <1>3, <1>5, <3>1
    <3> QED
      BY <1>1, <1>4, <3>2
  <2> QED
    BY <2>1
<1>8. q = n
  BY <1>1, <1>6, <1>7
<1>9. \A c \in Nat \ {0} : \A j \in Nat : \E m \in 0 .. c - 1 : j = (j \div c) * c + m
  <2>1. ASSUME NEW c \in Nat \ {0}, NEW j \in Nat
        PROVE  \E m \in 0 .. c - 1 : j = (j \div c) * c + m
    <3>1. j % c \in 0 .. c - 1 /\ j = (j \div c) * c + (j % c)
      BY <2>1
    <3> QED
      BY <3>1
  <2> QED
    BY <2>1
<1>10. i \in Nat
  BY <1>1 DEF Tiles
<1>11. \E m \in 0 .. TileCols - 1 : i = q * TileCols + m
  BY <1>1, <1>9, <1>10, <1>q DEF TileRow
<1> QED
  BY <1>8, <1>11, <1>n DEF RowTiles

\* A worker takes task t of the frame in s.
Takes(w, s, t) ==
  /\ Acts(w, s) /\ ~Busy(w, s) /\ Busy(w, s)' /\ Fixed(s) /\ Ready(fc[s], t)
  /\ fc'[s].queue = (fc[s].queue \ {t}) \cup NextRows(t)
  /\ fc'[s].tileProgress = fc[s].tileProgress
  /\ fc'[s].error = (fc[s].error \/ SeesError(fc[s], t))
  /\ at'[w] = "start" /\ pics' = pics /\ task'[w] = [t EXCEPT !.slot = s]

\* The search takes a task that is ready.
LEMMA FindTaskEffect ==
  ASSUME IInv, NEW w \in Workers, FindTask(w)
  PROVE  \E s \in Slots : \E t \in fc[s].queue : Takes(w, s, t)
<1>1. at[w] = "search" /\ Goto(w, "start") /\ UNCHANGED <<pics, caller>>
  BY DEF FindTask
<1>s. PICK s \in Slots : \E t \in fc[s].queue :
        /\ Ready(fc[s], t)
        /\ fc' = [fc EXCEPT
             ![s].queue = (@ \ {t}) \cup NextRows(t),
             ![s].nextTileRow = NextTileRow(fc[s], t),
             ![s].error = @ \/ SeesError(fc[s], t)]
        /\ task' = [task EXCEPT ![w] = [t EXCEPT !.slot = s]]
  BY DEF FindTask
<1>t. PICK t \in fc[s].queue :
        /\ Ready(fc[s], t)
        /\ fc' = [fc EXCEPT
             ![s].queue = (@ \ {t}) \cup NextRows(t),
             ![s].nextTileRow = NextTileRow(fc[s], t),
             ![s].error = @ \/ SeesError(fc[s], t)]
        /\ task' = [task EXCEPT ![w] = [t EXCEPT !.slot = s]]
  BY <1>s
<1>2. /\ fc \in [Slots -> Frames] /\ task \in [Workers -> Tasks] /\ setup \in DOMAIN Setups
      /\ at \in [Workers -> Places]
  BY DEF IInv, TypeOK
<1>3. ~fc[s].finished /\ FrameOK(s)
  BY DEF IInv, Clean
<1>4. fc[s] \in Frames /\ t \in Tasks
  BY <1>2 DEF Frames
<1>k. PICK k : k = [t EXCEPT !.slot = s]
  OBVIOUS
<1>g. PICK g : g = [fc[s] EXCEPT !.queue = (@ \ {t}) \cup NextRows(t),
                                 !.nextTileRow = NextTileRow(fc[s], t),
                                 !.error = @ \/ SeesError(fc[s], t)]
  OBVIOUS
<1>5. k.slot = s
  BY <1>4, <1>k DEF Tasks
<1>6. /\ g.queue = (fc[s].queue \ {t}) \cup NextRows(t) /\ g.pic = fc[s].pic
      /\ g.finished = fc[s].finished /\ g.frame = fc[s].frame /\ g.done = fc[s].done
      /\ g.tileProgress = fc[s].tileProgress /\ g.deblock = fc[s].deblock
      /\ g.copyLpf = fc[s].copyLpf /\ g.entropy = fc[s].entropy
      /\ g.error = (fc[s].error \/ SeesError(fc[s], t))
  <2>1. (fc[s].error \/ SeesError(fc[s], t)) \in BOOLEAN
    OBVIOUS
  <2> QED
    BY <1>4, <1>g, <2>1 DEF Frames
<1>7. fc' = [fc EXCEPT ![s] = g] /\ task' = [task EXCEPT ![w] = k]
  BY <1>t, <1>2, <1>g, <1>k
<1>8. at' = [at EXCEPT ![w] = "start"]
  BY <1>1 DEF Goto
<1>9. /\ fc'[s] = g /\ task'[w] = k /\ at'[w] = "start" /\ pics' = pics /\ setup' = setup
      /\ main' = main /\ last' = last
  BY <1>1, <1>2, <1>7, <1>8 DEF caller
<1>10. Touch(w, s)
  <2>1. \A x \in Slots \ {s} : fc'[x] = fc[x]
    BY <1>2, <1>7
  <2>2. \A v \in Workers \ {w} : at'[v] = at[v] /\ task'[v] = task[v]
    BY <1>2, <1>7, <1>8
  <2> QED
    BY <1>1, <1>5, <1>6, <1>9, <2>1, <2>2 DEF Touch, Number
<1>11. ~Busy(w, s) /\ Busy(w, s)'
  BY <1>1, <1>9, <1>10, TouchFacts
<1>12. Acts(w, s)
  BY <1>3, <1>6, <1>9, <1>10 DEF Acts, Keeps, Unfinished
<1>13. Fixed(s)
  BY <1>3, <1>6, <1>9 DEF Fixed
<1>14. Takes(w, s, t)
  BY <1>t, <1>6, <1>9, <1>11, <1>12, <1>13, <1>k DEF Takes
<1> QED
  BY <1>14

\* What a worker finds is ready: a row of a chain is past its tiles, and a row
\* that waited is next.
LEMMA FindTaskSlice ==
  ASSUME RInv, NEW w \in Workers, FindTask(w)
  PROVE  RInv'
<1>0. IInv /\ IInv'
  BY FindTaskStep DEF RInv
<1>s. PICK s \in Slots : \E t \in fc[s].queue : Takes(w, s, t)
  BY <1>0, FindTaskEffect
<1>t. PICK t \in fc[s].queue : Takes(w, s, t)
  BY <1>s
<1>k. PICK k : k = [t EXCEPT !.slot = s]
  OBVIOUS
<1>1. /\ Acts(w, s) /\ ~Busy(w, s) /\ Busy(w, s)' /\ Ready(fc[s], t)
      /\ fc'[s].queue = (fc[s].queue \ {t}) \cup NextRows(t)
      /\ fc'[s].tileProgress = fc[s].tileProgress
      /\ at'[w] = "start" /\ pics' = pics /\ task'[w] = k
  BY <1>t, <1>k DEF Takes
<1>2. /\ ~fc'[s].finished /\ fc'[s].frame = fc[s].frame /\ fc'[s].done = fc[s].done
      /\ fc'[s].deblock = fc[s].deblock /\ fc'[s].copyLpf = fc[s].copyLpf
      /\ fc[s].error => fc'[s].error
  BY <1>t DEF Takes, Fixed
<1>3. /\ Touch(w, s) /\ setup' = setup /\ fc'[s].pic = fc[s].pic /\ Unfinished(s)
  BY <1>1 DEF Acts, Touch
<1>4. /\ SliceOK(s) /\ fc[s].pic \in 1 .. Number /\ FrameOK(s) /\ TasksOK(s) /\ ChainOK(s)
  BY <1>3 DEF RInv, IInv, FrameOK, Unfinished
<1>5. /\ Honest(fc[s].pic) /\ fc[s] \in Frames /\ setup \in DOMAIN Setups
      /\ t \in Tasks /\ TaskOK(t, Filters(s))
  BY <1>0, <1>4 DEF RInv, IInv, TypeOK, Frames, TasksOK
<1>6. /\ k.type = t.type /\ k.sby = t.sby /\ k.tile = t.tile /\ k.recon = t.recon
      /\ k.deblock = t.deblock
  BY <1>5, <1>k DEF Tasks
<1>7. Pass(k) = Pass(t) /\ (IsTile(k) <=> IsTile(t)) /\ (IsRow(k) <=> IsRow(t)) /\ Pass(t) \in {0, 1}
  BY <1>6 DEF IsRow, IsTile, Pass
<1>8. \A n \in NextRows(t) : /\ n.recon # 0 /\ ~IsTile(n) /\ n.type \notin InitTypes
                             /\ n.sby = t.sby + 1 /\ n.type = t.type /\ Pass(n) = Pass(t)
                             /\ t.recon # 0
  BY <1>5, NextRowIs
<1>9. \A p : Before(s, p)' <=> Before(s, p)
  <2>1. CASE t.type \in InitTypes
    <3>1. ASSUME NEW p PROVE Before(s, p)
      BY <2>1 DEF Before
    <3>2. ASSUME NEW p PROVE Before(s, p)'
      BY <2>1, <1>1, <1>6 DEF Before, InitTypes
    <3> QED
      BY <3>1, <3>2
  <2>2. CASE t.type \notin InitTypes
    <3>1. NoStart(w, s, NextRows(t), {t})
      BY <2>2, <1>1, <1>6, <1>8 DEF NoStart
    <3> QED
      BY <3>1, <1>3, BeforeKept
  <2> QED
    BY <2>1, <2>2
<1>10. TileOK(s)'
  <2>1. TileOK(s) /\ (Before(s, 1) => Before(s, 1)')
    BY <1>4, <1>9 DEF SliceOK
  <2>2. IsTile(k) => AtRow(fc[s], k)
    BY <1>6, <1>7, <2>1 DEF TileOK, AtRow
  <2>3. \A x \in fc'[s].queue : IsTile(x) => x \in fc[s].queue
    BY <1>1, <1>8
  <2> QED
    BY <1>0, <1>1, <1>2, <2>1, <2>2, <2>3, TilesKept
<1>11. IsRow(t) => TilesPast(fc[s], Pass(t), t.sby)
  <2>1. PastOK(s)
    BY <1>4 DEF SliceOK
  <2>2. ASSUME IsRow(t), t.recon # 0, NEW i \in Tiles,
               RowStart[TileRow(i)] <= t.sby, t.sby < RowStart[TileRow(i) + 1]
        PROVE  fc[s].tileProgress[Pass(t)][i] > t.sby
    <3>1. /\ RowStart[fc[s].nextTileRow[Pass(t)]] <= t.sby
          /\ t.sby < RowStart[fc[s].nextTileRow[Pass(t)] + 1]
      BY <1>4, <2>2 DEF ChainOK
    <3>2. i \in RowTiles(fc[s], t)
      BY <1>5, <2>2, <3>1, RowTilesAre
    <3>3. \A x \in RowTiles(fc[s], t) : fc[s].tileProgress[Pass(t)][x] >= t.recon
      BY <1>1, <2>2 DEF Ready, IsRow, InitTypes
    <3>4. t.recon = t.sby + 1
      BY <1>5, <2>2 DEF TaskOK
    <3>5. fc[s].tileProgress[Pass(t)][i] \in Nat /\ t.sby \in Nat
      <4>1. Sbh \in Nat /\ TILE_ERROR \in Nat /\ 0 .. TILE_ERROR \subseteq Nat
        BY <1>5, SetupFacts DEF TILE_ERROR
      <4>2. fc[s].tileProgress \in [{0, 1} -> [Tiles -> 0 .. TILE_ERROR]]
        BY <1>5 DEF Frames
      <4>3. t.sby \in Nat
        BY <1>5, <4>1 DEF Tasks, Rows
      <4> QED
        BY <1>7, <4>1, <4>2, <4>3
    <3> QED
      BY <3>2, <3>3, <3>4, <3>5
  <2>3. CASE t.recon = 0
    BY <2>1, <2>3 DEF PastOK
  <2>4. CASE t.recon # 0
    BY <2>2, <2>4 DEF TilesPast
  <2> QED
    BY <2>3, <2>4
<1>12. PastOK(s)'
  <2>1. PastOK(s)
    BY <1>4 DEF SliceOK
  <2>2. Grows(s)
    <3>1. fc[s].tileProgress \in [{0, 1} -> [Tiles -> 0 .. TILE_ERROR]]
      BY <1>5 DEF Frames
    <3>2. 0 .. TILE_ERROR \subseteq Int
      BY <1>5, SetupFacts DEF TILE_ERROR
    <3> QED
      BY <1>1, <3>1, <3>2 DEF Grows
  <2>3. \A x \in fc'[s].queue : IsRow(x) /\ x.recon = 0 => x \in fc[s].queue
    BY <1>1, <1>8
  <2>4. IsRow(k) => TilesPast(fc[s], Pass(k), k.sby)
    BY <1>6, <1>7, <1>11
  <2>5. ~Before(s, 0)' => \A r \in fc'[s].frame : r \in fc[s].frame /\ ~Before(s, 0)
    BY <1>2, <1>9
  <2> QED
    BY <1>0, <1>1, <1>2, <2>1, <2>2, <2>3, <2>4, <2>5, PastKept
<1>13. FiltOK(s)'
  <2>1. FiltOK(s)
    BY <1>4 DEF SliceOK
  <2>2. IsRow(t) /\ Pass(t) = 0 => RowQueued(fc[s], Filters(s), t)
    BY <2>1 DEF FiltOK
  <2>3. t.sby \in Nat /\ fc[s].deblock \in Nat
    <3>1. Sbh \in Nat /\ TILE_ERROR \in Nat
      BY <1>5, SetupFacts DEF TILE_ERROR
    <3>2. t.sby \in Nat
      BY <1>5, <3>1 DEF Tasks, Rows
    <3>3. fc[s].deblock \in 0 .. TILE_ERROR
      BY <1>5 DEF Frames
    <3> QED
      BY <3>1, <3>2, <3>3
  <2>4. ASSUME NEW n \in NextRows(t), IsRow(n), Pass(n) = 0
        PROVE  RowQueued(fc'[s], Filters(s), n)
    <3>1. IsRow(t) /\ Pass(t) = 0 /\ n.sby = t.sby + 1 /\ n.type = t.type /\ t.recon # 0
      BY <1>8, <2>4 DEF IsRow, IsTile
    <3>2. n.type # "Cdef"
      BY <1>5, <3>1 DEF TaskOK
    <3>3. "deblock" \in Filters(s) /\ ~fc'[s].error => fc'[s].deblock <= n.sby
      BY <1>2, <2>2, <2>3, <3>1 DEF RowQueued
    <3> QED
      BY <3>2, <3>3 DEF RowQueued
  <2>5. IsRow(k) /\ Pass(k) = 0 => RowAt(fc'[s], Filters(s), "start", k)
    <3>1. ASSUME IsRow(t), Pass(t) = 0
          PROVE  RowAt(fc'[s], Filters(s), "start", k)
      <4>1. RowQueued(fc[s], Filters(s), t)
        BY <2>2, <3>1
      <4>2. "deblock" \in Filters(s) /\ ~fc'[s].error => fc'[s].deblock <= k.sby
        BY <1>2, <1>6, <4>1 DEF RowQueued
      <4>3. "deblock" \in Filters(s) /\ k.type = "DeblockRows" => fc'[s].deblock >= k.sby
        <5>1. ASSUME "deblock" \in Filters(s), t.type = "DeblockRows"
              PROVE  fc[s].deblock >= t.sby
          <6>1. t.recon = 0 /\ t.deblock = t.sby
            BY <1>5, <5>1 DEF TaskOK
          <6>2. fc[s].deblock >= t.deblock
            BY <1>1, <5>1, <6>1 DEF Ready, IsTile
          <6> QED
            BY <6>1, <6>2
        <5> QED
          BY <5>1, <1>2, <1>6
      <4>4. k.type = "Cdef" => TopsSaved(fc'[s], k.sby)
        <5>1. ASSUME t.type = "Cdef" PROVE TopsSaved(fc'[s], t.sby)
          <6>1. t.recon = 0
            BY <1>5, <5>1 DEF TaskOK
          <6>2. t.sby - 1 \in fc[s].copyLpf
            BY <1>1, <5>1, <6>1 DEF Ready, IsTile
          <6>3. t.sby \in fc[s].copyLpf
            BY <4>1, <5>1 DEF RowQueued
          <6> QED
            BY <1>2, <6>2, <6>3 DEF TopsSaved
        <5> QED
          BY <5>1, <1>6
      <4> QED
        BY <4>2, <4>3, <4>4 DEF RowAt
    <3> QED
      BY <1>7, <3>1
  <2>6. \A x \in fc'[s].queue : IsRow(x) /\ Pass(x) = 0 =>
          x \in fc[s].queue \/ RowQueued(fc'[s], Filters(s), x)
    BY <1>1, <2>4
  <2> QED
    BY <1>0, <1>1, <1>2, <2>1, <2>5, <2>6, FiltKept
<1>14. PicOK(s)'
  <2>1. PicOK(s)
    BY <1>4 DEF SliceOK
  <2> QED
    BY <1>1, <1>2, <1>9, <2>1, PicKept
<1>15. Honest(fc[s].pic)'
  <2>1. \A n : n = fc[s].pic => Honest(n)'
    BY <1>1, <1>3, <1>5, HonestKept
  <2> QED
    BY <2>1, <1>3 DEF Honest
<1> QED
  BY <1>0, <1>1, <1>10, <1>12, <1>13, <1>14, <1>15, SliceStep DEF SliceOK

----------------------------------------------------------------------------
(* The caller *)

\* What the caller does to no frame in flight but the one it submits.
LEMMA CallerSlice ==
  ASSUME RInv, IInv', UNCHANGED <<at, task, setup>>,
         \A n \in 1 .. Number : pics'[n] = pics[n],
         \A n \in 1 .. Number' : n \in 1 .. Number \/ Honest(n)',
         \A x \in Slots : Unfinished(x)' =>
           SliceOK(x)' \/ (Unfinished(x) /\ fc'[x] = fc[x])
  PROVE  RInv'
<1>1. Slots' = Slots
  BY SameSetup
<1>2. ASSUME NEW x \in Slots, Unfinished(x), fc'[x] = fc[x]
      PROVE  SliceOK(x)'
  <2>1. SliceOK(x) /\ fc[x].pic \in 1 .. Number
    BY <1>2 DEF RInv, IInv, FrameOK, Unfinished
  <2>2. \A v \in Workers : /\ Busy(v, x)' <=> Busy(v, x)
                           /\ Busy(v, x) => at'[v] = at[v] /\ task'[v] = task[v]
    BY DEF Busy, Slot
  <2>3. setup' = setup /\ pics'[fc[x].pic] = pics[fc[x].pic]
    BY <2>1
  <2> QED
    BY <1>2, <2>1, <2>2, <2>3, SliceSame
<1>3. ASSUME NEW n \in 1 .. Number'
      PROVE  Honest(n)'
  <2>1. CASE n \in 1 .. Number
    <3>1. Honest(n) /\ pics'[n] = pics[n] /\ setup' = setup
      BY <2>1 DEF RInv
    <3> QED
      BY <3>1, HonestKept
  <2> QED
    BY <1>3, <2>1
<1> QED
  BY <1>1, <1>2, <1>3 DEF RInv

\* A new frame has a new picture, of which nothing is shown.
LEMMA NewSlice ==
  ASSUME RInv, IInv', UNCHANGED <<at, task, setup>>, NEW s \in Slots, fc[s].finished,
         NEW q \in Pictures, q.progress[1] = 0, pics' = Append(pics, q),
         NEW g, fc' = [fc EXCEPT ![s] = g], SliceOK(s)'
  PROVE  RInv'
<1>1. /\ fc \in [Slots -> Frames] /\ setup \in DOMAIN Setups /\ pics \in Seq(Pictures)
      /\ Number \in Nat
  BY DEF RInv, IInv, TypeOK, Number
<1>2. /\ Number' = Number + 1 /\ pics'[Number + 1] = q
      /\ \A n \in 1 .. Number : pics'[n] = pics[n]
  BY <1>1 DEF Number
<1>3. ASSUME NEW n, n = Number + 1
      PROVE  Honest(n)'
  <2>1. pics'[n].progress[1] = 0
    BY <1>2, <1>3
  <2>2. AllRows' # 0
    BY <1>1, SameSetup, SetupFacts DEF AllRows
  <2> QED
    BY <2>1, <2>2 DEF Honest
<1>4. \A n \in 1 .. Number' : n \in 1 .. Number \/ n = Number + 1
  BY <1>1, <1>2
<1>5. \A x \in Slots : x = s \/ fc'[x] = fc[x]
  BY <1>1
<1>6. \A x \in Slots : Unfinished(x)' => SliceOK(x)' \/ (Unfinished(x) /\ fc'[x] = fc[x])
  BY <1>5 DEF Unfinished
<1>7. \A n \in 1 .. Number' : n \in 1 .. Number \/ Honest(n)'
  BY <1>3, <1>4
<1> QED
  BY <1>2, <1>6, <1>7, CallerSlice

\* A new picture is empty.
LEMMA NewPicShows ==
  ASSUME NEW ref, NEW kind
  PROVE  NewPic(ref, kind).progress[1] = 0 /\ NewPic(ref, kind).filtered = {}
  BY DEF NewPic

\* A frame that is submitted has its first task alone.
LEMMA SubmitSlice ==
  ASSUME RInv, NEW s \in Slots, Submit(s)
  PROVE  RInv'
<1>0. IInv /\ IInv'
  BY SubmitStep DEF RInv
<1>1. /\ TwoPass /\ fc[s].finished /\ Number < MaxFrames
      /\ fc' = [fc EXCEPT ![s] = [Submitted(fc[s]) EXCEPT !.initDone = FALSE,
                                                         !.queue = @ \cup InitTasks]]
      /\ UNCHANGED <<at, task, main, flush, flushes, setup>>
  BY DEF Submit
<1>2. PICK ref \in {None, last}, kind \in Setups[setup].kinds :
        pics' = Append(pics, NewPic(ref, kind))
  BY DEF Submit
<1>3. /\ fc \in [Slots -> Frames] /\ setup \in DOMAIN Setups /\ Number \in Nat
      /\ pics \in Seq(Pictures)
  BY <1>0 DEF IInv, TypeOK, Number
<1>q. PICK q : q = NewPic(ref, kind)
  OBVIOUS
<1>4. q \in Pictures /\ pics' = Append(pics, q)
  BY <1>0, <1>1, <1>2, <1>q, NewPicType
<1>5. q.progress[1] = 0 /\ q.filtered = {}
  BY <1>q, NewPicShows
<1>6. fc[s].queue = {} /\ fc[s] \in Frames /\ \A v \in Workers : ~Busy(v, s)
  BY <1>0, <1>1, <1>3 DEF IInv, Clean
<1>t. PICK t : t = Task("Init", 0, 0)
  OBVIOUS
<1>7. t.type = "Init"
  BY <1>t DEF Task
<1>g. PICK g : g = [Submitted(fc[s]) EXCEPT !.initDone = FALSE, !.queue = @ \cup InitTasks]
  OBVIOUS
<1>8. g.queue = {t} /\ g.pic = Number + 1
  <2>f. PICK f : f = Submitted(fc[s])
    OBVIOUS
  <2>1. f.queue = {} /\ f.pic = Number + 1 /\ DOMAIN f = DOMAIN fc[s]
    BY <1>6, <2>f DEF Submitted, Frames
  <2>2. g = [f EXCEPT !.initDone = FALSE, !.queue = {t}]
    BY <1>g, <1>t, <2>1, <2>f DEF InitTasks
  <2> QED
    BY <1>6, <2>1, <2>2 DEF Frames
<1>9. fc' = [fc EXCEPT ![s] = g] /\ fc'[s] = g
  <2>1. fc' = [fc EXCEPT ![s] = g]
    BY <1>1, <1>g
  <2> QED
    BY <2>1, <1>3
<1>10. \A v \in Workers : ~Busy(v, s)'
  BY <1>1, <1>6 DEF Busy, Slot
<1>11. /\ \A x \in fc'[s].queue : x.type \in InitTypes
       /\ \A p : Before(s, p)'
  BY <1>7, <1>8, <1>9 DEF Before, InitTypes
<1>12. \A x : /\ IsTile(x)' <=> IsTile(x)
              /\ IsRow(x)' <=> IsRow(x)
              /\ (x.type \in InitTypes => ~IsTile(x) /\ ~IsRow(x))
  BY DEF IsTile, IsRow, InitTypes
<1>13. TileOK(s)' /\ PastOK(s)' /\ FiltOK(s)'
  <2>1. TileOK(s)'
    BY <1>10, <1>11, <1>12 DEF TileOK
  <2>2. PastOK(s)'
    BY <1>10, <1>11, <1>12 DEF PastOK
  <2>3. FiltOK(s)'
    BY <1>10, <1>11, <1>12 DEF FiltOK
  <2> QED
    BY <2>1, <2>2, <2>3
<1>14. PicOK(s)'
  <2>1. pics'[fc'[s].pic] = q
    BY <1>3, <1>4, <1>8, <1>9 DEF Number
  <2>2. FRAME_ERROR' # 0
    BY <1>1, <1>3, SameSetup, SetupFacts DEF FRAME_ERROR
  <2> QED
    BY <1>5, <1>11, <2>1, <2>2 DEF PicOK
<1> QED
  BY <1>0, <1>1, <1>4, <1>5, <1>9, <1>13, <1>14, NewSlice DEF SliceOK

\* Without frame threading its tiles and its first row are created at once.
LEMMA SubmitSingleSlice ==
  ASSUME RInv, NEW s \in Slots, SubmitSingle(s)
  PROVE  RInv'
<1>0. IInv /\ IInv'
  BY SubmitSingleStep DEF RInv
<1>1. /\ ~TwoPass /\ main = "idle" /\ Number < MaxFrames
      /\ UNCHANGED <<at, task, last, flush, flushes, setup>>
  BY DEF SubmitSingle
<1>2. PICK kind \in Setups[setup].kinds :
        /\ pics' = Append(pics, NewPic(None, kind))
        /\ fc' = [fc EXCEPT ![s] = Created(SetUp(Submitted(@)), 0, kind.filters)]
  BY DEF SubmitSingle
<1>3. /\ fc \in [Slots -> Frames] /\ setup \in DOMAIN Setups /\ Number \in Nat /\ MaxFrames \in Nat
      /\ pics \in Seq(Pictures)
  BY <1>0, BoundsAssumption DEF IInv, TypeOK, Number
<1>q. PICK q : q = NewPic(None, kind)
  OBVIOUS
<1>4. q \in Pictures /\ q.filters = kind.filters /\ pics' = Append(pics, q)
  BY <1>0, <1>1, <1>2, <1>q, NewPicType
<1>5. q.progress[1] = 0 /\ q.filtered = {}
  BY <1>q, NewPicShows
<1>6. fc[s].finished /\ fc[s].queue = {} /\ fc[s] \in Frames /\ \A v \in Workers : ~Busy(v, s)
  BY <1>0, <1>1, <1>3 DEF IInv, Clean
<1>7. q.filters \in SUBSET {"deblock", "cdef"} /\ Number + 1 \in PicIds /\ TaskCount \in Nat
  BY <1>1, <1>3, <1>4, AllCount DEF Pictures, PicIds
<1>f. PICK f : f = Submitted(fc[s])
  OBVIOUS
<1>8. f \in Frames /\ f.queue = {} /\ f.pic = Number + 1
  BY <1>6, <1>7, <1>f DEF Submitted, Frames
<1>h. PICK h : h = SetUp(f)
  OBVIOUS
<1>9. h \in Frames /\ Like(f, h)
  BY <1>3, <1>8, <1>h, SetUpFacts
<1>In. PICK In : In = PassTasks(0, q.filters)
  OBVIOUS
<1>g. PICK g : g = Created(h, 0, q.filters)
  OBVIOUS
<1>10. g.queue = In /\ g.pic = Number + 1 /\ g.frame = {} /\ ~g.done[0]
  <2>1. /\ g \in Frames /\ g.queue = h.queue \cup In /\ g.pic = h.pic
        /\ g.counter = h.counter /\ g.finished = h.finished
        /\ g.nextTileRow = [h.nextTileRow EXCEPT ![0] = 0]
        /\ g.done = [h.done EXCEPT ![0] = FALSE] /\ g.frame = {}
    <3>1. PassTasks(0, q.filters) \subseteq Tasks
      BY <1>3, <1>7, PassTasksFacts
    <3> QED
      BY <1>3, <1>9, <1>g, <1>In, <3>1, CreatedFacts
  <2>2. h.done \in [{0, 1} -> BOOLEAN]
    BY <1>9 DEF Frames
  <2> QED
    BY <1>8, <1>9, <2>1, <2>2 DEF Like
<1>11. /\ \A p \in {0, 1} : \A i \in Tiles : g.tileProgress[p][i] = RowStart[TileRow(i)]
       /\ g.deblock = 0
  <2>1. \A p \in {0, 1} : \A i \in Tiles : h.tileProgress[p][i] = RowStart[TileRow(i)]
    BY <1>3, <1>8, <1>h, SetUpProgress
  <2>2. g.tileProgress = h.tileProgress /\ g.deblock = 0
    BY <1>3, <1>9, <1>g, CreatedProgress
  <2> QED
    BY <2>1, <2>2
<1>12. fc' = [fc EXCEPT ![s] = g] /\ fc'[s] = g
  BY <1>2, <1>3, <1>4, <1>f, <1>g, <1>h
<1>13. \A v \in Workers : ~Busy(v, s)'
  BY <1>1, <1>6 DEF Busy, Slot
<1>14. \A t \in In : /\ Pass(t) = 0 /\ t.type \notin InitTypes /\ t.tile \in Tiles
                     /\ IsTile(t) => t.sby = RowStart[TileRow(t.tile)]
                     /\ ~IsTile(t) => t.recon = 1 /\ t.sby = 0 /\ t.type # "Cdef"
  BY <1>3, <1>7, <1>In, PassTasksRows
<1>15. /\ Tiles' = Tiles /\ TILE_ERROR' = TILE_ERROR /\ RowStart' = RowStart /\ TileCols' = TileCols
       /\ FRAME_ERROR' = FRAME_ERROR
  BY <1>1, SameSetup
<1>16. \A i : TileRow(i)' = TileRow(i)
  BY <1>15 DEF TileRow
<1>17. \A t : /\ IsTile(t)' <=> IsTile(t)
              /\ IsRow(t)' <=> IsRow(t)
              /\ Pass(t)' = Pass(t)
  BY DEF IsTile, IsRow, InitTypes, Pass
<1>18. TileOK(s)'
  <2>1. ASSUME NEW t \in fc'[s].queue, IsTile(t) PROVE AtRow(fc[s], t)'
    BY <2>1, <1>10, <1>11, <1>12, <1>14, <1>15 DEF AtRow, Pass
  <2>2. \A p \in {0, 1} : \A i \in Tiles : fc'[s].tileProgress[p][i] # TILE_ERROR
    <3>1. \A i \in Tiles : RowStart[TileRow(i)] # TILE_ERROR
      BY <1>3, TileRowType, SetupFacts DEF Rows, TILE_ERROR
    <3> QED
      BY <3>1, <1>11, <1>12
  <2> QED
    BY <2>1, <2>2, <1>13, <1>15, <1>16, <1>17 DEF TileOK
<1>19. PastOK(s)'
  <2>1. \A t \in fc'[s].queue : IsRow(t) => t.recon # 0
    BY <1>10, <1>12, <1>14 DEF IsRow
  <2>2. fc'[s].frame = {}
    BY <1>10, <1>12
  <2> QED
    BY <2>1, <2>2, <1>13, <1>17 DEF PastOK
<1>20. FiltOK(s)'
  <2>1. ASSUME NEW t \in fc'[s].queue, IsRow(t)
        PROVE  RowQueued(fc[s], Filters(s), t)'
    <3>1. t.sby = 0 /\ t.type # "Cdef"
      BY <1>10, <1>12, <1>14, <2>1 DEF IsRow
    <3>2. fc'[s].deblock = 0
      BY <1>11, <1>12
    <3> QED
      BY <3>1, <3>2 DEF RowQueued
  <2> QED
    BY <2>1, <1>13, <1>17 DEF FiltOK
<1>21. PicOK(s)'
  <2>1. pics'[fc'[s].pic] = q /\ fc'[s].frame = {} /\ ~fc'[s].done[0]
    BY <1>3, <1>4, <1>10, <1>12 DEF Number
  <2>2. FRAME_ERROR' # 0
    BY <1>3, <1>15, SetupFacts DEF FRAME_ERROR
  <2> QED
    BY <1>5, <2>1, <2>2 DEF PicOK
<1> QED
  BY <1>0, <1>1, <1>4, <1>5, <1>6, <1>12, <1>18, <1>19, <1>20, <1>21, NewSlice DEF SliceOK

\* A flush leaves all frames.
LEMMA FlushAllSlice ==
  ASSUME RInv, FlushAll
  PROVE  RInv'
<1>0. IInv /\ IInv'
  BY FlushAllStep DEF RInv
<1>1. /\ fc' = [x \in Slots |-> Flushed(fc[x])]
      /\ UNCHANGED <<at, task, flushes, setup>>
      /\ pics' = [n \in 1 .. Number |->
           IF \E s \in Slots : ~fc[s].finished /\ fc[s].pic = n
           THEN LeftPic(NoFrame, pics[n], TRUE) ELSE pics[n]]
  BY DEF FlushAll
<1>2. /\ fc \in [Slots -> Frames] /\ setup \in DOMAIN Setups /\ pics \in [1 .. Number -> Pictures]
      /\ Number \in Nat /\ setup' = setup
  BY <1>0, <1>1 DEF IInv, TypeOK, Number
<1>3. Slots' = Slots /\ Number' = Number
  BY <1>1, <1>2, SameSetup DEF Number
<1>4. ASSUME NEW x \in Slots
      PROVE  fc'[x].finished
  <2>f. PICK f : f = IF fc[x].finished THEN fc[x] ELSE Left(fc[x], TRUE)
    OBVIOUS
  <2>1. f \in Frames /\ f.finished
    BY <1>2, <2>f, LeftTypes
  <2>2. Flushed(fc[x]) = [f EXCEPT !.queue = {}]
    BY <2>f DEF Flushed
  <2> QED
    BY <1>1, <2>1, <2>2 DEF Frames
<1>e. PICK e : e = TRUE
  OBVIOUS
<1>5. ASSUME NEW n \in 1 .. Number
      PROVE  Honest(n)'
  <2>0. Honest(n) /\ pics[n] \in Pictures
    BY <1>2 DEF RInv
  <2>1. CASE pics'[n] = pics[n]
    BY <1>2, <2>0, <2>1, HonestKept
  <2>2. CASE pics'[n] = LeftPic(NoFrame, pics[n], e)
    <3>1. LeftPic(NoFrame, pics[n], e).filtered = pics[n].filtered
      BY <2>0 DEF LeftPic, Pictures
    <3>2. LeftPic(NoFrame, pics[n], e).progress[1] \in {pics[n].progress[1], FRAME_ERROR}
      BY <2>0 DEF LeftPic, Pictures, Progress
    <3>3. /\ pics'[n].progress[1] \in {pics[n].progress[1], FRAME_ERROR}
          /\ pics[n].filtered \subseteq pics'[n].filtered
      BY <2>2, <3>1, <3>2
    <3> QED
      BY <1>2, <2>0, <3>3, HonestKept
  <2>3. pics'[n] = pics[n] \/ pics'[n] = LeftPic(NoFrame, pics[n], e)
    BY <1>1, <1>e
  <2> QED
    BY <2>1, <2>2, <2>3
<1> QED
  BY <1>0, <1>3, <1>4, <1>5 DEF RInv, Unfinished

----------------------------------------------------------------------------
(* The theorems *)

\* No frame is in flight at first.
LEMMA InitRows ==
  ASSUME Init
  PROVE  RInv
<1>1. IInv
  BY InitInv
<1>2. \A s \in Slots : fc[s].finished
  BY DEF Init, NoFrame
<1>3. Number = 0
  BY DEF Init, Number
<1> QED
  BY <1>1, <1>2, <1>3 DEF RInv, Unfinished

\* What a worker does keeps the rows as they should be.
LEMMA RunSlice ==
  ASSUME RInv, NEW w \in Workers, FindTask(w) \/ Run(w)
  PROVE  RInv'
BY FindTaskSlice, StartSlice, InitFrameSlice, InitFrameCdfSlice, CreateSecondSlice,
   NextTileTaskSlice, EndTileSlice, DeblockColsSlice, DeblockRowsSlice, FinishRowSlice,
   PublishRowsSlice, EntropyProgressSlice, EndRowSlice DEF Run

\* Every step does.
LEMMA NextSlice ==
  ASSUME RInv, [Next]_vars
  PROVE  RInv'
<1>0. IInv'
  BY NextInv DEF RInv
<1>1. CASE \E s \in Slots : Submit(s) \/ SubmitSingle(s)
  BY <1>1, SubmitSlice, SubmitSingleSlice
<1>2. CASE FlushAll
  BY <1>2, FlushAllSlice
<1>3. CASE \E w \in Workers : FindTask(w) \/ Run(w)
  BY <1>3, RunSlice
<1>4. CASE UNCHANGED <<at, task, fc, pics, setup>>
  <2>1. \A x \in Slots : Unfinished(x)' => Unfinished(x) /\ fc'[x] = fc[x]
    BY <1>4 DEF Unfinished
  <2>2. /\ \A n \in 1 .. Number : pics'[n] = pics[n]
        /\ \A n \in 1 .. Number' : n \in 1 .. Number
    BY <1>4 DEF Number
  <2> QED
    BY <1>0, <1>4, <2>1, <2>2, CallerSlice
<1>5. ASSUME \E s \in Slots : Waited(s) PROVE RInv'
  BY <1>4, <1>5 DEF Waited
<1>6. ASSUME Flush PROVE RInv'
  BY <1>4, <1>6 DEF Flush
<1>7. ASSUME UNCHANGED vars PROVE RInv'
  BY <1>4, <1>7 DEF vars, caller
<1> QED
  BY <1>1, <1>2, <1>3, <1>5, <1>6, <1>7 DEF Next

\* The tiles are behind the rows, the filters in order and the pictures
\* honest, whatever the workers, frames, tiles, rows, filters and errors are.
THEOREM RowsInvariance == Spec => []RInv
<1>1. Init => RInv
  BY InitRows
<1>2. RInv /\ [Next]_vars => RInv'
  BY NextSlice
<1> QED
  BY <1>1, <1>2, PTL DEF Spec

\* A worker that holds a row, and its frame.
LEMMA RowHeld ==
  ASSUME RInv, NEW w \in Workers,
         at[w] \in {"EntropyProgress", "DeblockCols", "DeblockRows", "Cdef"}, NEW s, s = Slot(w)
  PROVE  /\ s \in Slots /\ Busy(w, s) /\ IsRow(task[w]) /\ SliceOK(s) /\ Frame(w) = fc[s]
         /\ Picture(w).filters = Filters(s) /\ fc[s] \in Frames /\ task[w] \in Tasks
         /\ setup \in DOMAIN Setups
         /\ at[w] # "EntropyProgress" => Pass(task[w]) = 0
<1>1. /\ s \in Slots /\ Busy(w, s) /\ Unfinished(s) /\ PlaceOK(at[w], task[w].type)
      /\ Frame(w) = fc[s] /\ Picture(w).filters = Filters(s) /\ fc[s] \in Frames
      /\ task[w] \in Tasks /\ setup \in DOMAIN Setups
  BY BusyFacts DEF RInv
<1>2. /\ task[w].type \in {"EntropyProgress", "DeblockCols", "DeblockRows", "Cdef"}
      /\ at[w] # "EntropyProgress" => task[w].type # "EntropyProgress"
  BY <1>1 DEF PlaceOK
<1>3. IsRow(task[w]) /\ (at[w] # "EntropyProgress" => Pass(task[w]) = 0)
  BY <1>2 DEF IsRow, IsTile, InitTypes, Pass
<1> QED
  BY <1>1, <1>3 DEF RInv

\* next_tile_row names the tiles that hold the row of its task, so that a row
\* enters its chain when they all have decoded it.
THEOREM RowsAreDecoded == Spec => []RowsDecoded
<1>1. ASSUME RInv, NEW w \in Workers, at[w] \in {"DeblockCols", "EntropyProgress"}, NEW i \in Tiles,
             RowStart[TileRow(i)] <= task[w].sby, task[w].sby < RowStart[TileRow(i) + 1]
      PROVE  Frame(w).tileProgress[Pass(task[w])][i] > task[w].sby
  <2>s. PICK s : s = Slot(w)
    OBVIOUS
  <2>1. Busy(w, s) /\ IsRow(task[w]) /\ PastOK(s) /\ Frame(w) = fc[s]
    BY <1>1, <2>s, RowHeld DEF SliceOK
  <2>2. TilesPast(fc[s], Pass(task[w]), task[w].sby)
    BY <2>1 DEF PastOK
  <2> QED
    BY <1>1, <2>1, <2>2 DEF TilesPast
<1>2. RInv => RowsDecoded
  BY <1>1 DEF RowsDecoded
<1> QED
  BY <1>2, RowsInvariance, PTL

\* Rows are deblocked from the top, each before its CDEF, which finds the rows
\* above saved, however the workers overtake each other.
THEOREM FiltersOrdered == Spec => []FiltersInOrder
<1>1. ASSUME RInv, NEW w \in Workers, ~Frame(w).error, at[w] \in {"DeblockRows", "Cdef"}
      PROVE  RowAt(Frame(w), Picture(w).filters, at[w], task[w])
             /\ Frame(w).deblock \in Nat /\ task[w].sby \in Nat
  <2>s. PICK s : s = Slot(w)
    OBVIOUS
  <2>1. /\ Busy(w, s) /\ IsRow(task[w]) /\ FiltOK(s) /\ Frame(w) = fc[s]
        /\ Picture(w).filters = Filters(s) /\ fc[s] \in Frames /\ task[w] \in Tasks
        /\ setup \in DOMAIN Setups /\ Pass(task[w]) = 0
    BY <1>1, <2>s, RowHeld DEF SliceOK
  <2>2. RowAt(fc[s], Filters(s), at[w], task[w])
    BY <2>1 DEF FiltOK
  <2>3. fc[s].deblock \in Nat /\ task[w].sby \in Nat
    <3>1. Sbh \in Nat /\ TILE_ERROR \in Nat
      BY <2>1, SetupFacts DEF TILE_ERROR
    <3>2. fc[s].deblock \in 0 .. TILE_ERROR
      BY <2>1 DEF Frames
    <3>3. task[w].sby \in Nat
      BY <2>1, <3>1 DEF Tasks, Rows
    <3> QED
      BY <3>1, <3>2, <3>3
  <2> QED
    BY <2>1, <2>2, <2>3
<1>2. ASSUME RInv, NEW w \in Workers, ~Frame(w).error, at[w] = "DeblockRows",
             "deblock" \in Picture(w).filters
      PROVE  Frame(w).deblock = task[w].sby
  BY <1>1, <1>2 DEF RowAt
<1>3. ASSUME RInv, NEW w \in Workers, ~Frame(w).error, at[w] = "Cdef"
      PROVE  IF "deblock" \in Picture(w).filters THEN Frame(w).deblock > task[w].sby
             ELSE {task[w].sby - 1, task[w].sby} \cap Rows \subseteq Frame(w).copyLpf
  BY <1>1, <1>3 DEF RowAt, TopsSaved
<1>4. RInv => FiltersInOrder
  BY <1>2, <1>3 DEF FiltersInOrder
<1> QED
  BY <1>4, RowsInvariance, PTL

\* The assertion of the search on done holds: the rows of a pass that is done
\* are only queued after an error.
THEOREM NoDoneRows == Spec => []DoneAssert
<1>1. ASSUME RInv, NEW s \in Slots, NEW t \in fc[s].queue, t.recon # 0,
             fc[s].done[Pass(t)], ~fc[s].error
      PROVE  FALSE
  <2>1. /\ IInv /\ Unfinished(s) /\ FrameOK(s) /\ SliceOK(s) /\ setup \in DOMAIN Setups
        /\ fc[s] \in Frames
    BY <1>1 DEF RInv, IInv, TypeOK, Clean, Unfinished
  <2>2. RowsOK(s) /\ t \in Tasks /\ TaskOK(t, Filters(s))
    BY <2>1 DEF FrameOK, TasksOK, Frames
  <2>3. t.type \notin InitTypes /\ ~IsTile(t) /\ Pass(t) \in {0, 1} /\ t.sby \in Rows
    BY <1>1, <2>2 DEF TaskOK, Pass, Tasks
  <2>4. ~Before(s, Pass(t))
    BY <2>1, <2>3, HolderBegun
  <2>5. Units(t) = RowUnits(Pass(t), t.sby .. Sbh - 1)
    BY <1>1, <2>3 DEF Units
  <2>6. \A r \in t.sby .. Sbh - 1 : RowOpen(s, Pass(t), r)
    BY <2>5 DEF RowOpen, RowUnits
  <2>7. t.sby \in t.sby .. Sbh - 1 /\ Sbh - 1 \in t.sby .. Sbh - 1
    BY <2>1, <2>3, SetupFacts DEF Rows
  <2>8. RowOpen(s, Pass(t), t.sby) /\ RowOpen(s, Pass(t), Sbh - 1)
    BY <2>6, <2>7
  <2>9. CASE Pass(t) = 1
    <3>1. TwoPass
      BY <2>2, <2>3, <2>9 DEF TaskOK, Pass, IsTile
    <3> QED
      BY <1>1, <2>2, <2>4, <2>8, <2>9, <3>1 DEF RowsOK
  <2>10. CASE Pass(t) = 0
    <3>1. Rows \subseteq fc[s].frame
      BY <1>1, <2>1, <2>4, <2>10 DEF SliceOK, PicOK
    <3> QED
      BY <2>2, <2>3, <2>4, <2>8, <2>10, <3>1 DEF RowsOK
  <2> QED
    BY <2>3, <2>9, <2>10
<1>2. RInv => DoneAssert
  BY <1>1 DEF DoneAssert
<1> QED
  BY <1>2, RowsInvariance, PTL

\* What a picture shows of its progress is filtered.
THEOREM ShownRowsThere == Spec => []ProgressHonest
<1>1. RInv => ProgressHonest
  BY DEF RInv, Honest, ProgressHonest
<1> QED
  BY <1>1, RowsInvariance, PTL

----------------------------------------------------------------------------
(* What other frames see *)

\* The picture of a frame in flight.
StatusOK(s) ==
  LET p == pics[fc[s].pic]
  IN /\ p.status = "decoding"
     /\ p.damaged => fc[s].error
     /\ TwoPass /\ p.progress[1] = AllRows /\ fc[s].error => flush

\* A worker that has a row of the entropy progress to publish.
HoldsEntropy(w, s) ==
  Busy(w, s) /\ at[w] \in {"start", "EntropyProgress"} /\ task[w].type = "EntropyProgress"

\* The entropy progress is published row by row: f.entropy is the next row.
EntropyOK(s) ==
  LET p == pics[fc[s].pic]
  IN TwoPass =>
       /\ Before(s, 1) => p.progress[0] = 0
       /\ p.progress[0] = AllRows =>
            /\ \A t \in fc[s].queue : t.type # "EntropyProgress"
            /\ \A w \in Workers : ~HoldsEntropy(w, s)
       /\ ~Before(s, 1) /\ ~fc[s].error =>
            /\ p.progress[0] = (IF fc[s].entropy = Sbh THEN AllRows ELSE fc[s].entropy)
            /\ fc[s].entropy <= Sbh
            /\ \A t \in fc[s].queue : t.type = "EntropyProgress" => fc[s].entropy <= t.sby
            /\ \A w \in Workers : HoldsEntropy(w, s) => fc[s].entropy = task[w].sby
            /\ fc[s].done[1] => fc[s].entropy = Sbh

\* The second pass is behind the first.
ParsedOK(s) ==
  TwoPass /\ ~fc[s].error =>
    /\ ~Before(s, 1) => \A i \in Tiles : fc[s].tileProgress[0][i] <= fc[s].tileProgress[1][i]
    /\ \A w \in Workers :
         Busy(w, s) /\ at[w] \in {"start", "tileDone"} /\ task[w].type = "TileReconstruction" =>
           fc[s].tileProgress[1][task[w].tile] > task[w].sby

\* The rows of the reference that a row of a tile reads.
RefRows(n, r) == pics[n].ref # None => 0 .. Reach[r] - 1 \subseteq pics[pics[n].ref].filtered

RefOK(s) ==
  TwoPass /\ ~fc[s].error =>
    \A w \in Workers :
      Busy(w, s) /\ at[w] = "start" /\ task[w].type = "TileReconstruction" =>
        RefRows(fc[s].pic, task[w].sby)

EndOK(s) == StatusOK(s) /\ EntropyOK(s) /\ ParsedOK(s) /\ RefOK(s)

\* A picture refers to an older one, and is complete if its frame ended well.
Ended(n) ==
  LET p == pics[n]
  IN /\ p.ref \in 0 .. Number
     /\ p.status = "ok" =>
          /\ ~p.damaged /\ p.filtered = Rows
          /\ TwoPass => p.progress = [q \in {0, 1} |-> AllRows]
     /\ p.status # "decoding" /\ p.refresh =>
          p.cdf = IF p.status = "ok" THEN "ok" ELSE "error"

EInv ==
  /\ RInv
  /\ \A s \in Slots : Unfinished(s) => EndOK(s)
  /\ \A n \in 1 .. Number : Ended(n)

----------------------------------------------------------------------------
(* Frames that a step is not in, and the picture of the one that it is in *)

\* What is published of picture n is not taken back.
Grown(n) ==
  \A p \in {0, 1} :
    \/ pics'[n].progress[p] >= pics[n].progress[p]
    \/ (flush \/ Refused(n)) /\ pics'[n].progress[p] = FRAME_ERROR

\* ... nor is a row, or what it refers to.
PicStep(n) ==
  Grown(n) /\ pics[n].filtered \subseteq pics'[n].filtered /\ pics'[n].ref = pics[n].ref

\* The picture of a frame that has ended stays as it is.
Stays(n) == pics[n].status # "decoding" => pics'[n] = pics[n]

\* A step that keeps the invariant, takes nothing back and ends no frame twice.
GoesWell == EInv' /\ \A n \in 1 .. Number : PicStep(n) /\ Stays(n)

\* A picture whose progress stays as it is.
LEMMA SameProgress ==
  ASSUME IInv, NEW n \in 1 .. Number, pics'[n].progress = pics[n].progress,
         pics[n].filtered \subseteq pics'[n].filtered, pics'[n].ref = pics[n].ref
  PROVE  PicStep(n)
<1>1. setup \in DOMAIN Setups /\ pics \in [1 .. Number -> Pictures]
  BY DEF IInv, TypeOK, Number
<1>2. pics[n].progress \in [{0, 1} -> 0 .. TILE_ERROR] /\ 0 .. TILE_ERROR \subseteq Int
  BY <1>1, SetupFacts DEF Pictures, Progress, TILE_ERROR
<1>3. Grown(n)
  BY <1>2 DEF Grown
<1> QED
  BY <1>3 DEF PicStep

\* A picture that stays as it is.
LEMMA SamePic ==
  ASSUME IInv, NEW n \in 1 .. Number, pics'[n] = pics[n]
  PROVE  PicStep(n)
BY SameProgress

\* A frame context that no step is in, whose reference may get more rows.
LEMMA EndSame ==
  ASSUME NEW x \in Slots, setup' = setup, fc'[x] = fc[x], flush => flush',
         pics'[fc[x].pic] = pics[fc[x].pic],
         \A v \in Workers : /\ Busy(v, x)' <=> Busy(v, x)
                            /\ Busy(v, x) => at'[v] = at[v] /\ task'[v] = task[v],
         pics[fc[x].pic].ref # None =>
           pics[pics[fc[x].pic].ref].filtered \subseteq pics'[pics[fc[x].pic].ref].filtered,
         EndOK(x)
  PROVE  EndOK(x)'
<1>1. /\ TwoPass' = TwoPass /\ AllRows' = AllRows /\ Sbh' = Sbh /\ Tiles' = Tiles /\ Reach' = Reach
  BY SameSetup
<1>2. \A p : Before(x, p)' <=> Before(x, p)
  BY DEF Before
<1>3. StatusOK(x)'
  BY <1>1 DEF StatusOK, EndOK
<1>4. \A v \in Workers : /\ HoldsEntropy(v, x)' <=> HoldsEntropy(v, x)
                         /\ HoldsEntropy(v, x) => task'[v] = task[v]
  BY DEF HoldsEntropy
<1>5. EntropyOK(x)'
  BY <1>1, <1>2, <1>4 DEF EntropyOK, EndOK
<1>6. ParsedOK(x)'
  BY <1>1, <1>2 DEF ParsedOK, EndOK
<1>7. \A r : RefRows(fc[x].pic, r) => RefRows(fc[x].pic, r)'
  BY <1>1 DEF RefRows
<1>8. RefOK(x)'
  BY <1>1, <1>7 DEF RefOK, RefRows, EndOK
<1> QED
  BY <1>3, <1>5, <1>6, <1>8 DEF EndOK

\* Only its own frame has to be looked at, and its picture.
LEMMA EndStep ==
  ASSUME EInv, RInv', NEW s \in Slots, NEW w \in Workers, Acts(w, s), flush' = flush,
         NEW m, m = fc[s].pic, PicStep(m),
         IF fc'[s].finished THEN Ended(m)' ELSE EndOK(s)'
  PROVE  GoesWell
<1>1. /\ Touch(w, s) /\ Unfinished(s) /\ setup' = setup /\ Slots' = Slots /\ Number' = Number
      /\ IInv /\ fc'[s].pic = m /\ Number \in Nat
      /\ Rows' = Rows /\ TwoPass' = TwoPass /\ AllRows' = AllRows
  BY SameSetup DEF Acts, Touch, EInv, RInv, IInv, TypeOK, Number
<1>2. \A n \in 1 .. Number : PicStep(n)
  BY <1>1, SamePic DEF Acts
<1>3. ASSUME NEW x \in Slots, x # s, Unfinished(x)'
      PROVE  EndOK(x)'
  <2>1. fc'[x] = fc[x] /\ Unfinished(x)
    BY <1>1, <1>3 DEF Touch, Unfinished
  <2>2. EndOK(x)
    BY <2>1 DEF EInv
  <2>3. fc[x].pic # m /\ fc[x].pic \in 1 .. Number
    BY <1>1, <1>3, <2>1 DEF IInv, FrameOK, Unfinished
  <2>4. pics'[fc[x].pic] = pics[fc[x].pic]
    BY <2>3 DEF Acts
  <2>5. ASSUME NEW v \in Workers
        PROVE  /\ Busy(v, x)' <=> Busy(v, x)
               /\ Busy(v, x) => at'[v] = at[v] /\ task'[v] = task[v]
    <3>1. CASE v = w
      BY <1>1, <1>3, <3>1, TouchFacts
    <3>2. CASE v # w
      BY <1>1, <3>2, TouchFacts DEF Touch
    <3> QED
      BY <3>1, <3>2
  <2>6. pics[fc[x].pic].ref \in 0 .. Number
    BY <2>3 DEF EInv, Ended
  <2>7. pics[fc[x].pic].ref # None =>
          pics[pics[fc[x].pic].ref].filtered \subseteq pics'[pics[fc[x].pic].ref].filtered
    BY <1>1, <1>2, <2>6 DEF PicStep, None
  <2> QED
    BY <1>1, <2>1, <2>2, <2>4, <2>5, <2>7, EndSame
<1>4. ASSUME NEW n \in 1 .. Number
      PROVE  Ended(n)'
  <2>1. Ended(n) /\ PicStep(n)
    BY <1>2, <1>4 DEF EInv
  <2>2. CASE n # m
    <3>1. pics'[n] = pics[n]
      BY <1>4, <2>2 DEF Acts
    <3> QED
      BY <2>1, <3>1, <1>1 DEF Ended
  <2>3. CASE n = m /\ ~fc'[s].finished
    <3>1. pics'[n].status = "decoding"
      BY <1>1, <2>3 DEF EndOK, StatusOK
    <3> QED
      BY <2>1, <3>1, <1>1 DEF Ended, PicStep
  <2> QED
    BY <2>2, <2>3
<1>5. Unfinished(s)' => EndOK(s)'
  BY DEF Unfinished
<1>6. pics[m].status = "decoding"
  BY <1>1 DEF EInv, EndOK, StatusOK
<1>7. \A n \in 1 .. Number : Stays(n)
  BY <1>6 DEF Stays, Acts
<1> QED
  BY <1>1, <1>2, <1>3, <1>4, <1>5, <1>7 DEF EInv, GoesWell

----------------------------------------------------------------------------
(* What a step has to show of its own frame *)

\* The status, when the frame goes on.
LEMMA StatusKept ==
  ASSUME NEW s \in Slots, NEW w \in Workers, Acts(w, s), flush' = flush, ~fc'[s].finished,
         StatusOK(s), pics'[fc[s].pic].status = pics[fc[s].pic].status,
         pics'[fc[s].pic].damaged => pics[fc[s].pic].damaged \/ fc'[s].error,
         TwoPass /\ pics'[fc[s].pic].progress[1] = AllRows /\ fc'[s].error => flush
  PROVE  StatusOK(s)'
<1>1. /\ TwoPass' = TwoPass /\ AllRows' = AllRows /\ fc'[s].pic = fc[s].pic
      /\ fc[s].error => fc'[s].error
  BY SameSetup DEF Acts, Touch, Keeps
<1> QED
  BY <1>1 DEF StatusOK

\* Rows of the entropy progress come from rows before them, or wait for their turn.
EntropyFrom(w, s) ==
  /\ \A t \in fc'[s].queue : t.type = "EntropyProgress" =>
       \E u \in fc[s].queue : u.type = "EntropyProgress" /\ u.sby <= t.sby
  /\ HoldsEntropy(w, s)' =>
       \/ HoldsEntropy(w, s) /\ task'[w].sby = task[w].sby
       \/ \E u \in fc[s].queue :
            u.type = "EntropyProgress" /\ task'[w].sby = u.sby /\ fc[s].entropy >= u.sby

\* The entropy progress, when none is made.
LEMMA EntropyKept ==
  ASSUME IInv, IInv', NEW s \in Slots, NEW w \in Workers, Acts(w, s), ~fc'[s].finished, EntropyOK(s),
         fc'[s].entropy = fc[s].entropy, fc'[s].done[1] = fc[s].done[1],
         pics'[fc[s].pic].progress[0] = pics[fc[s].pic].progress[0],
         Before(s, 1)' <=> Before(s, 1), EntropyFrom(w, s)
  PROVE  EntropyOK(s)'
<1>1. /\ TwoPass' = TwoPass /\ AllRows' = AllRows /\ Sbh' = Sbh /\ fc'[s].pic = fc[s].pic
      /\ Touch(w, s) /\ setup \in DOMAIN Setups /\ Rows' = Rows /\ Slots' = Slots
      /\ fc[s].error => fc'[s].error
  BY SameSetup DEF Acts, Touch, Keeps, IInv, TypeOK
<1>2. /\ fc[s].entropy \in Int
      /\ \A t \in fc[s].queue : t.sby \in Int
      /\ \A t \in fc'[s].queue : t.sby \in Int
  <2>1. Rows \subseteq Int /\ 0 .. TILE_ERROR \subseteq Int
    BY <1>1, SetupFacts DEF Rows, TILE_ERROR
  <2>2. fc[s] \in Frames /\ fc'[s] \in Frames'
    BY <1>1 DEF IInv, TypeOK
  <2>3. fc'[s].queue \subseteq Tasks
    BY <1>1, <2>2, SameSetup DEF Frames, Touch
  <2> QED
    BY <2>1, <2>2, <2>3 DEF Frames, Tasks
<1>3. \A v \in Workers \ {w} : /\ HoldsEntropy(v, s)' <=> HoldsEntropy(v, s)
                               /\ task'[v] = task[v]
  BY <1>1, TouchFacts DEF HoldsEntropy, Touch
<1> SUFFICES ASSUME TwoPass PROVE EntropyOK(s)'
  BY <1>1 DEF EntropyOK
<1> DEFINE p == pics[fc[s].pic]
<1>4. p.progress[0] = AllRows =>
        /\ \A t \in fc'[s].queue : t.type # "EntropyProgress"
        /\ \A v \in Workers : ~HoldsEntropy(v, s)'
  <2> SUFFICES ASSUME p.progress[0] = AllRows
               PROVE  /\ \A t \in fc'[s].queue : t.type # "EntropyProgress"
                      /\ \A v \in Workers : ~HoldsEntropy(v, s)'
    OBVIOUS
  <2>1. /\ \A t \in fc[s].queue : t.type # "EntropyProgress"
        /\ \A v \in Workers : ~HoldsEntropy(v, s)
    BY DEF EntropyOK
  <2> QED
    BY <2>1, <1>3 DEF EntropyFrom
<1>5. ASSUME ~Before(s, 1), ~fc[s].error
      PROVE  /\ p.progress[0] = (IF fc[s].entropy = Sbh THEN AllRows ELSE fc[s].entropy)
             /\ fc[s].entropy <= Sbh
             /\ \A t \in fc'[s].queue : t.type = "EntropyProgress" => fc[s].entropy <= t.sby
             /\ \A v \in Workers : HoldsEntropy(v, s)' => fc[s].entropy = task'[v].sby
             /\ fc[s].done[1] => fc[s].entropy = Sbh
  <2>1. /\ p.progress[0] = (IF fc[s].entropy = Sbh THEN AllRows ELSE fc[s].entropy)
        /\ fc[s].entropy <= Sbh
        /\ \A t \in fc[s].queue : t.type = "EntropyProgress" => fc[s].entropy <= t.sby
        /\ \A v \in Workers : HoldsEntropy(v, s) => fc[s].entropy = task[v].sby
        /\ fc[s].done[1] => fc[s].entropy = Sbh
    BY <1>5 DEF EntropyOK
  <2>2. \A t \in fc'[s].queue : t.type = "EntropyProgress" => fc[s].entropy <= t.sby
    BY <1>2, <2>1 DEF EntropyFrom
  <2>3. HoldsEntropy(w, s)' => fc[s].entropy = task'[w].sby
    BY <1>2, <2>1 DEF EntropyFrom
  <2>4. \A v \in Workers : HoldsEntropy(v, s)' => fc[s].entropy = task'[v].sby
    BY <1>3, <2>1, <2>3
  <2> QED
    BY <2>1, <2>2, <2>4
<1>6. Before(s, 1) => p.progress[0] = 0
  BY DEF EntropyOK
<1> QED
  BY <1>1, <1>4, <1>5, <1>6 DEF EntropyOK

\* The two passes, when no progress is made.
LEMMA ParsedKept ==
  ASSUME NEW s \in Slots, NEW w \in Workers, Acts(w, s), ~fc'[s].finished, ParsedOK(s),
         fc'[s].tileProgress = fc[s].tileProgress, Before(s, 1) => Before(s, 1)',
         TwoPass /\ ~fc'[s].error /\ Busy(w, s)' /\ at'[w] \in {"start", "tileDone"}
           /\ task'[w].type = "TileReconstruction" =>
             fc[s].tileProgress[1][task'[w].tile] > task'[w].sby
  PROVE  ParsedOK(s)'
<1>1. /\ TwoPass' = TwoPass /\ Tiles' = Tiles /\ Touch(w, s)
      /\ fc[s].error => fc'[s].error
  BY SameSetup DEF Acts, Touch, Keeps
<1>2. \A v \in Workers \ {w} : (Busy(v, s)' <=> Busy(v, s)) /\ at'[v] = at[v] /\ task'[v] = task[v]
  BY <1>1, TouchFacts DEF Touch
<1> QED
  BY <1>1, <1>2 DEF ParsedOK

\* What the tiles read, when a step takes no rows back.
LEMMA RefKept ==
  ASSUME IInv, NEW s \in Slots, NEW w \in Workers, Acts(w, s), ~fc'[s].finished, RefOK(s),
         NEW m, m = fc[s].pic, PicStep(m), m \in 1 .. Number, pics[m].ref \in 0 .. Number,
         TwoPass /\ ~fc'[s].error /\ Busy(w, s)' /\ at'[w] = "start"
           /\ task'[w].type = "TileReconstruction" => RefRows(m, task'[w].sby)
  PROVE  RefOK(s)'
<1>1. /\ TwoPass' = TwoPass /\ Reach' = Reach /\ Touch(w, s) /\ fc'[s].pic = m
      /\ fc[s].error => fc'[s].error
  BY SameSetup DEF Acts, Touch, Keeps
<1>2. \A v \in Workers \ {w} : (Busy(v, s)' <=> Busy(v, s)) /\ at'[v] = at[v] /\ task'[v] = task[v]
  BY <1>1, TouchFacts DEF Touch
<1>3. pics'[m].ref = pics[m].ref
  BY DEF PicStep
<1>4. pics[m].ref # None => pics[pics[m].ref].filtered \subseteq pics'[pics[m].ref].filtered
  <2>1. CASE pics[m].ref = m
    BY <2>1 DEF PicStep
  <2>2. CASE pics[m].ref # m
    <3>1. Number \in Nat
      BY DEF IInv, TypeOK, Number
    <3> QED
      BY <2>2, <3>1 DEF Acts, None
  <2> QED
    BY <2>1, <2>2
<1>5. \A r : RefRows(m, r) => RefRows(m, r)'
  BY <1>1, <1>3, <1>4 DEF RefRows
<1>6. TwoPass /\ ~fc'[s].error =>
        \A v \in Workers :
          Busy(v, s)' /\ at'[v] = "start" /\ task'[v].type = "TileReconstruction" =>
            RefRows(m, task'[v].sby)
  BY <1>1, <1>2 DEF RefOK
<1> QED
  BY <1>1, <1>3, <1>5, <1>6 DEF RefOK, RefRows

----------------------------------------------------------------------------
(* The rows, for other frames *)

\* What is known of a frame in flight.
LEMMA Flying ==
  ASSUME EInv, NEW s \in Slots, Unfinished(s), NEW m, m = fc[s].pic
  PROVE  /\ RInv /\ IInv /\ FrameOK(s) /\ SliceOK(s) /\ EndOK(s) /\ setup \in DOMAIN Setups
         /\ m \in 1 .. Number /\ pics[m].ref \in 0 .. Number /\ Ended(m) /\ Honest(m)
         /\ fc[s] \in Frames /\ pics[m] \in Pictures /\ pics \in [1 .. Number -> Pictures]
         /\ task \in [Workers -> Tasks] /\ Number \in Nat
         /\ \A t \in fc[s].queue : t \in Tasks /\ t.sby \in Rows
<1>1. /\ RInv /\ IInv /\ EndOK(s) /\ FrameOK(s) /\ SliceOK(s)
  BY DEF EInv, RInv, IInv, Unfinished
<1>2. m \in 1 .. Number
  BY <1>1 DEF FrameOK
<1>3. /\ setup \in DOMAIN Setups /\ fc[s] \in Frames /\ pics \in [1 .. Number -> Pictures]
      /\ task \in [Workers -> Tasks] /\ Number \in Nat
  BY <1>1 DEF IInv, TypeOK, Number
<1>4. \A t \in fc[s].queue : t \in Tasks /\ t.sby \in Rows
  BY <1>3 DEF Frames, Tasks
<1>5. Ended(m) /\ Honest(m)
  BY <1>1, <1>2 DEF EInv, RInv
<1> QED
  BY <1>1, <1>2, <1>3, <1>4, <1>5 DEF Ended

\* A step of a row that makes no entropy progress, and takes nothing back.
Bare(w, s, In) ==
  LET p == pics[fc[s].pic]
      q == pics'[fc[s].pic]
  IN /\ flush' = flush
     /\ fc'[s].error = fc[s].error /\ fc'[s].entropy = fc[s].entropy
     /\ fc'[s].done[1] = fc[s].done[1]
     /\ \A t \in In : t.type # "EntropyProgress"
     /\ at'[w] \notin {"start", "EntropyProgress"}
     /\ q.status = p.status /\ q.progress[0] = p.progress[0]
     /\ q.damaged => p.damaged \/ fc[s].error
     /\ TwoPass /\ q.progress[1] = AllRows /\ fc[s].error => flush

\* It does not disturb how the frame ends.
LEMMA RowEnds ==
  ASSUME EInv, RInv', NEW s \in Slots, NEW w \in Workers, NEW In, RowAct(w, s, In),
         Bare(w, s, In), NEW m, m = fc[s].pic, PicStep(m)
  PROVE  GoesWell
<1>1. /\ Acts(w, s) /\ ~fc'[s].finished /\ IInv /\ IInv' /\ Unfinished(s) 
      /\ fc'[s].tileProgress = fc[s].tileProgress /\ fc'[s].queue = fc[s].queue \cup In
      /\ at'[w] \notin {"start", "tileDone", "EntropyProgress"}
  BY DEF RowAct, Acts, EInv, RInv, IInv, Bare
<1>2. /\ m \in 1 .. Number /\ pics[m].ref \in 0 .. Number /\ SliceOK(s) /\ EndOK(s)
      /\ \A t \in fc[s].queue : t.sby \in Rows
  BY <1>1, Flying
<1>3. \A p : Before(s, p)' <=> Before(s, p)
  BY <1>1, <1>2, RowActs
<1>4. StatusOK(s)'
  BY <1>1, <1>2, StatusKept DEF Bare, EndOK
<1>5. EntropyFrom(w, s)
  <2>2. \A t \in fc[s].queue : t.sby <= t.sby
    BY <1>2 DEF Rows
  <2> QED
    BY <1>1, <2>2 DEF EntropyFrom, HoldsEntropy, Bare
<1>6. EntropyOK(s)'
  BY <1>1, <1>2, <1>3, <1>5, EntropyKept DEF Bare, EndOK
<1>7. ParsedOK(s)'
  BY <1>1, <1>2, <1>3, ParsedKept DEF EndOK
<1>8. RefOK(s)'
  BY <1>1, <1>2, RefKept DEF EndOK
<1>9. EndOK(s)'
  BY <1>4, <1>6, <1>7, <1>8 DEF EndOK
<1>10. flush' = flush
  BY DEF Bare
<1> QED
  BY <1>1, <1>9, <1>10, EndStep
\* A row that is deblocked or filtered notes an error in the picture.
LEMMA DeblockColsEnds ==
  ASSUME EInv, NEW w \in Workers, DeblockCols(w)
  PROVE  GoesWell
<1> DEFINE s == Slot(w)
           m == fc[s].pic
<1>1. RInv /\ IInv /\ RInv' /\ flush' = flush
  BY DeblockColsSlice DEF EInv, RInv, DeblockCols, caller
<1>2. /\ Acts(w, s) /\ s \in Slots /\ Apart1(s) /\ Busy(w, s)
      /\ task'[w] = task[w] /\ task[w].type = "DeblockCols"
      /\ fc'[s].frame = fc[s].frame /\ fc'[s].done = fc[s].done /\ fc'[s].entropy = fc[s].entropy
      /\ pics'[m] = Damages(pics[m], fc[s].error)
      /\ \/ at'[w] = "DeblockRows" /\ fc'[s].queue = fc[s].queue
         \/ /\ at'[w] = "search"
            /\ fc'[s].queue = fc[s].queue \cup {Requeued(task[w], "DeblockRows", task[w].sby)}
  BY <1>1, DeblockColsEffect
<1>3. PICK In : /\ In = IF at'[w] = "search"
                        THEN {Requeued(task[w], "DeblockRows", task[w].sby)} ELSE {}
  OBVIOUS
<1>4. Unfinished(s) /\ ~fc'[s].finished
  BY <1>2 DEF Acts, Apart1
<1>5. /\ pics[m] \in Pictures /\ m \in 1 .. Number /\ SliceOK(s) /\ EndOK(s)
      /\ task \in [Workers -> Tasks]
  BY <1>2, <1>4, Flying
<1>6. \A t \in In : /\ IsRow(t) /\ t.recon = 0 /\ t.type # "EntropyProgress"
                    /\ Pass(t) = Pass(task[w]) /\ t.sby = task[w].sby
  BY <1>2, <1>3, <1>5 DEF Requeued, IsRow, IsTile, Pass, InitTypes, Tasks
<1>7. RowAct(w, s, In)
  BY <1>2, <1>3, <1>4, <1>6 DEF RowAct, IsRow, IsTile, InitTypes, Apart1
<1>8. /\ pics'[m].status = pics[m].status /\ pics'[m].progress = pics[m].progress
      /\ pics'[m].ref = pics[m].ref /\ pics'[m].filtered = pics[m].filtered
      /\ pics'[m].damaged = (pics[m].damaged \/ fc[s].error)
  BY <1>2, <1>5 DEF Damages, Pictures
<1>9. PicStep(m)
  BY <1>1, <1>5, <1>8, SameProgress
<1>10. Bare(w, s, In)
  BY <1>1, <1>2, <1>5, <1>6, <1>8 DEF Bare, Apart1, EndOK, StatusOK
<1> QED
  BY <1>1, <1>2, <1>7, <1>9, <1>10, RowEnds

\* DeblockRows.
LEMMA DeblockRowsEnds ==
  ASSUME EInv, NEW w \in Workers, DeblockRows(w)
  PROVE  GoesWell
<1> DEFINE s == Slot(w)
           m == fc[s].pic
<1>1. RInv /\ IInv /\ RInv' /\ flush' = flush
  BY DeblockRowsSlice DEF EInv, RInv, DeblockRows, caller
<1>2. /\ Acts(w, s) /\ s \in Slots /\ Apart1(s) /\ Busy(w, s)
      /\ task'[w] = task[w] /\ task[w].type \in {"DeblockCols", "DeblockRows"}
      /\ fc'[s].frame = fc[s].frame /\ fc'[s].done = fc[s].done /\ fc'[s].entropy = fc[s].entropy
      /\ pics'[m] = Damages(pics[m], fc[s].error)
      /\ \/ at'[w] = "Cdef" /\ fc'[s].queue = fc[s].queue
         \/ /\ at'[w] = "search"
            /\ fc'[s].queue = fc[s].queue \cup {Requeued(task[w], "Cdef", 0)}
  BY <1>1, DeblockRowsEffect
<1>3. PICK In : In = IF at'[w] = "search" THEN {Requeued(task[w], "Cdef", 0)} ELSE {}
  OBVIOUS
<1>4. Unfinished(s) /\ ~fc'[s].finished
  BY <1>2 DEF Acts, Apart1
<1>5. /\ pics[m] \in Pictures /\ m \in 1 .. Number /\ SliceOK(s) /\ EndOK(s)
      /\ task \in [Workers -> Tasks]
  BY <1>2, <1>4, Flying
<1>6. \A t \in In : /\ IsRow(t) /\ t.recon = 0 /\ t.type # "EntropyProgress"
                    /\ Pass(t) = Pass(task[w]) /\ t.sby = task[w].sby
  BY <1>2, <1>3, <1>5 DEF Requeued, IsRow, IsTile, Pass, InitTypes, Tasks
<1>7. RowAct(w, s, In)
  BY <1>2, <1>3, <1>4, <1>6 DEF RowAct, IsRow, IsTile, InitTypes, Apart1
<1>8. /\ pics'[m].status = pics[m].status /\ pics'[m].progress = pics[m].progress
      /\ pics'[m].ref = pics[m].ref /\ pics'[m].filtered = pics[m].filtered
      /\ pics'[m].damaged = (pics[m].damaged \/ fc[s].error)
  BY <1>2, <1>5 DEF Damages, Pictures
<1>9. PicStep(m)
  BY <1>1, <1>5, <1>8, SameProgress
<1>10. Bare(w, s, In)
  BY <1>1, <1>2, <1>5, <1>6, <1>8 DEF Bare, Apart1, EndOK, StatusOK
<1> QED
  BY <1>1, <1>2, <1>7, <1>9, <1>10, RowEnds

\* A row that is finished adds to what is there.
LEMMA FinishRowEnds ==
  ASSUME EInv, NEW w \in Workers, FinishRow(w)
  PROVE  GoesWell
<1> DEFINE s == Slot(w)
           m == fc[s].pic
<1>1. RInv /\ IInv /\ RInv' /\ flush' = flush
  BY FinishRowSlice DEF EInv, RInv, FinishRow, caller
<1>2. /\ Acts(w, s) /\ s \in Slots /\ Apart1(s) /\ Busy(w, s)
      /\ task'[w] = task[w] /\ IsRow(task[w]) /\ Pass(task[w]) = 0 /\ at'[w] = "publish"
      /\ fc'[s].queue = fc[s].queue /\ fc'[s].frame = fc[s].frame \cup {task[w].sby}
      /\ fc'[s].done = fc[s].done /\ fc'[s].entropy = fc[s].entropy
      /\ pics'[m] = Finishes(pics[m], task[w].sby, at[w] = "Cdef" /\ fc[s].error)
  BY <1>1, FinishRowEffect
<1>3. Unfinished(s) /\ ~fc'[s].finished
  BY <1>2 DEF Acts, Apart1
<1>4. pics[m] \in Pictures /\ m \in 1 .. Number /\ SliceOK(s) /\ EndOK(s)
  BY <1>2, <1>3, Flying
<1>5. RowAct(w, s, {})
  BY <1>2, <1>3 DEF RowAct, Apart1
<1>6. /\ pics'[m].status = pics[m].status /\ pics'[m].progress = pics[m].progress
      /\ pics'[m].ref = pics[m].ref /\ pics[m].filtered \subseteq pics'[m].filtered
      /\ pics'[m].damaged => pics[m].damaged \/ fc[s].error
  BY <1>2, <1>4 DEF Finishes, Pictures
<1>7. PicStep(m)
  BY <1>1, <1>4, <1>6, SameProgress
<1>8. Bare(w, s, {})
  BY <1>1, <1>2, <1>4, <1>6 DEF Bare, Apart1, EndOK, StatusOK
<1> QED
  BY <1>1, <1>2, <1>5, <1>7, <1>8, RowEnds
\* The rows that a worker shows are no fewer than before.
LEMMA PublishRowsEnds ==
  ASSUME EInv, NEW w \in Workers, PublishRows(w)
  PROVE  GoesWell
<1>s. PICK s : s = Slot(w)
  OBVIOUS
<1>m. PICK m : m = fc[s].pic
  OBVIOUS
<1>n. PICK n : n = FinishedRows(w)
  OBVIOUS
<1>k. PICK k : k = IF ~TwoPass THEN pics[m].progress[1] ELSE IF fc[s].error THEN FRAME_ERROR
                   ELSE IF n = Sbh THEN AllRows ELSE n
  OBVIOUS
<1>1. RInv /\ IInv /\ RInv' /\ flush' = flush
  BY PublishRowsSlice DEF EInv, RInv, PublishRows, caller
<1>2. /\ Acts(w, s) /\ s \in Slots /\ Apart1(s) /\ Busy(w, s)
      /\ task'[w] = task[w] /\ IsRow(task[w]) /\ Pass(task[w]) = 0 /\ at'[w] = "count"
      /\ fc'[s].queue = fc[s].queue /\ fc'[s].frame = fc[s].frame
      /\ fc'[s].entropy = fc[s].entropy
      /\ FinishedRows(w) \in 0 .. Sbh
      /\ fc'[s].done = [fc[s].done EXCEPT ![0] = fc[s].done[0] \/ FinishedRows(w) = Sbh]
      /\ pics'[m] = Shows(pics[m], 1, k)
  BY <1>1, <1>s, <1>m, <1>n, <1>k, PublishRowsEffect
<1>3. Unfinished(s) /\ ~fc'[s].finished
  BY <1>2 DEF Acts, Apart1
<1>4. /\ pics[m] \in Pictures /\ m \in 1 .. Number /\ SliceOK(s) /\ EndOK(s) /\ Honest(m)
      /\ fc[s] \in Frames /\ setup \in DOMAIN Setups
  BY <1>2, <1>3, <1>m, Flying
<1>5. RowAct(w, s, {})
  BY <1>2, <1>3 DEF RowAct, Apart1
<1>6. pics[m].progress \in [{0, 1} -> 0 .. TILE_ERROR]
  BY <1>4 DEF Pictures, Progress
<1>7. /\ pics'[m].status = pics[m].status /\ pics'[m].damaged = pics[m].damaged
      /\ pics'[m].ref = pics[m].ref /\ pics'[m].filtered = pics[m].filtered
      /\ pics'[m].progress[0] = pics[m].progress[0] /\ pics'[m].progress[1] = k
  BY <1>2, <1>4, <1>6 DEF Shows, Pictures
<1>8. fc'[s].done[1] = fc[s].done[1]
  BY <1>2, <1>4 DEF Frames
<1>9. /\ Sbh \in Nat \ {0} /\ TILE_ERROR = Sbh + 1 /\ AllRows = Sbh + 1 /\ FRAME_ERROR = Sbh
      /\ n \in 0 .. Sbh
  BY <1>2, <1>4, <1>n, SetupFacts DEF TILE_ERROR, AllRows, FRAME_ERROR
<1>10. pics[m].progress[0] \in 0 .. Sbh + 1 /\ pics[m].progress[1] \in 0 .. Sbh + 1
  BY <1>6, <1>9
<1>11. k >= pics[m].progress[1] \/ (flush /\ k = FRAME_ERROR)
  <2>1. CASE ~TwoPass
    BY <1>k, <1>9, <1>10, <2>1
  <2>2. CASE TwoPass /\ fc[s].error
    <3>1. pics[m].progress[1] = AllRows => flush
      BY <1>4, <1>m, <2>2 DEF EndOK, StatusOK
    <3> QED
      BY <1>k, <1>9, <1>10, <2>2, <3>1
  <2>3. CASE TwoPass /\ ~fc[s].error
    <3>1. pics[m].progress[1] # FRAME_ERROR
      BY <1>4, <1>m, <2>3 DEF SliceOK, PicOK
    <3>2. n = IF pics[m].progress[1] >= FRAME_ERROR THEN Sbh ELSE FromTop(fc[s].frame)
      BY <1>n, <1>s, <1>m, <2>3 DEF FinishedRows, Picture, Frame
    <3>3. CASE pics[m].progress[1] >= FRAME_ERROR
      BY <1>k, <1>9, <1>10, <2>3, <3>2, <3>3
    <3>4. CASE pics[m].progress[1] < FRAME_ERROR
      <4>1. ~Before(s, 0)
        BY <1>1, <1>2, <1>3, HolderBegun DEF IsRow
      <4>2. fc[s].frame = pics[m].filtered /\ fc[s].frame \subseteq Rows
        BY <1>4, <1>m, <4>1 DEF SliceOK, PicOK, Frames
      <4>3. 0 .. pics[m].progress[1] - 1 \subseteq fc[s].frame
        BY <1>4, <1>9, <1>10, <3>4, <4>2 DEF Honest
      <4>4. FromTop(fc[s].frame) \in 0 .. Sbh /\ FromTop(fc[s].frame) \notin fc[s].frame
        BY <1>4, <4>2, FromTopFacts
      <4>5. n = FromTop(fc[s].frame)
        BY <1>9, <1>10, <3>2, <3>4
      <4>6. n >= pics[m].progress[1]
        BY <1>9, <1>10, <4>3, <4>4, <4>5
      <4> QED
        BY <1>k, <1>9, <1>10, <2>3, <4>6
    <3> QED
      BY <1>9, <1>10, <3>3, <3>4
  <2> QED
    BY <2>1, <2>2, <2>3
<1>12. PicStep(m)
  BY <1>7, <1>10, <1>11 DEF PicStep, Grown
<1>13. TwoPass /\ k = AllRows /\ fc[s].error => flush
  BY <1>k, <1>9
<1>14. Bare(w, s, {})
  BY <1>1, <1>2, <1>7, <1>8, <1>13, <1>m DEF Bare, Apart1
<1> QED
  BY <1>1, <1>2, <1>5, <1>12, <1>14, <1>m, RowEnds

----------------------------------------------------------------------------
(* The end of a frame *)

\* The worker that counts the last task is alone, so that both passes are created.
LEMMA LastOne ==
  ASSUME IInv, NEW w \in Workers, at[w] \in {"tileDone", "tileFailed", "count"},
         NEW s, s = Slot(w), fc[s].counter = 1
  PROVE  \A p : ~Before(s, p)
<1>1. /\ s \in Slots /\ Busy(w, s) /\ FrameOK(s) /\ setup \in DOMAIN Setups
      /\ task \in [Workers -> Tasks] /\ TasksOK(s) /\ PlaceOK(at[w], task[w].type)
  BY BusyFacts
<1>2. fc \in [Slots -> Frames]
  BY DEF IInv, TypeOK
<1>3. task[w].type \notin InitTypes
  BY <1>1 DEF PlaceOK, InitTypes
<1>4. PICK u : Mine(w, s) = {u}
  BY <1>1, <1>3, MineFacts
<1>5. IsFiniteSet(ToDo(s)) /\ u \in ToDo(s) /\ Cardinality(ToDo(s)) = 1
  BY <1>1, <1>2, <1>4, ToDoFacts DEF FrameOK
<1>6. ToDo(s) \ {u} = {}
  <2>1. IsFiniteSet(ToDo(s) \ {u}) /\ Cardinality(ToDo(s) \ {u}) = 0
    BY <1>5, FS_RemoveElement
  <2> QED
    BY <2>1, FS_EmptySet
<1>7. fc[s].queue = {} /\ \A v \in Workers \ {w} : ~Busy(v, s)
  BY <1>1, <1>4, <1>6, Alone
<1> QED
  BY <1>3, <1>7 DEF Before

\* What a last task may have changed of its picture: the CDF.
Counted1(s, f, p) ==
  LET q == pics[fc[s].pic]
  IN /\ f.error = fc[s].error /\ f.pic = fc[s].pic
     /\ p.status = q.status /\ p.damaged = q.damaged /\ p.filtered = q.filtered
     /\ p.progress = q.progress /\ p.ref = q.ref /\ p.refresh = q.refresh /\ p \in Pictures

\* The last task leaves a frame that is complete, or has an error.
LEMMA LeavesEnds ==
  ASSUME EInv, RInv', NEW w \in Workers, NEW s, NEW f, NEW p, Counts(w, s, f, p),
         Leaves(s, f, p), Counted1(s, f, p)
  PROVE  GoesWell
<1>m. PICK m : m = fc[s].pic
  OBVIOUS
<1>1. IInv /\ flush' = flush /\ at[w] \in {"tileDone", "tileFailed", "count"} /\ s = Slot(w)
  BY DEF EInv, RInv, Counts, caller
<1>2. Acts(w, s) /\ s \in Slots /\ Busy(w, s)
  BY <1>1, CountedEffect
<1>3. Unfinished(s) /\ setup' = setup
  BY <1>2 DEF Acts, Touch
<1>4. /\ pics[m] \in Pictures /\ m \in 1 .. Number /\ SliceOK(s) /\ EndOK(s) /\ Ended(m)
      /\ fc[s] \in Frames /\ setup \in DOMAIN Setups
  BY <1>2, <1>3, <1>m, Flying
<1>5. PICK g \in Frames : /\ g = [f EXCEPT !.counter = @ - 1]
                          /\ pics'[m] = LeftPic(g, p, f.error)
  BY <1>m DEF Leaves
<1>6. /\ fc'[s].finished /\ fc[s].done[0] /\ (TwoPass => fc[s].done[1]) /\ fc[s].counter = 1
  BY DEF Leaves
<1>7. \A q : ~Before(s, q)
  BY <1>1, <1>6, LastOne
<1>b. PICK refused : refused = NotCompliant(g, f.error)
  OBVIOUS
<1>8. /\ p \in Pictures /\ p.status = "decoding" /\ p.damaged = pics[m].damaged
      /\ p.filtered = pics[m].filtered /\ p.progress = pics[m].progress
      /\ p.ref = pics[m].ref /\ p.refresh = pics[m].refresh /\ f.error = fc[s].error
      /\ pics[m].status = "decoding"
  BY <1>4, <1>m DEF Counted1, EndOK, StatusOK
<1>9. p.progress \in [{0, 1} -> 0 .. TILE_ERROR]
  BY <1>8 DEF Pictures, Progress
<1>10. /\ pics'[m].ref = p.ref /\ pics'[m].refresh = p.refresh
       /\ pics'[m].filtered = p.filtered /\ pics'[m].damaged = p.damaged
       /\ pics'[m].status = (IF f.error \/ refused THEN "failed" ELSE "ok")
       /\ pics'[m].cdf = (IF ~p.refresh THEN p.cdf ELSE IF f.error \/ refused THEN "error" ELSE "ok")
       /\ pics'[m].progress = [p.progress EXCEPT ![1] = IF refused THEN FRAME_ERROR ELSE p.progress[1]]
  BY <1>5, <1>8, <1>b DEF LeftPic, Pictures
<1>11. PicStep(m)
  <2>1. p.progress[0] \in Int /\ p.progress[1] \in Int
    BY <1>4, <1>9, SetupFacts DEF TILE_ERROR
  <2>2. CASE refused
    <3>1. pics'[m].progress[1] = FRAME_ERROR /\ pics'[m].progress[0] = p.progress[0]
      BY <1>9, <1>10, <2>2
    <3>2. Refused(m)
      BY <1>8, <1>10, <2>2 DEF Refused
    <3> QED
      BY <1>8, <1>10, <2>1, <3>1, <3>2 DEF PicStep, Grown
  <2>3. CASE ~refused
    <3>1. pics'[m].progress[1] = p.progress[1] /\ pics'[m].progress[0] = p.progress[0]
      BY <1>9, <1>10, <2>3
    <3> QED
      BY <1>8, <1>10, <2>1, <3>1 DEF PicStep, Grown
  <2> QED
    BY <2>2, <2>3
<1>12. ASSUME ~f.error, ~refused
       PROVE  /\ ~p.damaged /\ p.filtered = Rows
              /\ TwoPass => pics'[m].progress = [q \in {0, 1} |-> AllRows]
  <2>1. ~fc[s].error /\ ~p.damaged
    BY <1>4, <1>8, <1>12, <1>m DEF EndOK, StatusOK
  <2>2. p.filtered = Rows /\ (TwoPass => p.progress[1] = AllRows)
    <3>1. fc[s].frame = p.filtered /\ Rows \subseteq fc[s].frame /\ (TwoPass => p.progress[1] = AllRows)
      BY <1>4, <1>6, <1>7, <1>8, <2>1, <1>m DEF SliceOK, PicOK
    <3> QED
      BY <1>4, <3>1 DEF Frames
  <2>3. TwoPass => p.progress[0] = AllRows
    BY <1>4, <1>6, <1>7, <1>8, <2>1, <1>m DEF EndOK, EntropyOK
  <2> QED
    BY <1>9, <1>10, <1>12, <2>1, <2>2, <2>3
<1>13. pics'[m].ref \in 0 .. Number /\ Number' = Number
  BY <1>2, <1>4, <1>8, <1>10 DEF Ended, Acts, Touch
<1>14. Ended(m)'
  <2>1. Rows' = Rows /\ TwoPass' = TwoPass /\ AllRows' = AllRows
    BY <1>3, SameSetup
  <2> QED
    BY <1>10, <1>12, <1>13, <2>1 DEF Ended
<1> QED
  BY <1>1, <1>2, <1>6, <1>11, <1>14, <1>m, EndStep

\* A worker at the end of its row.
LEMMA EndRowEnds ==
  ASSUME EInv, NEW w \in Workers, EndRow(w)
  PROVE  GoesWell
<1>s. PICK s : s = Slot(w)
  OBVIOUS
<1>m. PICK m : m = fc[s].pic
  OBVIOUS
<1>1. /\ RInv /\ IInv /\ RInv' /\ flush' = flush
      /\ at[w] = "count" /\ CountTask(w, Frame(w), Picture(w)) /\ UNCHANGED <<task, caller>>
  BY EndRowSlice DEF EInv, RInv, EndRow, caller
<1>2. /\ s \in Slots /\ fc[s] \in Frames /\ Frame(w) = fc[s] /\ Busy(w, s) /\ ~fc[s].finished
      /\ Picture(w) \in Pictures /\ Picture(w).filters = Filters(s) /\ PlaceOK(at[w], task[w].type)
  BY <1>1, <1>s, Now
<1>3. Picture(w) = pics[m]
  BY <1>2, <1>m DEF Picture
<1>4. Counts(w, s, fc[s], pics[m])
  BY <1>1, <1>2, <1>3, <1>s DEF Counts, Like
<1>5. /\ Acts(w, s) /\ at'[w] = "search" /\ task'[w] = task[w]
      /\ Goes(s, fc[s], pics[m]) \/ Leaves(s, fc[s], pics[m])
  BY <1>1, <1>4, CountedEffect
<1>6. /\ pics[m] \in Pictures /\ m \in 1 .. Number /\ SliceOK(s) /\ EndOK(s)
  BY <1>2, <1>m, Flying DEF Unfinished
<1>7. CASE Goes(s, fc[s], pics[m])
  <2>1. /\ ~fc'[s].finished /\ fc'[s].queue = fc[s].queue /\ fc'[s].frame = fc[s].frame
        /\ fc'[s].done = fc[s].done /\ fc'[s].tileProgress = fc[s].tileProgress
        /\ fc'[s].error = fc[s].error /\ fc'[s].entropy = fc[s].entropy
        /\ pics'[m] = pics[m]
    BY <1>7, <1>m DEF Goes
  <2>2. IsRow(task[w])
    BY <1>1, <1>2 DEF PlaceOK, IsRow, IsTile, InitTypes
  <2>3. RowAct(w, s, {})
    BY <1>2, <1>5, <2>1, <2>2 DEF RowAct
  <2>4. PicStep(m)
    BY <1>1, <1>6, <2>1, SamePic
  <2>5. Bare(w, s, {})
    BY <1>1, <1>5, <1>6, <2>1, <1>m DEF Bare, EndOK, StatusOK
  <2> QED
    BY <1>1, <1>2, <2>3, <2>4, <2>5, <1>m, RowEnds
<1>8. CASE Leaves(s, fc[s], pics[m])
  <2>1. Counted1(s, fc[s], pics[m])
    BY <1>6, <1>m DEF Counted1
  <2> QED
    BY <1>1, <1>4, <1>8, <2>1, LeavesEnds
<1> QED
  BY <1>5, <1>7, <1>8

----------------------------------------------------------------------------
(* The entropy progress *)

\* Nobody else has the row that a worker publishes, and what is queued is behind it.
LEMMA EntropyAlone ==
  ASSUME EInv, NEW s \in Slots, Unfinished(s), NEW w \in Workers,
         HoldsEntropy(w, s), task[w].sby \in Rows,
         Mine(w, s) = {<<1, "row", task[w].sby>>}, ~Before(s, 1), ~fc[s].error
  PROVE  /\ \A t \in fc[s].queue : t.type = "EntropyProgress" => t.sby > task[w].sby
         /\ \A v \in Workers : v = w \/ ~HoldsEntropy(v, s)
<1>1. /\ EndOK(s) /\ FrameOK(s) /\ setup \in DOMAIN Setups /\ TwoPass /\ Apart(s)
      /\ task \in [Workers -> Tasks] /\ TasksOK(s) /\ IInv
      /\ \A t \in fc[s].queue : t \in Tasks /\ t.sby \in Rows
  <2>1. TasksOK(s) /\ TaskOK(task[w], Filters(s)) /\ task[w].type = "EntropyProgress"
    BY Flying DEF FrameOK, TasksOK, HoldsEntropy
  <2>2. TwoPass
    BY <2>1 DEF TaskOK
  <2> QED
    BY <2>1, <2>2, Flying DEF FrameOK
<1>2. Rows \subseteq Int /\ Sbh \in Nat
  BY <1>1, SetupFacts DEF Rows
<1>3. ASSUME NEW t \in fc[s].queue, t.type = "EntropyProgress"
      PROVE  t.sby > task[w].sby
  <2>1. fc[s].entropy = task[w].sby /\ fc[s].entropy <= t.sby
    BY <1>1, <1>3 DEF EndOK, EntropyOK
  <2>2. <<1, "row", t.sby>> \in Units(t)
    <3>1. TaskOK(t, Filters(s)) /\ t \in Tasks
      BY <1>1, <1>3 DEF TasksOK
    <3>2. t.type \notin InitTypes /\ ~IsTile(t) /\ Pass(t) = 1
      BY <1>3 DEF InitTypes, IsTile, Pass
    <3> QED
      BY <1>1, <3>1, <3>2, UnitsFacts
  <2>3. t.sby # task[w].sby
    BY <1>1, <1>3, <2>2 DEF Apart
  <2>4. t.sby \in Int /\ task[w].sby \in Int
    BY <1>1, <1>2, <1>3
  <2> QED
    BY <2>1, <2>3, <2>4
<1>4. ASSUME NEW v \in Workers, v # w, HoldsEntropy(v, s)
      PROVE  FALSE
  <2>1. fc[s].entropy = task[w].sby /\ fc[s].entropy = task[v].sby
    BY <1>1, <1>4 DEF EndOK, EntropyOK
  <2>2. Mine(v, s) = {<<1, "row", task[v].sby>>}
    <3>1. /\ Busy(v, s) /\ task[v].type \notin InitTypes /\ ~IsTile(task[v]) /\ Pass(task[v]) = 1
      BY <1>4 DEF HoldsEntropy, InitTypes, IsTile, Pass
    <3> QED
      BY <1>1, <3>1, MineFacts
  <2> QED
    BY <1>1, <1>4, <2>1, <2>2 DEF Apart
<1> QED
  BY <1>3, <1>4

\* A worker publishes the next row of the entropy progress.
LEMMA EntropyProgressEnds ==
  ASSUME EInv, NEW w \in Workers, EntropyProgress(w)
  PROVE  GoesWell
<1>s. PICK s : s = Slot(w)
  OBVIOUS
<1>m. PICK m : m = fc[s].pic
  OBVIOUS
<1>n. PICK n : n = task[w].sby + 1
  OBVIOUS
<1>k. PICK k : k = IF fc[s].error THEN FRAME_ERROR ELSE IF n = Sbh THEN AllRows ELSE n
  OBVIOUS
<1>1. RInv /\ IInv /\ RInv' /\ IInv' /\ flush' = flush
  BY EntropyProgressSlice DEF EInv, RInv, EntropyProgress, caller
<1>2. /\ Acts(w, s) /\ s \in Slots /\ Apart1(s) /\ Busy(w, s)
      /\ task'[w] = task[w] /\ IsRow(task[w]) /\ Pass(task[w]) = 1 /\ TwoPass
      /\ Mine(w, s) = {<<1, "row", task[w].sby>>} /\ task[w].sby \in Rows
      /\ at[w] = "EntropyProgress" /\ at'[w] = "count"
      /\ fc'[s].queue = fc[s].queue /\ fc'[s].frame = fc[s].frame
      /\ fc'[s].entropy = (IF fc[s].error THEN TILE_ERROR ELSE n)
      /\ fc'[s].done[1] = (fc[s].done[1] \/ n = Sbh)
      /\ pics'[m] = Shows(pics[m], 0, k)
  BY <1>1, <1>s, <1>m, <1>n, <1>k, EntropyProgressEffect
<1>3. Unfinished(s) /\ ~fc'[s].finished /\ fc'[s].error = fc[s].error /\ fc'[s].pic = m
  BY <1>2, <1>m DEF Acts, Apart1, Touch
<1>4. /\ pics[m] \in Pictures /\ m \in 1 .. Number /\ SliceOK(s) /\ EndOK(s)
      /\ fc[s] \in Frames /\ setup \in DOMAIN Setups /\ pics[m].ref \in 0 .. Number
      /\ \A t \in fc[s].queue : t.sby \in Rows
  BY <1>2, <1>3, <1>m, Flying
<1>5. RowAct(w, s, {})
  BY <1>2, <1>3 DEF RowAct, Apart1
<1>6. \A p : Before(s, p)' <=> Before(s, p)
  BY <1>1, <1>2, <1>4, <1>5, RowActs
<1>7. ~Before(s, 1)
  BY <1>1, <1>2, <1>3, HolderBegun DEF IsRow
<1>8. HoldsEntropy(w, s)
  <2>1. PlaceOK(at[w], task[w].type)
    BY <1>1, <1>2, <1>s, Now
  <2> QED
    BY <1>2, <2>1 DEF HoldsEntropy, PlaceOK
<1>9. pics[m].progress \in [{0, 1} -> 0 .. TILE_ERROR]
  BY <1>4 DEF Pictures, Progress
<1>10. /\ pics'[m].status = pics[m].status /\ pics'[m].damaged = pics[m].damaged
       /\ pics'[m].ref = pics[m].ref /\ pics'[m].filtered = pics[m].filtered
       /\ pics'[m].progress[0] = k /\ pics'[m].progress[1] = pics[m].progress[1]
  BY <1>2, <1>4, <1>9 DEF Shows, Pictures
<1>11. /\ Sbh \in Nat \ {0} /\ TILE_ERROR = Sbh + 1 /\ AllRows = Sbh + 1 /\ FRAME_ERROR = Sbh
       /\ task[w].sby \in 0 .. Sbh - 1 /\ n \in 1 .. Sbh
  BY <1>2, <1>4, <1>n, SetupFacts DEF TILE_ERROR, AllRows, FRAME_ERROR, Rows
<1>12. pics[m].progress[0] \in 0 .. Sbh + 1 /\ pics[m].progress[1] \in 0 .. Sbh + 1
  BY <1>9, <1>11
<1>13. pics[m].progress[0] # AllRows
  BY <1>2, <1>4, <1>8, <1>m DEF EndOK, EntropyOK
<1>14. ~fc[s].error => pics[m].progress[0] = task[w].sby /\ ~fc[s].done[1]
  <2>1. SUFFICES ASSUME ~fc[s].error
                 PROVE  pics[m].progress[0] = task[w].sby /\ ~fc[s].done[1]
    OBVIOUS
  <2>2. /\ pics[m].progress[0] = (IF fc[s].entropy = Sbh THEN AllRows ELSE fc[s].entropy)
        /\ fc[s].entropy = task[w].sby /\ (fc[s].done[1] => fc[s].entropy = Sbh)
    BY <1>2, <1>4, <1>7, <1>8, <2>1, <1>m DEF EndOK, EntropyOK
  <2> QED
    BY <1>11, <2>2
<1>15. PicStep(m)
  <2>1. k >= pics[m].progress[0]
    BY <1>k, <1>n, <1>11, <1>12, <1>13, <1>14
  <2> QED
    BY <1>10, <1>12, <2>1 DEF PicStep, Grown
<1>16. StatusOK(s)'
  <2>1. TwoPass /\ pics'[m].progress[1] = AllRows /\ fc'[s].error => flush
    BY <1>3, <1>4, <1>10, <1>m DEF EndOK, StatusOK
  <2> QED
    BY <1>1, <1>2, <1>3, <1>4, <1>10, <2>1, <1>m, StatusKept DEF EndOK
<1>17. EntropyOK(s)'
  <2>1. /\ TwoPass' = TwoPass /\ AllRows' = AllRows /\ Sbh' = Sbh
    BY <1>2, SameSetup DEF Acts, Touch
  <2>2. ~HoldsEntropy(w, s)' /\ \A v \in Workers \ {w} : HoldsEntropy(v, s)' <=> HoldsEntropy(v, s)
    BY <1>2, TouchFacts DEF HoldsEntropy, Acts, Touch
  <2>3. CASE fc[s].error
    <3>1. k # AllRows
      BY <1>k, <1>11, <2>3
    <3> QED
      BY <1>3, <1>6, <1>7, <1>10, <2>1, <2>3, <3>1 DEF EntropyOK
  <2>4. CASE ~fc[s].error
    <3>1. \A t \in fc[s].queue : t.type = "EntropyProgress" => t.sby > task[w].sby
      BY <1>2, <1>3, <1>7, <1>8, <2>4, EntropyAlone
    <3>2. \A v \in Workers : ~HoldsEntropy(v, s)'
      BY <1>2, <1>3, <1>7, <1>8, <2>2, <2>4, EntropyAlone
    <3>3. \A t \in fc[s].queue : t.type = "EntropyProgress" => n <= t.sby /\ n # Sbh
      BY <1>4, <1>11, <1>n, <3>1 DEF Rows
    <3>4. fc'[s].entropy = n /\ k = (IF n = Sbh THEN AllRows ELSE n) /\ n <= Sbh
      BY <1>2, <1>k, <1>11, <2>4
    <3>5. k = AllRows => n = Sbh
      BY <1>11, <3>4
    <3>6. fc'[s].done[1] => n = Sbh
      BY <1>2, <1>14, <2>4
    <3> QED
      BY <1>2, <1>3, <1>6, <1>7, <1>10, <2>1, <3>2, <3>3, <3>4, <3>5, <3>6 DEF EntropyOK
  <2> QED
    BY <2>3, <2>4
<1>18. ParsedOK(s)'
  BY <1>2, <1>3, <1>4, <1>6, ParsedKept DEF EndOK, Apart1
<1>19. RefOK(s)'
  BY <1>1, <1>2, <1>3, <1>4, <1>15, <1>m, RefKept DEF EndOK
<1>20. EndOK(s)'
  BY <1>16, <1>17, <1>18, <1>19 DEF EndOK
<1> QED
  BY <1>1, <1>2, <1>3, <1>15, <1>20, <1>m, EndStep

----------------------------------------------------------------------------
(* The tiles, for other frames *)

\* When all rows are shown and no error is seen, no tile is left to decode.
LEMMA AllShown ==
  ASSUME EInv, NEW s \in Slots, Unfinished(s), TwoPass, ~fc[s].error,
         pics[fc[s].pic].progress[1] = AllRows
  PROVE  /\ \A t \in fc[s].queue : t.type = "EntropyProgress"
         /\ \A w \in Workers : Busy(w, s) => ~IsTile(task[w])
         /\ \A p \in {0, 1} : ~Before(s, p)
<1>m. PICK m : m = fc[s].pic
  OBVIOUS
<1>1. /\ IInv /\ FrameOK(s) /\ SliceOK(s) /\ EndOK(s) /\ setup \in DOMAIN Setups
      /\ m \in 1 .. Number /\ Honest(m) /\ fc[s] \in Frames /\ pics[m] \in Pictures
      /\ task \in [Workers -> Tasks] /\ \A t \in fc[s].queue : t \in Tasks /\ t.sby \in Rows
  BY <1>m, Flying
<1>2. /\ Sbh \in Nat \ {0} /\ AllRows = Sbh + 1 /\ FRAME_ERROR = Sbh /\ TILE_ERROR = Sbh + 1
      /\ Rows = 0 .. Sbh - 1
  BY <1>1, SetupFacts DEF AllRows, FRAME_ERROR, TILE_ERROR, Rows
<1>3. ~Before(s, 0)
  BY <1>1, <1>2, <1>m DEF SliceOK, PicOK
<1>4. ~Before(s, 1)
  BY <1>3 DEF Before
<1>5. Rows \subseteq fc[s].frame
  <2>1. Rows \subseteq pics[m].filtered
    BY <1>1, <1>2, <1>m DEF Honest
  <2> QED
    BY <1>1, <1>3, <2>1, <1>m DEF SliceOK, PicOK
<1>6. ASSUME NEW i \in Tiles, NEW r \in Rows, r < RowStart[TileRow(i) + 1], NEW p \in {0, 1}
      PROVE  fc[s].tileProgress[p][i] > r
  <2>1. RowStart[TileRow(i) + 1] \in 0 .. Sbh /\ RowStart[TileRow(i)] \in Rows
        /\ RowStart[TileRow(i)] < RowStart[TileRow(i) + 1]
    BY <1>1, TileRowType
  <2>2. PICK l : l = RowStart[TileRow(i) + 1] - 1
    OBVIOUS
  <2>3. l \in Rows /\ RowStart[TileRow(i)] <= l /\ l < RowStart[TileRow(i) + 1] /\ r <= l
    BY <1>2, <1>6, <2>1, <2>2
  <2>4. TilesPast(fc[s], 0, l)
    BY <1>1, <1>3, <1>5, <2>3 DEF SliceOK, PastOK
  <2>5. fc[s].tileProgress[0][i] > l
    BY <2>3, <2>4 DEF TilesPast
  <2>6. fc[s].tileProgress[0][i] <= fc[s].tileProgress[1][i]
    BY <1>1, <1>4 DEF EndOK, ParsedOK
  <2>7. fc[s].tileProgress[0][i] \in 0 .. Sbh + 1 /\ fc[s].tileProgress[1][i] \in 0 .. Sbh + 1
    BY <1>1, <1>2 DEF Frames
  <2>8. CASE p = 0
    BY <1>2, <2>3, <2>5, <2>7, <2>8
  <2>9. CASE p = 1
    BY <1>2, <2>3, <2>5, <2>6, <2>7, <2>9
  <2> QED
    BY <2>8, <2>9
<1>7. ASSUME NEW t \in Tasks, IsTile(t), AtRow(fc[s], t), TaskOK(t, Filters(s))
      PROVE  FALSE
  <2>1. t.tile \in Tiles /\ t.sby \in Rows /\ Pass(t) \in {0, 1}
    BY <1>7 DEF Tasks, Pass
  <2>2. t.sby < RowStart[TileRow(t.tile) + 1]
    BY <1>7 DEF TaskOK
  <2>3. fc[s].tileProgress[Pass(t)][t.tile] > t.sby
    BY <1>6, <2>1, <2>2
  <2>4. fc[s].tileProgress[Pass(t)][t.tile] = TILE_ERROR
    BY <1>2, <1>7, <2>1, <2>3 DEF AtRow
  <2> QED
    BY <1>1, <1>4, <2>1, <2>4 DEF SliceOK, TileOK
<1>8. ASSUME NEW t \in fc[s].queue
      PROVE  t.type = "EntropyProgress"
  <2>1. TaskOK(t, Filters(s)) /\ t \in Tasks /\ t.sby \in Rows
    BY <1>1 DEF FrameOK, TasksOK
  <2>2. t.type \notin InitTypes
    BY <1>3 DEF Before
  <2>3. ~IsTile(t)
    BY <1>1, <1>7, <2>1 DEF SliceOK, TileOK
  <2>4. Pass(t) # 0
    <3>1. <<Pass(t), "row", t.sby>> \in Units(t)
      BY <1>1, <2>1, <2>2, <2>3, UnitsFacts
    <3>2. ~RowOpen(s, 0, t.sby)
      BY <1>1, <1>3, <1>5, <2>1 DEF FrameOK, RowsOK
    <3> QED
      BY <3>1, <3>2 DEF RowOpen
  <2> QED
    BY <2>1, <2>3, <2>4 DEF Pass, IsTile
<1>9. ASSUME NEW w \in Workers, Busy(w, s), IsTile(task[w])
      PROVE  FALSE
  <2>1. TaskOK(task[w], Filters(s)) /\ task[w] \in Tasks /\ AtRow(fc[s], task[w])
    BY <1>1, <1>9 DEF FrameOK, TasksOK, SliceOK, TileOK
  <2> QED
    BY <1>7, <1>9, <2>1
<1> QED
  BY <1>3, <1>4, <1>8, <1>9

\* What a tile of the second pass has before it decodes a row.
Served(s, t) ==
  t.type = "TileReconstruction" =>
    fc[s].tileProgress[1][t.tile] > t.sby /\ RefRows(fc[s].pic, t.sby)

\* check_tile finds the row parsed, and those of the reference there.
LEMMA TileServed ==
  ASSUME EInv, NEW s \in Slots, Unfinished(s), NEW t \in Tasks, TwoPass,
         IsTile(t), TileReady(fc[s], t), ~TileError(fc[s], t)
  PROVE  Served(s, t)
<1>m. PICK m : m = fc[s].pic
  OBVIOUS
<1>1. SUFFICES ASSUME t.type = "TileReconstruction"
               PROVE  fc[s].tileProgress[1][t.tile] > t.sby /\ RefRows(m, t.sby)
  BY <1>m DEF Served
<1>2. /\ m \in 1 .. Number /\ pics[m].ref \in 0 .. Number /\ setup \in DOMAIN Setups
      /\ pics \in [1 .. Number -> Pictures] /\ Number \in Nat
  BY <1>m, Flying
<1>3. Pass(t) = 0 /\ t.sby \in Rows
  BY <1>1 DEF Pass, Tasks
<1>4. ~TileFailed(fc[s], t) /\ ~EntropyFailed(fc[s], t)
  BY DEF TileError
<1>5. Parsed(fc[s], t) /\ RefReady(fc[s], t)
  BY <1>4 DEF TileReady
<1>6. fc[s].tileProgress[1][t.tile] > t.sby
  BY <1>3, <1>5 DEF Parsed
<1>7. RefRows(m, t.sby)
  <2>r. PICK n : n = pics[m].ref
    OBVIOUS
  <2>1. SUFFICES ASSUME n # None
                 PROVE  0 .. Reach[t.sby] - 1 \subseteq pics[n].filtered
    BY <2>r DEF RefRows
  <2>2. n \in 1 .. Number
    BY <1>2, <2>1, <2>r DEF None
  <2>3. Reach[t.sby] \in 0 .. Sbh /\ Sbh \in Nat /\ AllRows = Sbh + 1 /\ FRAME_ERROR = Sbh
        /\ TILE_ERROR = Sbh + 1
    BY <1>2, <1>3, SetupFacts DEF AllRows, FRAME_ERROR, TILE_ERROR
  <2>4. CASE Reach[t.sby] = 0
    BY <2>4
  <2>5. CASE Reach[t.sby] # 0
    <3>1. UsesRef(fc[s], t) /\ RefNeed(t) = Reach[t.sby] /\ RefProgress(fc[s], t) = pics[n].progress[1]
      BY <1>3, <2>1, <2>5, <2>r, <1>m DEF UsesRef, RefNeed, RefProgress
    <3>2. pics[n].progress[1] >= Reach[t.sby] /\ pics[n].progress[1] # FRAME_ERROR
      BY <1>5, <3>1 DEF RefReady, TileError
    <3>3. pics[n].progress[1] \in 0 .. Sbh + 1
      BY <1>2, <2>2, <2>3 DEF Pictures, Progress
    <3>4. Honest(n)
      BY <2>2 DEF EInv, RInv
    <3> QED
      BY <2>3, <3>2, <3>3, <3>4 DEF Honest
  <2> QED
    BY <2>4, <2>5
<1> QED
  BY <1>6, <1>7

\* A tile that has decoded a row is parsed as far as it is decoded.
LEMMA TileParsed ==
  ASSUME EInv, RInv', NEW s \in Slots, NEW w \in Workers, NEW In, TileAct(w, s, In),
         TwoPass /\ ~fc'[s].error /\ at'[w] = "start" => Served(s, task'[w]),
         Before(s, 1) => Before(s, 1)',
         at'[w] = "start" => task'[w].tile = task[w].tile
  PROVE  ParsedOK(s)'
<1>1. /\ Acts(w, s) /\ Touch(w, s) /\ ~fc'[s].finished /\ Busy(w, s) /\ IsTile(task[w])
      /\ at[w] \in {"tileDone", "tileFailed"} /\ at'[w] \in {"search", "start"}
      /\ Unfinished(s) /\ (fc[s].error => fc'[s].error)
  BY DEF TileAct, Acts, Keeps
<1>2. /\ IInv /\ SliceOK(s) /\ EndOK(s) /\ fc[s] \in Frames /\ setup \in DOMAIN Setups
      /\ task \in [Workers -> Tasks]
  BY <1>1, Flying
<1>3. TwoPass' = TwoPass /\ Tiles' = Tiles
  BY <1>1, SameSetup DEF Touch
<1>4. SUFFICES ASSUME TwoPass, ~fc'[s].error
               PROVE  /\ ~Before(s, 1)' => \A i \in Tiles :
                           fc'[s].tileProgress[0][i] <= fc'[s].tileProgress[1][i]
                      /\ \A v \in Workers :
                           Busy(v, s)' /\ at'[v] \in {"start", "tileDone"}
                             /\ task'[v].type = "TileReconstruction" =>
                               fc'[s].tileProgress[1][task'[v].tile] > task'[v].sby
  BY <1>3 DEF ParsedOK
<1>5. ~fc[s].error
  BY <1>1, <1>4
<1>6. at[w] = "tileDone"
  BY <1>1, <1>2, <1>5 DEF SliceOK, TileOK
<1>7. /\ \A p \in {0, 1} : \A i \in Tiles : p # Pass(task[w]) \/ i # task[w].tile =>
           fc'[s].tileProgress[p][i] = fc[s].tileProgress[p][i]
      /\ fc'[s].tileProgress[Pass(task[w])][task[w].tile] = task[w].sby + 1
      /\ Grows(s)
  BY <1>2, <1>6, TileMoves DEF SliceOK
<1>8. \A p \in {0, 1} : \A i \in Tiles :
        fc[s].tileProgress[p][i] \in Int /\ fc'[s].tileProgress[p][i] \in Int
  <2>1. 0 .. TILE_ERROR \subseteq Int /\ TILE_ERROR' = TILE_ERROR /\ Slots' = Slots
    BY <1>1, <1>2, SetupFacts, SameSetup DEF TILE_ERROR, Touch
  <2>2. fc'[s] \in Frames'
    BY <2>1 DEF RInv, IInv, TypeOK
  <2> QED
    BY <1>2, <1>3, <2>1, <2>2 DEF Frames
<1>9. task[w].tile \in Tiles /\ task[w].sby \in Int /\ Pass(task[w]) \in {0, 1}
  BY <1>2, SetupFacts DEF Tasks, Rows, Pass
<1>10. ASSUME ~Before(s, 1)', NEW i \in Tiles
       PROVE  fc'[s].tileProgress[0][i] <= fc'[s].tileProgress[1][i]
  <2>1. fc[s].tileProgress[0][i] <= fc[s].tileProgress[1][i]
    BY <1>2, <1>4, <1>5, <1>10 DEF EndOK, ParsedOK
  <2>2. fc'[s].tileProgress[1][i] >= fc[s].tileProgress[1][i]
    BY <1>7 DEF Grows
  <2>3. CASE Pass(task[w]) = 0 /\ i = task[w].tile
    <3>1. task[w].type = "TileReconstruction"
      BY <1>1, <2>3 DEF Pass, IsTile
    <3>2. fc[s].tileProgress[1][i] > task[w].sby
      BY <1>1, <1>2, <1>4, <1>5, <1>6, <2>3, <3>1 DEF EndOK, ParsedOK
    <3> QED
      BY <1>7, <1>8, <1>9, <2>2, <2>3, <3>2
  <2>4. CASE ~(Pass(task[w]) = 0 /\ i = task[w].tile)
    <3>1. fc'[s].tileProgress[0][i] = fc[s].tileProgress[0][i]
      BY <1>7, <2>4
    <3> QED
      BY <1>8, <2>1, <2>2, <3>1
  <2> QED
    BY <2>3, <2>4
<1>11. ASSUME NEW v \in Workers, Busy(v, s)', at'[v] \in {"start", "tileDone"},
              task'[v].type = "TileReconstruction"
       PROVE  fc'[s].tileProgress[1][task'[v].tile] > task'[v].sby
  <2>1. CASE v = w
    <3>1. at'[w] = "start" /\ task'[w].tile = task[w].tile
      BY <1>1, <1>11, <2>1
    <3>2. fc[s].tileProgress[1][task[w].tile] > task'[w].sby
      BY <1>4, <1>11, <2>1, <3>1 DEF Served
    <3>3. fc'[s].tileProgress[1][task[w].tile] >= fc[s].tileProgress[1][task[w].tile]
      BY <1>7, <1>9 DEF Grows
    <3>4. task'[w].sby \in Int
      <4>1. task' \in [Workers -> Tasks']
        BY DEF RInv, IInv, TypeOK
      <4>2. task'[w] \in Tasks
        BY <1>1, <4>1, SameSetup DEF Touch
      <4> QED
        BY <4>2 DEF Tasks, Rows
    <3> QED
      BY <1>8, <1>9, <2>1, <3>1, <3>2, <3>3, <3>4
  <2>2. CASE v # w
    <3>1. Busy(v, s) /\ at'[v] = at[v] /\ task'[v] = task[v]
      BY <1>1, <1>11, <2>2, TouchFacts DEF Touch
    <3>2. fc[s].tileProgress[1][task[v].tile] > task[v].sby
      BY <1>2, <1>4, <1>5, <1>11, <3>1 DEF EndOK, ParsedOK
    <3>3. task[v].tile \in Tiles /\ task[v].sby \in Int
      BY <1>2 DEF Tasks, Rows
    <3>4. fc'[s].tileProgress[1][task[v].tile] >= fc[s].tileProgress[1][task[v].tile]
      BY <1>7, <3>3 DEF Grows
    <3> QED
      BY <1>8, <3>1, <3>2, <3>3, <3>4
  <2> QED
    BY <2>1, <2>2
<1> QED
  BY <1>10, <1>11

\* Where a tile goes, it looks at what its next row needs.
Looks(w, s) ==
  /\ at'[w] = "search" => fc'[s].error = fc[s].error
  /\ at'[w] = "start" =>
       /\ TileReady(fc[s], task'[w]) /\ task'[w] \in Tasks
       /\ fc'[s].error = (fc[s].error \/ TileError(fc[s], task'[w]))

\* A tile goes on, or ends without being the last task.
LEMMA TileEnds ==
  ASSUME EInv, RInv', NEW s \in Slots, NEW w \in Workers, NEW In, TileAct(w, s, In),
         Looks(w, s), flush' = flush, fc'[s].entropy = fc[s].entropy, NEW m, m = fc[s].pic,
         pics'[m].status = pics[m].status, pics'[m].damaged = pics[m].damaged,
         pics'[m].ref = pics[m].ref, pics'[m].progress = pics[m].progress
  PROVE  GoesWell
<1>1. /\ Acts(w, s) /\ Touch(w, s) /\ ~fc'[s].finished /\ Busy(w, s) /\ IsTile(task[w])
      /\ at[w] \in {"tileDone", "tileFailed"} /\ at'[w] \in {"search", "start"}
      /\ Unfinished(s) /\ (fc[s].error => fc'[s].error)
      /\ fc'[s].queue = fc[s].queue \cup In /\ fc'[s].done = fc[s].done
      /\ \A t \in In \cup (IF at'[w] = "search" THEN {} ELSE {task'[w]}) :
           t.type = task[w].type /\ t.tile = task[w].tile
      /\ pics'[m].filtered = pics[m].filtered
  BY DEF TileAct, Acts, Keeps
<1>2. /\ IInv /\ IInv' /\ SliceOK(s) /\ EndOK(s) /\ setup \in DOMAIN Setups
      /\ m \in 1 .. Number /\ pics[m].ref \in 0 .. Number /\ \A t \in fc[s].queue : t.sby \in Rows
  BY <1>1, Flying DEF RInv
<1>3. PicStep(m)
  BY <1>1, <1>2, SameProgress
<1>4. \A t \in In : IsTile(t)
  BY <1>1 DEF IsTile
<1>5. Busy(w, s)' => at'[w] = "start" /\ IsTile(task'[w]) /\ task'[w].type = task[w].type
  BY <1>1 DEF IsTile, Busy
<1>6. \A p : Before(s, p)' <=> Before(s, p)
  <2>1. NoStart(w, s, In, {})
    BY <1>1, <1>4, <1>5 DEF NoStart, InitTypes, IsTile
  <2> QED
    BY <1>1, <2>1, BeforeKept
<1>7. TwoPass /\ pics[m].progress[1] = AllRows => fc[s].error
  BY <1>1, AllShown
<1>8. StatusOK(s)'
  <2>1. StatusOK(s)
    BY <1>2 DEF EndOK
  <2>2. TwoPass /\ pics'[m].progress[1] = AllRows /\ fc'[s].error => flush
    BY <1>7, <2>1 DEF StatusOK
  <2> QED
    BY <1>1, <2>1, <2>2, StatusKept
<1>9. EntropyFrom(w, s)
  <2>1. \A t \in In : t.type # "EntropyProgress"
    BY <1>4 DEF IsTile
  <2>2. ~HoldsEntropy(w, s)'
    BY <1>5 DEF HoldsEntropy, IsTile
  <2>3. \A t \in fc[s].queue : t.sby <= t.sby
    BY <1>2 DEF Rows
  <2> QED
    BY <1>1, <2>1, <2>2, <2>3 DEF EntropyFrom
<1>10. EntropyOK(s)'
  BY <1>1, <1>2, <1>6, <1>9, EntropyKept DEF EndOK
<1>11. TwoPass /\ ~fc'[s].error /\ at'[w] = "start" => Served(s, task'[w])
  <2>1. SUFFICES ASSUME TwoPass, ~fc'[s].error, at'[w] = "start"
                 PROVE  Served(s, task'[w])
    OBVIOUS
  <2>2. TileReady(fc[s], task'[w]) /\ task'[w] \in Tasks /\ ~TileError(fc[s], task'[w])
    BY <2>1 DEF Looks
  <2>3. IsTile(task'[w])
    BY <1>1, <2>1 DEF IsTile
  <2> QED
    BY <1>1, <2>1, <2>2, <2>3, TileServed
<1>12. ParsedOK(s)'
  <2>1. at'[w] = "start" => task'[w].tile = task[w].tile
    BY <1>1
  <2> QED
    BY <1>6, <1>11, <2>1, TileParsed
<1>13. RefOK(s)'
  <2>1. TwoPass /\ ~fc'[s].error /\ Busy(w, s)' /\ at'[w] = "start"
          /\ task'[w].type = "TileReconstruction" => RefRows(m, task'[w].sby)
    BY <1>11 DEF Served
  <2> QED
    BY <1>1, <1>2, <1>3, <2>1, RefKept DEF EndOK
<1>14. EndOK(s)'
  BY <1>8, <1>10, <1>12, <1>13 DEF EndOK
<1> QED
  BY <1>1, <1>3, <1>14, EndStep

\* A tile goes on with its next row.
LEMMA NextTileTaskEnds ==
  ASSUME EInv, NEW w \in Workers, NextTileTask(w)
  PROVE  GoesWell
<1>s. PICK s : s = Slot(w)
  OBVIOUS
<1>m. PICK m : m = fc[s].pic
  OBVIOUS
<1>0. RInv /\ IInv /\ RInv' /\ flush' = flush
  BY NextTileTaskSlice DEF EInv, RInv, NextTileTask, caller
<1>1. /\ s \in Slots /\ Fixed(s) /\ pics'[m] = pics[m]
      /\ Busy(w, s) /\ Acts(w, s) /\ IsTile(task[w]) /\ at[w] \in {"tileDone", "tileFailed"}
      /\ fc'[s].tileProgress =
           [fc[s].tileProgress EXCEPT ![Pass(task[w])][task[w].tile] = TileProgress(w)]
  BY <1>0, <1>s, <1>m, NextTileTaskEffect
<1>n. PICK next \in Tasks : GoesTo(w, s, next)
  BY <1>0, <1>s, NextTileTaskEffect
<1>i. PICK In : In = IF at'[w] = "start" THEN {} ELSE {[next EXCEPT !.slot = None]}
  OBVIOUS
<1>2. fc'[s].queue = fc[s].queue \cup In /\ at'[w] \in {"search", "start"}
  BY <1>n, <1>i DEF GoesTo
<1>3. \A t \in In : t.type = task[w].type /\ t.tile = task[w].tile /\ t.sby = task[w].sby + 1
  BY <1>n, <1>i DEF Tasks, GoesTo
<1>4. TileAct(w, s, In)
  BY <1>1, <1>2, <1>3, <1>n, <1>m DEF TileAct, Fixed, GoesTo
<1>5. Looks(w, s)
  BY <1>n DEF Looks, GoesTo
<1> QED
  BY <1>0, <1>1, <1>4, <1>5, <1>m, TileEnds DEF Fixed

\* A tile at its end publishes the CDF, and is counted.
LEMMA EndTileEnds ==
  ASSUME EInv, NEW w \in Workers, EndTile(w)
  PROVE  GoesWell
<1>s. PICK s : s = Slot(w)
  OBVIOUS
<1>m. PICK m : m = fc[s].pic
  OBVIOUS
<1>f. PICK f : f = [Frame(w) EXCEPT !.tileProgress[Pass(task[w])][task[w].tile] = TileProgress(w)]
  OBVIOUS
<1>p. PICK p : p = [Picture(w) EXCEPT !.cdf =
                      IF ~Publishes(w) THEN @ ELSE IF f.error THEN "error" ELSE "ok"]
  OBVIOUS
<1>0. RInv /\ IInv /\ RInv' /\ flush' = flush
  BY EndTileSlice DEF EInv, RInv, EndTile, caller
<1>1. at[w] \in {"tileDone", "tileFailed"} /\ CountTask(w, f, p) /\ UNCHANGED <<task, caller>>
  BY <1>f, <1>p DEF EndTile
<1>2. /\ s \in Slots /\ fc[s] \in Frames /\ Frame(w) = fc[s] /\ Busy(w, s) /\ ~fc[s].finished
      /\ Picture(w) \in Pictures /\ Picture(w).filters = Filters(s) /\ PlaceOK(at[w], task[w].type)
      /\ setup \in DOMAIN Setups /\ task[w] \in Tasks
  BY <1>0, <1>1, <1>s, Now
<1>3. TileProgress(w) \in 0 .. TILE_ERROR
  BY <1>2, SetupFacts DEF TileProgress, TILE_ERROR, Tasks, Rows
<1>4. /\ f \in Frames /\ Like(fc[s], f) /\ f.error = fc[s].error /\ f.pic = fc[s].pic
      /\ f.tileProgress =
           [fc[s].tileProgress EXCEPT ![Pass(task[w])][task[w].tile] = TileProgress(w)]
      /\ f.entropy = fc[s].entropy /\ f.deblock = fc[s].deblock /\ f.copyLpf = fc[s].copyLpf
  BY <1>2, <1>3, <1>f DEF Frames, Like
<1>5. /\ p \in Pictures /\ p.filters = Filters(s) /\ p.status = pics[m].status
      /\ p.progress = pics[m].progress /\ p.filtered = pics[m].filtered
      /\ p.damaged = pics[m].damaged /\ p.ref = pics[m].ref /\ p.refresh = pics[m].refresh
  BY <1>2, <1>p, <1>m DEF Pictures, Picture
<1>6. Counts(w, s, f, p)
  BY <1>1, <1>4, <1>5, <1>s DEF Counts
<1>7. /\ Acts(w, s) /\ at'[w] = "search" /\ task'[w] = task[w]
      /\ Goes(s, f, p) \/ Leaves(s, f, p)
  BY <1>0, <1>6, CountedEffect
<1>8. IsTile(task[w])
  BY <1>1, <1>2 DEF PlaceOK, IsTile
<1>9. CASE Goes(s, f, p)
  <2>1. TileAct(w, s, {})
    BY <1>1, <1>2, <1>4, <1>5, <1>7, <1>8, <1>9, <1>m DEF TileAct, Goes
  <2>2. Looks(w, s) /\ fc'[s].entropy = fc[s].entropy /\ pics'[m] = p
    BY <1>4, <1>7, <1>9, <1>m DEF Looks, Goes
  <2> QED
    BY <1>0, <1>2, <1>5, <1>m, <2>1, <2>2, TileEnds
<1>10. CASE Leaves(s, f, p)
  <2>1. Counted1(s, f, p)
    BY <1>4, <1>5, <1>m DEF Counted1
  <2> QED
    BY <1>0, <1>6, <1>10, <2>1, LeavesEnds
<1> QED
  BY <1>7, <1>9, <1>10

----------------------------------------------------------------------------
(* The start of a task, for other frames *)

\* The tiles that a row waits for are tiles of the frame.
LEMMA RowTilesIn ==
  ASSUME setup \in DOMAIN Setups, NEW f \in Frames, NEW t \in Tasks
  PROVE  RowTiles(f, t) \subseteq Tiles
<1>n. PICK n : n = f.nextTileRow[Pass(t)]
  OBVIOUS
<1>1. n \in 0 .. TileRows - 1
  BY <1>n DEF Frames, Pass
<1>2. TileRows \in Nat \ {0} /\ TileCols \in Nat \ {0}
  BY SetupFacts
<1>3. ASSUME NEW c \in 0 .. TileCols - 1
      PROVE  n * TileCols + c \in 0 .. TileRows * TileCols - 1
  <2>1. \A a, b \in Nat, l \in Nat : a <= b => a * l <= b * l
    OBVIOUS
  <2>2. n * TileCols <= (TileRows - 1) * TileCols /\ n * TileCols \in Nat
    BY <1>1, <1>2, <2>1
  <2>3. (TileRows - 1) * TileCols = TileRows * TileCols - TileCols /\ TileRows * TileCols \in Nat
    BY <1>2
  <2> QED
    BY <1>2, <2>2, <2>3
<1> QED
  BY <1>3, <1>n DEF RowTiles, Tiles

\* The entropy progress of a frame that has seen no error shows none.
LEMMA EntropySeesNone ==
  ASSUME EInv, NEW s \in Slots, Unfinished(s), NEW t \in fc[s].queue,
         t.type = "EntropyProgress", ~fc[s].error, ~Before(s, 1)
  PROVE  ~SeesError(fc[s], t)
<1>1. /\ FrameOK(s) /\ SliceOK(s) /\ EndOK(s) /\ setup \in DOMAIN Setups /\ fc[s] \in Frames
      /\ t \in Tasks
  BY Flying
<1>2. TwoPass /\ t.recon # 0
  BY <1>1 DEF FrameOK, TasksOK, TaskOK
<1>3. fc[s].entropy # TILE_ERROR
  <2>1. fc[s].entropy <= Sbh
    BY <1>1, <1>2 DEF EndOK, EntropyOK
  <2>2. TILE_ERROR = Sbh + 1 /\ Sbh \in Nat
    BY <1>1, SetupFacts DEF TILE_ERROR
  <2> QED
    BY <2>1, <2>2
<1>4. \A i \in RowTiles(fc[s], t) : fc[s].tileProgress[1][i] # TILE_ERROR
  BY <1>1, RowTilesIn DEF SliceOK, TileOK
<1>5. Pass(t) = 1 /\ ~IsTile(t)
  BY DEF Pass, IsTile
<1> QED
  BY <1>2, <1>3, <1>4, <1>5 DEF SeesError

\* What a worker finds, it finds served.
LEMMA FindTaskEnds ==
  ASSUME EInv, NEW w \in Workers, FindTask(w)
  PROVE  GoesWell
<1>0. RInv /\ IInv /\ RInv' /\ IInv' /\ flush' = flush
  BY FindTaskSlice DEF EInv, RInv, FindTask, caller
<1>s. PICK s \in Slots : \E t \in fc[s].queue : Takes(w, s, t)
  BY <1>0, FindTaskEffect
<1>t. PICK t \in fc[s].queue : Takes(w, s, t)
  BY <1>s
<1>m. PICK m : m = fc[s].pic
  OBVIOUS
<1>k. PICK k : k = [t EXCEPT !.slot = s]
  OBVIOUS
<1>1. /\ Acts(w, s) /\ Busy(w, s)' /\ Ready(fc[s], t) /\ ~Busy(w, s)
      /\ fc'[s].queue = (fc[s].queue \ {t}) \cup NextRows(t)
      /\ fc'[s].tileProgress = fc[s].tileProgress
      /\ fc'[s].error = (fc[s].error \/ SeesError(fc[s], t))
      /\ at'[w] = "start" /\ pics' = pics /\ task'[w] = k
  BY <1>t, <1>k DEF Takes
<1>2. /\ ~fc'[s].finished /\ fc'[s].done = fc[s].done /\ fc'[s].entropy = fc[s].entropy
      /\ Touch(w, s) /\ Unfinished(s)
  BY <1>t DEF Takes, Fixed, Acts
<1>3. /\ SliceOK(s) /\ EndOK(s) /\ FrameOK(s) /\ m \in 1 .. Number /\ pics[m].ref \in 0 .. Number
      /\ setup \in DOMAIN Setups /\ t \in Tasks /\ t.sby \in Rows
      /\ \A x \in fc[s].queue : x.sby \in Rows
  BY <1>2, <1>m, Flying
<1>4. TaskOK(t, Filters(s)) /\ t.sby <= t.sby + 1 /\ \A x \in fc[s].queue : x.sby <= x.sby
  <2>1. t.sby \in Int /\ \A x \in fc[s].queue : x.sby \in Int
    BY <1>3 DEF Rows
  <2> QED
    BY <1>3, <2>1 DEF FrameOK, TasksOK
<1>5. k.type = t.type /\ k.sby = t.sby /\ k.tile = t.tile
  BY <1>3, <1>k DEF Tasks
<1>6. \A n \in NextRows(t) : /\ n.type \notin InitTypes /\ n.sby = t.sby + 1 /\ n.type = t.type
                             /\ t.type \notin InitTypes
  <2>1. \A n \in NextRows(t) : n.type \notin InitTypes /\ n.sby = t.sby + 1 /\ n.type = t.type
    BY <1>3, <1>4, NextRowIs
  <2> QED
    BY <2>1
<1>7. \A p : Before(s, p)' <=> Before(s, p)
  <2>1. CASE t.type \in InitTypes
    <3>1. ASSUME NEW p PROVE Before(s, p)
      BY <2>1 DEF Before
    <3>2. ASSUME NEW p PROVE Before(s, p)'
      BY <2>1, <1>1, <1>5 DEF Before, InitTypes
    <3> QED
      BY <3>1, <3>2
  <2>2. CASE t.type \notin InitTypes
    <3>1. NoStart(w, s, NextRows(t), {t})
      BY <2>2, <1>1, <1>5, <1>6 DEF NoStart
    <3> QED
      BY <3>1, <1>2, BeforeKept
  <2> QED
    BY <2>1, <2>2
<1>8. PicStep(m)
  BY <1>0, <1>1, <1>3, SamePic
<1>9. StatusOK(s)'
  <2>1. StatusOK(s)
    BY <1>3 DEF EndOK
  <2>2. ASSUME TwoPass, pics[m].progress[1] = AllRows, ~fc[s].error
        PROVE  ~SeesError(fc[s], t)
    <3>1. t.type = "EntropyProgress" /\ ~Before(s, 1)
      BY <1>2, <2>2, <1>m, AllShown
    <3> QED
      BY <1>2, <2>2, <3>1, EntropySeesNone
  <2>3. TwoPass /\ pics'[m].progress[1] = AllRows /\ fc'[s].error => flush
    BY <1>1, <2>1, <2>2, <1>m DEF StatusOK
  <2> QED
    BY <1>0, <1>1, <1>2, <2>1, <2>3, <1>m, StatusKept
<1>10. EntropyFrom(w, s)
  <2>1. ASSUME NEW x \in fc'[s].queue, x.type = "EntropyProgress"
        PROVE  \E u \in fc[s].queue : u.type = "EntropyProgress" /\ u.sby <= x.sby
    <3>1. CASE x \in fc[s].queue
      <4>1. x.sby <= x.sby
        BY <1>3, <1>4, <3>1
      <4> QED
        BY <2>1, <3>1, <4>1
    <3>2. CASE x \in NextRows(t)
      <4>1. t.type = "EntropyProgress" /\ t.sby <= x.sby
        BY <1>3, <1>4, <1>6, <2>1, <3>2
      <4> QED
        BY <4>1
    <3> QED
      BY <1>1, <2>1, <3>1, <3>2
  <2>2. ASSUME HoldsEntropy(w, s)'
        PROVE  \E u \in fc[s].queue :
                 u.type = "EntropyProgress" /\ task'[w].sby = u.sby /\ fc[s].entropy >= u.sby
    <3>1. t.type = "EntropyProgress"
      BY <1>1, <1>5, <2>2 DEF HoldsEntropy
    <3>2. fc[s].entropy >= t.sby
      BY <1>1, <1>4, <3>1 DEF Ready, IsTile, Pass, TaskOK
    <3> QED
      BY <1>1, <1>5, <3>1, <3>2
  <2> QED
    BY <2>1, <2>2 DEF EntropyFrom
<1>11. EntropyOK(s)'
  BY <1>0, <1>1, <1>2, <1>3, <1>7, <1>10, EntropyKept DEF EndOK
<1>12. TwoPass /\ ~fc'[s].error /\ k.type = "TileReconstruction" => Served(s, t)
  <2>1. SUFFICES ASSUME TwoPass, ~fc'[s].error, k.type = "TileReconstruction"
                 PROVE  Served(s, t)
    OBVIOUS
  <2>2. IsTile(t) /\ t.recon = 0
    BY <1>4, <1>5, <2>1 DEF IsTile, TaskOK
  <2>3. TileReady(fc[s], t)
    BY <1>1, <1>5, <2>1, <2>2 DEF Ready
  <2>4. ~TileError(fc[s], t)
    BY <1>1, <2>1, <2>2 DEF SeesError
  <2> QED
    BY <1>2, <1>3, <2>1, <2>2, <2>3, <2>4, TileServed
<1>13. ParsedOK(s)'
  <2>1. TwoPass /\ ~fc'[s].error /\ k.type = "TileReconstruction" =>
          fc[s].tileProgress[1][k.tile] > k.sby
    BY <1>5, <1>12 DEF Served
  <2> QED
    BY <1>1, <1>2, <1>3, <1>7, <2>1, ParsedKept DEF EndOK
<1>14. RefOK(s)'
  <2>1. TwoPass /\ ~fc'[s].error /\ k.type = "TileReconstruction" => RefRows(m, k.sby)
    BY <1>5, <1>12, <1>m DEF Served
  <2> QED
    BY <1>0, <1>1, <1>2, <1>3, <1>8, <2>1, <1>m, RefKept DEF EndOK
<1>15. EndOK(s)'
  BY <1>9, <1>11, <1>13, <1>14 DEF EndOK
<1> QED
  BY <1>0, <1>1, <1>2, <1>8, <1>15, <1>m, EndStep

\* A worker starts what it has found.
LEMMA StartEnds ==
  ASSUME EInv, NEW w \in Workers, Start(w)
  PROVE  GoesWell
<1>s. PICK s : s = Slot(w)
  OBVIOUS
<1>m. PICK m : m = fc[s].pic
  OBVIOUS
<1>0. RInv /\ IInv /\ RInv' /\ IInv' /\ flush' = flush
  BY StartSlice DEF EInv, RInv, Start, caller
<1>1. /\ s \in Slots /\ Busy(w, s) /\ Acts(w, s) /\ Fixed(s) /\ task'[w] = task[w]
      /\ fc'[s].queue = fc[s].queue /\ fc'[s].tileProgress = fc[s].tileProgress
      /\ at[w] = "start" /\ Begins(w, s)
  BY <1>0, <1>s, StartEffect
<1>2. /\ Touch(w, s) /\ Unfinished(s) /\ ~fc'[s].finished /\ (fc[s].error => fc'[s].error)
      /\ fc'[s].done = fc[s].done /\ fc'[s].entropy = fc[s].entropy
  BY <1>1 DEF Acts, Fixed, Keeps
<1>3. /\ SliceOK(s) /\ EndOK(s) /\ FrameOK(s) /\ m \in 1 .. Number /\ pics[m].ref \in 0 .. Number
      /\ setup \in DOMAIN Setups /\ pics[m] \in Pictures /\ task[w] \in Tasks
      /\ \A x \in fc[s].queue : x.sby <= x.sby
  <2>1. /\ SliceOK(s) /\ EndOK(s) /\ FrameOK(s) /\ m \in 1 .. Number /\ pics[m].ref \in 0 .. Number
        /\ setup \in DOMAIN Setups /\ pics[m] \in Pictures /\ task[w] \in Tasks
        /\ \A x \in fc[s].queue : x.sby \in Rows
    BY <1>1, <1>2, <1>m, Flying
  <2> QED
    BY <2>1 DEF Rows
<1>4. /\ pics'[m].status = pics[m].status /\ pics'[m].progress = pics[m].progress
      /\ pics'[m].ref = pics[m].ref /\ pics'[m].filtered = pics[m].filtered
      /\ pics'[m].damaged => pics[m].damaged \/ fc'[s].error
  BY <1>1, <1>3, <1>m DEF Begins, Damages, Pictures
<1>5. \/ IsTile(task[w]) /\ at'[w] \in {"tileDone", "tileFailed"}
      \/ ~IsTile(task[w]) /\ at'[w] = task[w].type
  BY <1>1 DEF Begins
<1>6. at'[w] \notin {"search", "create", "publish", "count"}
  BY <1>3, <1>5 DEF Tasks, TaskTypes
<1>7. \A b : Before(s, b)' <=> Before(s, b)
  <2>1. Busy(w, s)'
    BY <1>1, <1>2, <1>6, TouchFacts
  <2>2. at[w] # "create" /\ at'[w] # "create" /\ at[w] # "search"
    BY <1>1, <1>6
  <2>3. Mine(w, s)' = Mine(w, s)
    BY <1>1, <1>2, <2>1, <2>2, SameMine DEF Touch
  <2> QED
    BY <1>0, <1>s, <1>1, <1>2, <1>6, <2>2, <2>3, StayRows
<1>8. PicStep(m)
  BY <1>0, <1>3, <1>4, SameProgress
<1>9. StatusOK(s)'
  <2>1. StatusOK(s)
    BY <1>3 DEF EndOK
  <2>2. TwoPass /\ pics[m].progress[1] = AllRows /\ fc'[s].error => flush
    <3>1. SUFFICES ASSUME TwoPass, pics[m].progress[1] = AllRows, fc'[s].error, ~fc[s].error
                   PROVE  flush
      BY <2>1, <1>m DEF StatusOK
    <3>2. ~IsTile(task[w])
      BY <1>1, <1>2, <3>1, <1>m, AllShown
    <3> QED
      BY <1>1, <3>1, <3>2 DEF Begins
  <2> QED
    BY <1>0, <1>1, <1>2, <1>4, <2>1, <2>2, <1>m, StatusKept
<1>10. EntropyOK(s)'
  <2>1. EntropyFrom(w, s)
    BY <1>1, <1>3 DEF EntropyFrom, HoldsEntropy
  <2> QED
    BY <1>0, <1>1, <1>2, <1>3, <1>4, <1>7, <1>m, <2>1, EntropyKept DEF EndOK
<1>11. ParsedOK(s)'
  <2>1. TwoPass /\ ~fc'[s].error /\ task[w].type = "TileReconstruction" =>
          fc[s].tileProgress[1][task[w].tile] > task[w].sby
    BY <1>1, <1>2, <1>3 DEF EndOK, ParsedOK
  <2> QED
    BY <1>1, <1>2, <1>3, <1>7, <2>1, ParsedKept DEF EndOK
<1>12. RefOK(s)'
  <2>1. TwoPass /\ ~fc'[s].error /\ task[w].type = "TileReconstruction" => RefRows(m, task[w].sby)
    BY <1>1, <1>2, <1>3, <1>m DEF EndOK, RefOK
  <2> QED
    BY <1>0, <1>1, <1>2, <1>3, <1>8, <2>1, <1>m, RefKept DEF EndOK
<1>13. EndOK(s)'
  BY <1>9, <1>10, <1>11, <1>12 DEF EndOK
<1> QED
  BY <1>0, <1>1, <1>2, <1>8, <1>13, <1>m, EndStep

----------------------------------------------------------------------------
(* The start of a frame, for other frames *)

\* Before a pass is created nothing of it is published.
LEMMA Unstarted ==
  ASSUME EInv, NEW w \in Workers, at[w] \in {"Init", "InitCdf"}, NEW s, s = Slot(w),
         s \in Slots, Unfinished(s), NEW m, m = fc[s].pic
  PROVE  /\ TwoPass /\ pics[m].progress[0] = 0 /\ pics[m].progress[1] = 0
         /\ Before(s, 0) /\ Before(s, 1)
<1>1. RInv /\ IInv /\ SliceOK(s) /\ EndOK(s)
  BY Flying
<1>2. TwoPass /\ task[w].type \in InitTypes
  BY <1>1, StartMine
<1>3. Before(s, 0) /\ Before(s, 1)
  BY <1>2 DEF Before, Busy
<1> QED
  BY <1>1, <1>2, <1>3 DEF SliceOK, PicOK, EndOK, EntropyOK

\* An aborted frame ends with an error, which is all that is published of it.
LEMMA AbortEnds ==
  ASSUME EInv, RInv', NEW w \in Workers, at[w] \in {"Init", "InitCdf"}, NEW b \in BOOLEAN,
         Abort(Slot(w), b), Goto(w, "search"), UNCHANGED <<task, caller>>
  PROVE  GoesWell
<1>0. IInv
  BY DEF EInv, RInv
<1>s. PICK s : s = Slot(w)
  OBVIOUS
<1>m. PICK m : m = fc[s].pic
  OBVIOUS
<1>1. /\ s \in Slots /\ Acts(w, s) /\ Aborts(s, Picture(w)) /\ Picture(w) = pics[m]
      /\ flush' = flush
  BY <1>0, <1>s, <1>m, AbortEffect DEF caller
<1>2. Unfinished(s) /\ setup' = setup
  BY <1>1 DEF Acts, Touch
<1>3. /\ setup \in DOMAIN Setups /\ m \in 1 .. Number /\ pics[m].ref \in 0 .. Number
      /\ Ended(m) /\ pics[m] \in Pictures /\ Number \in Nat
  BY <1>1, <1>2, <1>m, Flying
<1>4. pics[m].progress[0] = 0 /\ pics[m].progress[1] = 0
  BY <1>1, <1>2, <1>s, <1>m, Unstarted
<1>e. PICK e : e = TRUE
  OBVIOUS
<1>p. PICK p : p = AbortedPic(pics[m])
  OBVIOUS
<1>5. PICK f \in Frames : pics'[m] = LeftPic(f, p, e)
  BY <1>1, <1>m, <1>e, <1>p DEF Aborts
<1>6. /\ p \in Pictures /\ p.progress = [x \in {0, 1} |-> FRAME_ERROR] /\ p.refresh = pics[m].refresh
      /\ p.filtered = pics[m].filtered /\ p.ref = pics[m].ref
  <2>1. FRAME_ERROR \in 0 .. TILE_ERROR
    BY <1>3, SetupFacts DEF FRAME_ERROR, TILE_ERROR
  <2>2. [x \in {0, 1} |-> FRAME_ERROR] \in Progress
    BY <2>1 DEF Progress
  <2> QED
    BY <1>3, <1>p, <2>2 DEF AbortedPic, Pictures
<1>7. /\ pics'[m].status = "failed" /\ pics'[m].filtered = pics[m].filtered
      /\ pics'[m].ref = pics[m].ref /\ pics'[m].refresh = pics[m].refresh
      /\ pics'[m].refresh => pics'[m].cdf = "error"
      /\ \A x \in {0, 1} : pics'[m].progress[x] = FRAME_ERROR
  <2>1. /\ LeftPic(f, p, e).status = "failed" /\ LeftPic(f, p, e).filtered = p.filtered
        /\ LeftPic(f, p, e).ref = p.ref /\ LeftPic(f, p, e).refresh = p.refresh
        /\ p.refresh => LeftPic(f, p, e).cdf = "error"
    BY <1>6, <1>e DEF LeftPic, Pictures
  <2>2. \A x \in {0, 1} : LeftPic(f, p, e).progress[x] = FRAME_ERROR
    BY <1>6 DEF LeftPic, Pictures
  <2> QED
    BY <1>5, <1>6, <2>1, <2>2
<1>8. PicStep(m)
  <2>1. FRAME_ERROR >= 0
    BY <1>3, SetupFacts DEF FRAME_ERROR
  <2>2. Grown(m)
    BY <1>4, <1>7, <2>1 DEF Grown
  <2> QED
    BY <1>7, <2>2 DEF PicStep
<1>9. Ended(m)'
  <2>1. Number' = Number
    BY <1>1, <1>3 DEF Acts, Touch, Number
  <2> QED
    BY <1>3, <1>7, <2>1 DEF Ended
<1>10. fc'[s].finished
  BY <1>1 DEF Aborts
<1> QED
  BY <1>1, <1>8, <1>9, <1>10, <1>m, EndStep

\* A frame that has not started goes on as it is.
LEMMA StartsEnds ==
  ASSUME EInv, RInv', NEW w \in Workers, at[w] \in {"Init", "InitCdf"}, NEW s, s = Slot(w),
         s \in Slots, Starts(w, s), flush' = flush
  PROVE  GoesWell
<1>m. PICK m : m = fc[s].pic
  OBVIOUS
<1>1. /\ Acts(w, s) /\ Fixed(s) /\ Unfinished(s) /\ ~fc'[s].finished
      /\ fc'[s].tileProgress = fc[s].tileProgress /\ pics'[m] = pics[m]
      /\ IInv /\ IInv'
  BY <1>m DEF Starts, Fixed, Acts, EInv, RInv
<1>2. /\ m \in 1 .. Number /\ pics[m].ref \in 0 .. Number /\ EndOK(s) /\ pics[m] \in Pictures
      /\ setup \in DOMAIN Setups
  BY <1>1, <1>m, Flying
<1>3. /\ pics[m].progress[1] = 0 /\ Before(s, 1) /\ Before(s, 1)'
  BY <1>1, <1>m, Unstarted DEF Starts
<1>4. PicStep(m)
  BY <1>1, <1>2, SamePic
<1>5. StatusOK(s)'
  <2>1. AllRows # 0
    BY <1>2, SetupFacts DEF AllRows
  <2> QED
    BY <1>1, <1>2, <1>3, <1>m, <2>1, StatusKept DEF EndOK
<1>6. fc'[s].entropy = fc[s].entropy /\ fc'[s].done = fc[s].done
  BY <1>1 DEF Fixed
<1>7. EntropyFrom(w, s)
  BY DEF Starts, EntropyFrom, HoldsEntropy, InitTypes
<1>8. EntropyOK(s)'
  BY <1>1, <1>2, <1>3, <1>6, <1>7, <1>m, EntropyKept DEF EndOK
<1>9. Busy(w, s)' => task'[w].type # "TileReconstruction"
  BY DEF Starts, InitTypes
<1>10. ParsedOK(s)'
  BY <1>1, <1>2, <1>3, <1>9, ParsedKept DEF EndOK
<1>11. RefOK(s)'
  BY <1>1, <1>2, <1>4, <1>9, <1>m, RefKept DEF EndOK
<1>12. EndOK(s)'
  BY <1>5, <1>8, <1>10, <1>11 DEF EndOK
<1> QED
  BY <1>1, <1>4, <1>12, <1>m, EndStep

\* A worker at the first task of a frame.
LEMMA InitFrameEnds ==
  ASSUME EInv, NEW w \in Workers, InitFrame(w)
  PROVE  GoesWell
<1>0. RInv /\ IInv /\ RInv'
  BY InitFrameSlice DEF EInv, RInv
<1>s. PICK s : s = Slot(w)
  OBVIOUS
<1>1. /\ s \in Slots /\ at[w] = "Init" /\ UNCHANGED caller
      /\ \/ Abort(Slot(w), FALSE) /\ Goto(w, "search") /\ UNCHANGED task
         \/ Starts(w, s)
  BY <1>0, <1>s, InitFrameEffect
<1>2. CASE Abort(Slot(w), FALSE) /\ Goto(w, "search") /\ UNCHANGED task
  <2>1. FALSE \in BOOLEAN
    OBVIOUS
  <2> QED
    BY <1>0, <1>1, <1>2, <2>1, AbortEnds
<1>3. CASE Starts(w, s)
  <2>1. flush' = flush
    BY <1>1 DEF caller
  <2> QED
    BY <1>0, <1>1, <1>3, <1>s, <2>1, StartsEnds
<1> QED
  BY <1>1, <1>2, <1>3

\* The first pass is created with nothing parsed.
LEMMA OpensEnds ==
  ASSUME EInv, RInv', NEW w \in Workers, NEW s, s = Slot(w), at[w] \in {"Init", "InitCdf"},
         s \in Slots, Opens(w, s), flush' = flush
  PROVE  GoesWell
<1>m. PICK m : m = fc[s].pic
  OBVIOUS
<1>1. /\ Acts(w, s) /\ Unfinished(s) /\ ~fc'[s].finished /\ pics'[m] = pics[m] /\ IInv
      /\ ~fc[s].error /\ ~fc'[s].error
      /\ Touch(w, s) /\ setup' = setup /\ fc'[s].pic = m
  BY <1>m DEF Opens, Acts, Touch, EInv, RInv
<1>2. /\ m \in 1 .. Number /\ pics[m].ref \in 0 .. Number /\ EndOK(s) /\ pics[m] \in Pictures
      /\ setup \in DOMAIN Setups
  BY <1>1, <1>m, Flying
<1>3. pics[m].progress[0] = 0 /\ pics[m].progress[1] = 0
  BY <1>1, <1>m, Unstarted
<1>4. PicStep(m)
  BY <1>1, <1>2, SamePic
<1>5. \A v \in Workers : Busy(v, s)' => at'[v] = "create" /\ task'[v].type = "InitCdf"
  BY DEF Opens
<1>6. StatusOK(s)'
  BY <1>1, <1>2, <1>m, StatusKept DEF EndOK
<1>7. EntropyOK(s)'
  <2>1. Sbh' = Sbh /\ Sbh \in Nat \ {0} /\ AllRows' = AllRows /\ AllRows # 0
    BY <1>1, <1>2, SameSetup, SetupFacts DEF AllRows
  <2>2. \A v \in Workers : ~HoldsEntropy(v, s)'
    BY <1>5 DEF HoldsEntropy
  <2>3. fc'[s].entropy = 0 /\ ~fc'[s].done[1]
    BY DEF Opens
  <2>4. \A t \in fc'[s].queue : t.type = "EntropyProgress" => t.sby = 0
    <3>1. TwoPass /\ pics[m].filters \in SUBSET {"deblock", "cdef"} 
          /\ fc'[s].queue = PassTasks(1, pics[m].filters)
      BY <1>m DEF Opens
    <3>2. \A t \in fc'[s].queue : ~IsTile(t) => t.sby = 0
      BY <1>2, <3>1, PassTasksRows
    <3> QED
      BY <3>2 DEF IsTile
  <2>5. pics'[fc'[s].pic].progress[0] = 0
    BY <1>1, <1>3
  <2> QED
    BY <2>1, <2>2, <2>3, <2>4, <2>5 DEF EntropyOK
<1>8. ParsedOK(s)'
  <2>1. Tiles' = Tiles
    BY <1>1, SameSetup
  <2>2. \A i \in Tiles : fc'[s].tileProgress[0][i] <= fc'[s].tileProgress[1][i]
    <3>1. \A i \in Tiles : RowStart[TileRow(i)] \in Int
      BY <1>2, TileRowType, SetupFacts DEF Rows
    <3> QED
      BY <3>1 DEF Opens
  <2> QED
    BY <1>5, <2>1, <2>2 DEF ParsedOK
<1>9. RefOK(s)'
  BY <1>5 DEF RefOK
<1>10. EndOK(s)'
  BY <1>6, <1>7, <1>8, <1>9 DEF EndOK
<1> QED
  BY <1>1, <1>4, <1>10, <1>m, EndStep

\* The worker that starts a frame aborts it, or creates its first pass.
LEMMA InitFrameCdfEnds ==
  ASSUME EInv, NEW w \in Workers, InitFrameCdf(w)
  PROVE  GoesWell
<1>0. RInv /\ IInv /\ RInv'
  BY InitFrameCdfSlice DEF EInv, RInv
<1>s. PICK s : s = Slot(w)
  OBVIOUS
<1>1. /\ s \in Slots /\ at[w] = "InitCdf" /\ UNCHANGED <<task, caller>>
      /\ \/ Abort(Slot(w), TRUE) /\ Goto(w, "search")
         \/ Opens(w, s)
  BY <1>0, <1>s, InitFrameCdfEffect
<1>2. CASE Abort(Slot(w), TRUE) /\ Goto(w, "search")
  <2>1. TRUE \in BOOLEAN
    OBVIOUS
  <2> QED
    BY <1>0, <1>1, <1>2, <2>1, AbortEnds
<1>3. CASE Opens(w, s)
  <2>1. flush' = flush
    BY <1>1 DEF caller
  <2> QED
    BY <1>0, <1>1, <1>3, <1>s, <2>1, OpensEnds
<1> QED
  BY <1>1, <1>2, <1>3

\* ... and then the second.
LEMMA CreateSecondEnds ==
  ASSUME EInv, NEW w \in Workers, CreateSecond(w)
  PROVE  GoesWell
<1>0. RInv /\ IInv /\ RInv' /\ IInv'
  BY CreateSecondSlice DEF EInv, RInv
<1>s. PICK s : s = Slot(w)
  OBVIOUS
<1>1. s \in Slots /\ CreatesSecond(w, s)
  BY <1>0, <1>s, CreateSecondEffect
<1>m. PICK m : m = fc[s].pic
  OBVIOUS
<1>2. /\ Acts(w, s) /\ Unfinished(s) /\ ~fc'[s].finished /\ pics'[m] = pics[m]
      /\ fc'[s].error = fc[s].error /\ fc'[s].entropy = fc[s].entropy
      /\ fc'[s].done[1] = fc[s].done[1] /\ fc'[s].tileProgress = fc[s].tileProgress
      /\ (Before(s, 1)' <=> Before(s, 1)) /\ at'[w] = "search" /\ flush' = flush
      /\ pics[m].filters \in SUBSET {"deblock", "cdef"}
      /\ fc'[s].queue = fc[s].queue \cup PassTasks(0, pics[m].filters)
  BY <1>1, <1>m DEF CreatesSecond, Acts, caller
<1>3. /\ m \in 1 .. Number /\ pics[m].ref \in 0 .. Number /\ EndOK(s) /\ pics[m] \in Pictures
      /\ setup \in DOMAIN Setups /\ \A t \in fc[s].queue : t.sby \in Rows
  BY <1>1, <1>2, <1>m, Flying
<1>4. ~Busy(w, s)'
  BY <1>2 DEF Busy
<1>5. PicStep(m)
  BY <1>0, <1>2, <1>3, SamePic
<1>6. StatusOK(s)'
  BY <1>1, <1>2, <1>3, <1>m, StatusKept DEF EndOK, StatusOK
<1>7. EntropyFrom(w, s)
  <2>1. \A t \in PassTasks(0, pics[m].filters) : t.type # "EntropyProgress"
    BY <1>2, <1>3, PassTasksRows DEF Pass
  <2>2. \A t \in fc[s].queue : t.sby <= t.sby
    BY <1>3 DEF Rows
  <2> QED
    BY <1>2, <1>4, <2>1, <2>2 DEF EntropyFrom, HoldsEntropy
<1>8. EntropyOK(s)'
  BY <1>0, <1>1, <1>2, <1>3, <1>7, <1>m, EntropyKept DEF EndOK
<1>9. ParsedOK(s)'
  BY <1>1, <1>2, <1>3, <1>4, ParsedKept DEF EndOK
<1>10. RefOK(s)'
  BY <1>0, <1>1, <1>2, <1>3, <1>4, <1>5, <1>m, RefKept DEF EndOK
<1>11. EndOK(s)'
  BY <1>6, <1>8, <1>9, <1>10 DEF EndOK
<1> QED
  BY <1>0, <1>1, <1>2, <1>5, <1>11, <1>m, EndStep

----------------------------------------------------------------------------
(* The caller, for other frames *)

\* What the caller does to no frame in flight but the one it submits.
LEMMA CallerEnds ==
  ASSUME EInv, RInv', UNCHANGED <<at, task, setup>>, flush => flush',
         \A n \in 1 .. Number : pics'[n] = pics[n], Number <= Number',
         \A n \in 1 .. Number' : n \in 1 .. Number \/ Ended(n)',
         \A x \in Slots : Unfinished(x)' =>
           EndOK(x)' \/ (Unfinished(x) /\ fc'[x] = fc[x])
  PROVE  GoesWell
<1>1. Slots' = Slots /\ Rows' = Rows /\ TwoPass' = TwoPass /\ AllRows' = AllRows
  BY SameSetup
<1>2. IInv /\ Number \in Nat /\ Number' \in Nat
  BY DEF EInv, RInv, IInv, TypeOK, Number
<1>3. \A n \in 1 .. Number : PicStep(n)
  BY <1>2, SamePic
<1>4. ASSUME NEW x \in Slots, Unfinished(x), fc'[x] = fc[x]
      PROVE  EndOK(x)'
  <2>1. /\ EndOK(x) /\ fc[x].pic \in 1 .. Number /\ pics[fc[x].pic].ref \in 0 .. Number
    BY <1>4, Flying
  <2>2. \A v \in Workers : /\ Busy(v, x)' <=> Busy(v, x)
                           /\ Busy(v, x) => at'[v] = at[v] /\ task'[v] = task[v]
    BY DEF Busy, Slot
  <2>3. pics[fc[x].pic].ref # None =>
          pics[pics[fc[x].pic].ref].filtered \subseteq pics'[pics[fc[x].pic].ref].filtered
    BY <1>2, <2>1 DEF None
  <2>4. setup' = setup /\ pics'[fc[x].pic] = pics[fc[x].pic]
    BY <2>1
  <2> QED
    BY <1>4, <2>1, <2>2, <2>3, <2>4, EndSame
<1>5. ASSUME NEW n \in 1 .. Number'
      PROVE  Ended(n)'
  <2>1. CASE n \in 1 .. Number
    <3>1. Ended(n) /\ pics'[n] = pics[n]
      BY <2>1 DEF EInv
    <3>2. 0 .. Number \subseteq 0 .. Number'
      BY <1>2
    <3> QED
      BY <1>1, <3>1, <3>2 DEF Ended
  <2> QED
    BY <1>5, <2>1
<1> QED
  BY <1>1, <1>3, <1>4, <1>5 DEF EInv, GoesWell, Stays

\* A picture that is submitted is new, and refers to an older one.
LEMMA NewEnds ==
  ASSUME EInv, RInv', UNCHANGED <<at, task, setup, flush>>, NEW s \in Slots,
         NEW q \in Pictures, q.status = "decoding", q.ref \in 0 .. Number,
         pics' = Append(pics, q), \A x \in Slots : x = s \/ fc'[x] = fc[x], EndOK(s)'
  PROVE  GoesWell
<1>1. pics \in Seq(Pictures) /\ Number \in Nat
  BY DEF EInv, RInv, IInv, TypeOK, Number
<1>2. /\ Number' = Number + 1 /\ pics'[Number + 1] = q
      /\ \A n \in 1 .. Number : pics'[n] = pics[n]
  BY <1>1 DEF Number
<1>3. ASSUME NEW n, n = Number + 1
      PROVE  Ended(n)'
  <2>1. pics'[n].status = "decoding" /\ pics'[n].ref \in 0 .. Number'
    <3>1. pics'[n] = q
      BY <1>2, <1>3
    <3>2. 0 .. Number \subseteq 0 .. Number'
      BY <1>1, <1>2
    <3> QED
      BY <3>1, <3>2
  <2> QED
    BY <2>1 DEF Ended
<1>4. \A n \in 1 .. Number' : n \in 1 .. Number \/ n = Number + 1
  BY <1>1, <1>2
<1>5. \A n \in 1 .. Number' : n \in 1 .. Number \/ Ended(n)'
  BY <1>3, <1>4
<1>6. \A x \in Slots : Unfinished(x)' => EndOK(x)' \/ (Unfinished(x) /\ fc'[x] = fc[x])
  BY DEF Unfinished
<1>7. Number <= Number'
  BY <1>1, <1>2
<1> QED
  BY <1>2, <1>5, <1>6, <1>7, CallerEnds

\* A new picture is not damaged, and nothing of it is published.
LEMMA NewPicFresh ==
  ASSUME NEW ref, NEW kind
  PROVE  /\ NewPic(ref, kind).status = "decoding" /\ NewPic(ref, kind).ref = ref
         /\ ~NewPic(ref, kind).damaged
         /\ \A p \in {0, 1} : NewPic(ref, kind).progress[p] = 0
  BY DEF NewPic

\* A frame is submitted to one of several frame contexts.
LEMMA SubmitEnds ==
  ASSUME EInv, NEW s \in Slots, Submit(s)
  PROVE  GoesWell
<1>0. RInv /\ IInv /\ RInv' /\ IInv'
  BY SubmitSlice DEF EInv, RInv
<1>1. /\ fc[s].finished /\ Number < MaxFrames
      /\ fc' = [fc EXCEPT ![s] = [Submitted(fc[s]) EXCEPT !.initDone = FALSE,
                                                         !.queue = @ \cup InitTasks]]
      /\ UNCHANGED <<at, task, setup, flush>>
  BY DEF Submit
<1>2. PICK ref \in {None, last}, kind \in Setups[setup].kinds :
        pics' = Append(pics, NewPic(ref, kind))
  BY DEF Submit
<1>3. /\ fc \in [Slots -> Frames] /\ setup \in DOMAIN Setups /\ Number \in Nat
      /\ pics \in Seq(Pictures) /\ ref \in 0 .. Number
  BY <1>0, <1>2 DEF IInv, TypeOK, Number, None
<1>q. PICK q : q = NewPic(ref, kind)
  OBVIOUS
<1>4. q \in Pictures /\ pics' = Append(pics, q)
  BY <1>0, <1>1, <1>2, <1>q, NewPicType
<1>5. q.status = "decoding" /\ q.ref = ref /\ ~q.damaged /\ \A p \in {0, 1} : q.progress[p] = 0
  BY <1>q, NewPicFresh
<1>f. PICK f : f = Submitted(fc[s])
  OBVIOUS
<1>6. f.pic = Number + 1 /\ DOMAIN f = DOMAIN fc[s]
  BY <1>3, <1>f DEF Submitted, Frames
<1>7. fc'[s] = [f EXCEPT !.initDone = FALSE, !.queue = @ \cup InitTasks]
  BY <1>1, <1>3, <1>f
<1>8. fc'[s].pic = Number + 1 /\ fc'[s].queue = f.queue \cup InitTasks
  BY <1>3, <1>6, <1>7 DEF Frames
<1>9. \A v \in Workers : ~Busy(v, s)'
  BY <1>0, <1>1, <1>3 DEF IInv, Clean, Busy, Slot
<1>t. PICK t : t = Task("Init", 0, 0)
  OBVIOUS
<1>10. Before(s, 1)'
  <2>1. t.type = "Init" /\ t \in fc'[s].queue
    BY <1>8, <1>t DEF Task, InitTasks
  <2> QED
    BY <2>1 DEF Before, InitTypes
<1>11. pics'[fc'[s].pic] = q
  BY <1>3, <1>4, <1>8 DEF Number
<1>12. AllRows' # 0
  BY <1>1, <1>3, SameSetup, SetupFacts DEF AllRows
<1>13. EndOK(s)'
  BY <1>5, <1>9, <1>10, <1>11, <1>12 DEF EndOK, StatusOK, EntropyOK, ParsedOK, RefOK
<1>14. \A x \in Slots : x = s \/ fc'[x] = fc[x]
  BY <1>1, <1>3
<1> QED
  BY <1>0, <1>1, <1>3, <1>4, <1>5, <1>13, <1>14, NewEnds

\* ... or to the only one.
LEMMA SubmitSingleEnds ==
  ASSUME EInv, NEW s \in Slots, SubmitSingle(s)
  PROVE  GoesWell
<1>0. RInv /\ IInv /\ RInv' /\ IInv'
  BY SubmitSingleSlice DEF EInv, RInv
<1>1. /\ ~TwoPass /\ Number < MaxFrames /\ UNCHANGED <<at, task, setup, flush>>
  BY DEF SubmitSingle
<1>2. PICK kind \in Setups[setup].kinds :
        /\ pics' = Append(pics, NewPic(None, kind))
        /\ fc' = [fc EXCEPT ![s] = Created(SetUp(Submitted(@)), 0, kind.filters)]
  BY DEF SubmitSingle
<1>3. /\ fc \in [Slots -> Frames] /\ setup \in DOMAIN Setups /\ Number \in Nat
      /\ pics \in Seq(Pictures)
  BY <1>0 DEF IInv, TypeOK, Number
<1>q. PICK q : q = NewPic(None, kind)
  OBVIOUS
<1>4. q \in Pictures /\ pics' = Append(pics, q)
  BY <1>0, <1>1, <1>2, <1>q, NewPicType
<1>5. q.status = "decoding" /\ q.ref = None /\ ~q.damaged /\ \A p \in {0, 1} : q.progress[p] = 0
  BY <1>q, NewPicFresh
<1>6. q.filters = kind.filters /\ q.filters \in SUBSET {"deblock", "cdef"} /\ Number + 1 \in PicIds
  <2>1. q.filters = kind.filters
    BY <1>0, <1>1, <1>2, <1>q, NewPicType
  <2> QED
    BY <1>1, <1>3, <1>4, <2>1, BoundsAssumption DEF Pictures, PicIds
<1>f. PICK f : f = Submitted(fc[s])
  OBVIOUS
<1>7. f \in Frames /\ f.pic = Number + 1
  <2>1. fc[s] \in Frames /\ TaskCount \in Nat
    BY <1>3, AllCount
  <2> QED
    BY <1>6, <1>f, <2>1 DEF Submitted, Frames
<1>h. PICK h : h = SetUp(f)
  OBVIOUS
<1>8. h \in Frames /\ h.pic = Number + 1
  BY <1>3, <1>7, <1>h, SetUpFacts DEF Like
<1>g. PICK g : g = Created(h, 0, q.filters)
  OBVIOUS
<1>9. g.pic = Number + 1
  <2>1. PassTasks(0, q.filters) \subseteq Tasks
    BY <1>3, <1>6, PassTasksFacts
  <2>2. /\ g \in Frames /\ g.queue = h.queue \cup PassTasks(0, q.filters) /\ g.pic = h.pic
        /\ g.counter = h.counter /\ g.finished = h.finished
        /\ g.nextTileRow = [h.nextTileRow EXCEPT ![0] = 0]
        /\ g.done = [h.done EXCEPT ![0] = FALSE] /\ g.frame = {}
    BY <1>3, <1>8, <1>g, <2>1, CreatedFacts
  <2> QED
    BY <1>8, <2>2
<1>10. fc' = [fc EXCEPT ![s] = g]
  BY <1>2, <1>3, <1>6, <1>f, <1>g, <1>h
<1>11. pics'[fc'[s].pic] = q
  BY <1>3, <1>4, <1>9, <1>10 DEF Number
<1>12. TwoPass' = TwoPass /\ Slots' = Slots
  BY <1>1, SameSetup
<1>13. EndOK(s)'
  BY <1>1, <1>5, <1>11, <1>12 DEF EndOK, StatusOK, EntropyOK, ParsedOK, RefOK
<1>14. \A x \in Slots : x = s \/ fc'[x] = fc[x]
  BY <1>3, <1>10
<1>15. q.ref \in 0 .. Number
  BY <1>3, <1>5 DEF None
<1> QED
  BY <1>0, <1>1, <1>4, <1>5, <1>13, <1>14, <1>15, NewEnds

\* A flush leaves all frames, with an error.
LEMMA FlushAllEnds ==
  ASSUME EInv, FlushAll
  PROVE  GoesWell
<1>0. RInv /\ IInv /\ RInv' /\ IInv'
  BY FlushAllSlice DEF EInv, RInv
<1>e. PICK e : e = TRUE
  OBVIOUS
<1>1. /\ fc' = [x \in Slots |-> Flushed(fc[x])] /\ setup' = setup
      /\ pics' = [n \in 1 .. Number |->
           IF \E s \in Slots : ~fc[s].finished /\ fc[s].pic = n
           THEN LeftPic(NoFrame, pics[n], e) ELSE pics[n]]
  BY <1>e DEF FlushAll
<1>2. /\ fc \in [Slots -> Frames] /\ pics \in [1 .. Number -> Pictures] /\ Number \in Nat
      /\ Slots' = Slots /\ Rows' = Rows /\ TwoPass' = TwoPass /\ AllRows' = AllRows
      /\ Number' = Number
  BY <1>0, <1>1, SameSetup DEF IInv, TypeOK, Number
<1>3. ASSUME NEW x \in Slots
      PROVE  fc'[x].finished
  <2>f. PICK f : f = IF fc[x].finished THEN fc[x] ELSE Left(fc[x], TRUE)
    OBVIOUS
  <2>1. f \in Frames /\ f.finished
    BY <1>2, <2>f, LeftTypes
  <2>2. Flushed(fc[x]) = [f EXCEPT !.queue = {}]
    BY <2>f DEF Flushed
  <2> QED
    BY <1>1, <2>1, <2>2 DEF Frames
<1>4. ASSUME NEW n \in 1 .. Number
      PROVE  PicStep(n) /\ Ended(n)'
  <2>1. Ended(n) /\ pics[n] \in Pictures
    BY <1>2 DEF EInv
  <2>2. CASE pics'[n] = pics[n]
    BY <1>0, <1>2, <2>1, <2>2, SamePic DEF Ended
  <2>3. CASE pics'[n] = LeftPic(NoFrame, pics[n], e)
    <3>p. PICK p : p = LeftPic(NoFrame, pics[n], e)
      OBVIOUS
    <3>1. ~NotCompliant(NoFrame, e)
      BY <1>e DEF NotCompliant
    <3>2. /\ p.status = "failed" /\ p.filtered = pics[n].filtered /\ p.ref = pics[n].ref
          /\ p.refresh = pics[n].refresh /\ (p.refresh => p.cdf = "error")
      BY <1>e, <2>1, <3>p DEF LeftPic, Pictures
    <3>3. p.progress = pics[n].progress
      BY <2>1, <3>p, <3>1 DEF LeftPic, Pictures, Progress
    <3>4. PicStep(n)
      BY <1>0, <2>3, <3>p, <3>2, <3>3, SameProgress
    <3>5. Ended(n)'
      BY <1>2, <2>1, <2>3, <3>p, <3>2 DEF Ended
    <3> QED
      BY <3>4, <3>5
  <2> QED
    BY <1>1, <2>2, <2>3
<1>5. ASSUME NEW n \in 1 .. Number, pics[n].status # "decoding"
      PROVE  pics'[n] = pics[n]
  <2>1. \A s \in Slots : ~fc[s].finished => fc[s].pic # n
    BY <1>5 DEF EInv, EndOK, StatusOK, Unfinished
  <2> QED
    BY <1>1, <2>1
<1> QED
  BY <1>0, <1>2, <1>3, <1>4, <1>5 DEF EInv, GoesWell, Stays, Unfinished

----------------------------------------------------------------------------
(* The theorems about other frames *)

\* No frame is in flight at first, and there is no picture.
LEMMA InitEnds ==
  ASSUME Init
  PROVE  EInv
<1>1. RInv
  BY InitRows
<1>2. \A s \in Slots : fc[s].finished
  BY DEF Init, NoFrame
<1>3. Number = 0
  BY DEF Init, Number
<1> QED
  BY <1>1, <1>2, <1>3 DEF EInv, Unfinished

\* What a worker does goes well.
LEMMA RunEnds ==
  ASSUME EInv, NEW w \in Workers, FindTask(w) \/ Run(w)
  PROVE  GoesWell
BY FindTaskEnds, StartEnds, InitFrameEnds, InitFrameCdfEnds, CreateSecondEnds,
   NextTileTaskEnds, EndTileEnds, DeblockColsEnds, DeblockRowsEnds, FinishRowEnds,
   PublishRowsEnds, EntropyProgressEnds, EndRowEnds DEF Run

\* Every step does.
LEMMA NextEnds ==
  ASSUME EInv, [Next]_vars
  PROVE  GoesWell
<1>0. RInv'
  BY NextSlice DEF EInv
<1>1. CASE \E s \in Slots : Submit(s) \/ SubmitSingle(s)
  BY <1>1, SubmitEnds, SubmitSingleEnds
<1>2. CASE FlushAll
  BY <1>2, FlushAllEnds
<1>3. CASE \E w \in Workers : FindTask(w) \/ Run(w)
  BY <1>3, RunEnds
<1>4. CASE UNCHANGED <<at, task, fc, pics, setup>> /\ (flush => flush')
  <2>1. \A x \in Slots : Unfinished(x)' => Unfinished(x) /\ fc'[x] = fc[x]
    BY <1>4 DEF Unfinished
  <2>2. Number' = Number /\ Number \in Nat /\ \A n \in 1 .. Number : pics'[n] = pics[n]
    BY <1>4 DEF Number, EInv, RInv, IInv, TypeOK
  <2>3. Number <= Number' /\ \A n \in 1 .. Number' : n \in 1 .. Number
    BY <2>2
  <2> QED
    BY <1>0, <1>4, <2>1, <2>2, <2>3, CallerEnds
<1>5. ASSUME \E s \in Slots : Waited(s) PROVE GoesWell
  BY <1>4, <1>5 DEF Waited
<1>6. ASSUME Flush PROVE GoesWell
  BY <1>4, <1>6 DEF Flush
<1>7. ASSUME UNCHANGED vars PROVE GoesWell
  BY <1>4, <1>7 DEF vars, caller
<1> QED
  BY <1>1, <1>2, <1>3, <1>5, <1>6, <1>7 DEF Next

\* Frames and their pictures agree, the entropy progress is made row by row,
\* the second pass is behind the first, and a row is read when it is there.
THEOREM EndsInvariance == Spec => []EInv
<1>1. Init => EInv
  BY InitEnds
<1>2. EInv /\ [Next]_vars => EInv'
  BY NextEnds DEF GoesWell
<1> QED
  BY <1>1, <1>2, PTL DEF Spec

\* A tile decodes a row when the row is parsed and what it reads of the
\* reference is filtered, whoever filters it.
THEOREM RefRowsRead == Spec => []RefRowsThere
<1>1. ASSUME EInv, NEW w \in Workers, at[w] = "start", IsTile(task[w]), TwoPass, ~Frame(w).error,
             Pass(task[w]) = 0
      PROVE  /\ Frame(w).tileProgress[1][task[w].tile] > task[w].sby
             /\ Picture(w).ref # None =>
                  0 .. Reach[task[w].sby] - 1 \subseteq pics[Picture(w).ref].filtered
  <2>s. PICK s : s = Slot(w)
    OBVIOUS
  <2>1. /\ s \in Slots /\ Busy(w, s) /\ Unfinished(s) /\ Frame(w) = fc[s]
        /\ Picture(w) = pics[fc[s].pic]
    BY <1>1, <2>s, BusyFacts DEF EInv, RInv, Frame, Picture
  <2>2. task[w].type = "TileReconstruction"
    BY <1>1 DEF IsTile, Pass
  <2>3. ParsedOK(s) /\ RefOK(s)
    BY <1>1, <2>1 DEF EInv, EndOK
  <2> QED
    BY <1>1, <2>1, <2>2, <2>3 DEF ParsedOK, RefOK, RefRows
<1>2. EInv => RefRowsThere
  BY <1>1 DEF RefRowsThere
<1> QED
  BY <1>2, EndsInvariance, PTL

\* A frame that ends well is complete, and nobody waits for the CDF of one
\* that has ended.
THEOREM EndsAreComplete == Spec => []EndsComplete
<1>1. EInv => EndsComplete
  BY DEF EInv, Ended, EndsComplete
<1> QED
  BY <1>1, EndsInvariance, PTL

\* No step takes back what a picture has published, but for an error, and
\* none touches the picture of a frame that has ended.
THEOREM ProgressKept == Spec => ProgressGrows
<1>1. EInv /\ [Next]_vars =>
        [\A n \in 1 .. Number :
           /\ \A p \in {0, 1} :
                \/ pics'[n].progress[p] >= pics[n].progress[p]
                \/ (flush \/ Refused(n)) /\ pics'[n].progress[p] = FRAME_ERROR
           /\ pics[n].status # "decoding" => pics'[n] = pics[n]]_vars
  BY NextEnds DEF GoesWell, PicStep, Grown, Stays
<1> QED
  BY <1>1, EndsInvariance, PTL DEF Spec, ProgressGrows
=============================================================================
