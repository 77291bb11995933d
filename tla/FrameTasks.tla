----------------------------- MODULE FrameTasks -----------------------------
(***************************************************************************)
(* How the worker pool of the decoder (rusty_av1d, thread_task.rs) decodes *)
(* a frame: the tasks of a frame, what each waits for, what it signals,    *)
(* and how the last one finds out that it is the last.                     *)
(*                                                                         *)
(* A frame has tiles, each a column of superblock rows, and is decoded in  *)
(* two passes when several frames are in flight (entropy decoding, then    *)
(* reconstruction), else in one.  Behind the tiles a chain of tasks per    *)
(* pass runs over the superblock rows of the whole frame: one makes the    *)
(* entropy progress of the frame known, the other filters the rows.        *)
(*                                                                         *)
(* A worker holds ttd.lock while it searches, which is one step here, and  *)
(* runs tasks without it.  The search takes any task that is ready: the    *)
(* order in the queue, its cursor and the condition variable are left out. *)
(* A picture refers to the one submitted before it, or to none, and takes  *)
(* both its pixels and its CDF from there.                                 *)
(***************************************************************************)
EXTENDS Integers, FiniteSets, Sequences

CONSTANTS
  Workers,    \* c.tc
  Setups,     \* numbered configurations, with their bounds: see SetupType
  Strict,     \* c.strict_std_compliance
  MaxFrames   \* bound: frames submitted

\* twoPass: c.fc.len() > 1.  rowStart: tiling.row_start_sb, ending with the
\* rows of the frame.  reach: lowest_px, the rows of the reference that a row
\* of tiles needs.  kinds: frame headers.  Bounds: mayFail, the frames
\* that may be malformed; flushes, calls of rav1d_flush.
SetupType(s) ==
  /\ s.twoPass \in BOOLEAN /\ s.slots \subseteq Nat /\ IsFiniteSet(s.slots)
  /\ ~s.twoPass => Cardinality(s.slots) = 1
  /\ s.tileCols \in Nat \ {0} /\ s.tileRows \in Nat \ {0}
  /\ s.rowStart \in [0 .. s.tileRows -> Nat]
  /\ s.rowStart[0] = 0
  /\ \A q, r \in 0 .. s.tileRows : q < r => s.rowStart[q] < s.rowStart[r]
  /\ s.reach \in [0 .. s.rowStart[s.tileRows] - 1 -> 0 .. s.rowStart[s.tileRows]]
  /\ s.kinds \subseteq [refresh : BOOLEAN, filters : SUBSET {"deblock", "cdef"}]
  /\ s.mayFail \subseteq Nat /\ s.flushes \in Nat

ASSUME SetupAssumption == \A n \in DOMAIN Setups : SetupType(Setups[n])
ASSUME BoundsAssumption == Strict \in BOOLEAN /\ MaxFrames \in Nat

VARIABLES
  setup,   \* the configuration
  at,      \* where each worker is
  task,    \* the task it runs, and its slot
  fc,      \* the frame contexts
  pics,    \* the pictures, by the order of their frames
  last,    \* the picture that the next frame may refer to
  main,    \* the caller: "idle", or in rav1d_decode_frame, or in rav1d_flush
  flush,   \* c.flush
  flushes  \* how often it was set

caller == <<last, main, flush, flushes, setup>>
vars == <<at, task, fc, pics, caller>>

Slots == Setups[setup].slots         \* c.fc
TwoPass == Setups[setup].twoPass
TileCols == Setups[setup].tileCols   \* tiling.cols
TileRows == Setups[setup].tileRows   \* tiling.rows
RowStart == Setups[setup].rowStart
Reach == Setups[setup].reach

Sbh == RowStart[TileRows]            \* f.sbh
Rows == 0 .. Sbh - 1
Tiles == 0 .. TileRows * TileCols - 1
TileRow(i) == i \div TileCols
TILE_ERROR == Sbh + 1                \* above every row
FRAME_ERROR == Sbh                   \* above every row of a picture but its end,
AllRows == Sbh + 1                   \* u32::MAX
None == 0

----------------------------------------------------------------------------
(* Tasks *)

Task(type, sby, tile) ==
  [type |-> type, sby |-> sby, tile |-> tile, recon |-> 0, deblock |-> 0, slot |-> None]

IsTile(t) == t.type \in {"TileEntropy", "TileReconstruction"}

\* The pass whose progress a task makes: 1 is entropy decoding.
Pass(t) == IF t.type \in {"TileEntropy", "EntropyProgress"} THEN 1 ELSE 0

TileTasks(type) == {Task(type, RowStart[TileRow(i)], i) : i \in Tiles}

\* create_filter_sbrow: where the rows of a frame enter the filters.
FirstFilter(filters) ==
  IF "deblock" \in filters THEN "DeblockCols"
  ELSE IF "cdef" \in filters THEN "DeblockRows"
  ELSE "ReconstructionProgress"

\* ... and the first task of the chain of a pass.
FirstRow(type) == [Task(type, 0, 0) EXCEPT !.recon = 1]

NoFrame ==
  [queue |-> {}, tileProgress |-> [p \in {0, 1} |-> [i \in Tiles |-> 0]],
   entropy |-> 0, deblock |-> 0, copyLpf |-> {}, frame |-> {},
   done |-> [p \in {0, 1} |-> FALSE], counter |-> 0, error |-> FALSE,
   initDone |-> FALSE, nextTileRow |-> [p \in {0, 1} |-> 0],
   finished |-> TRUE, pic |-> None]

Init ==
  /\ setup \in DOMAIN Setups
  /\ at = [w \in Workers |-> "search"]
  /\ task = [w \in Workers |-> Task("Init", 0, 0)]
  /\ fc = [s \in Slots |-> NoFrame]
  /\ pics = <<>>
  /\ last = None
  /\ main = "idle"
  /\ flush = FALSE
  /\ flushes = 0

Goto(w, l) == at' = [at EXCEPT ![w] = l]
Slot(w) == task[w].slot
Frame(w) == fc[Slot(w)]
Picture(w) == pics[Frame(w).pic]
Malformed(w) == Frame(w).pic \in Setups[setup].mayFail

----------------------------------------------------------------------------
(* The caller *)

Number == Len(pics)

\* The picture of a new frame.  It leaves its own CDF behind, or the one it
\* started from.
NewPic(ref, kind) ==
  [ref |-> ref, filters |-> kind.filters, refresh |-> kind.refresh,
   outCdf |-> IF kind.refresh THEN Number + 1 ELSE IF ref = None THEN None ELSE pics[ref].outCdf,
   progress |-> [p \in {0, 1} |-> 0], cdf |-> "none",
   status |-> "decoding", damaged |-> FALSE, filtered |-> {}]

\* Mutant: the shift for two passes covers the rows alone.
TaskCountRows == TileRows * TileCols + (IF TwoPass THEN 2 ELSE 1) * Sbh

TaskCount == (TileRows * TileCols + Sbh) * (IF TwoPass THEN 2 ELSE 1)

\* rav1d_submit_frame, as far as the workers see it.
Submitted(f) ==
  [f EXCEPT !.finished = FALSE, !.error = FALSE, !.counter = TaskCount, !.pic = Number + 1]

\* Mutant: both tasks that start a frame at once.
BothInitTasks == {Task("Init", 0, 0), Task("InitCdf", 0, 0)}

InitTasks == {Task("Init", 0, 0)}

\* ... and rav1d_task_frame_init, when it has several frame contexts.
Submit(s) ==
  /\ TwoPass /\ main = "idle" /\ fc[s].finished /\ Number < MaxFrames
  /\ \E ref \in {None, last}, kind \in Setups[setup].kinds : pics' = Append(pics, NewPic(ref, kind))
  /\ last' = Number + 1
  /\ fc' = [fc EXCEPT ![s] = [Submitted(fc[s]) EXCEPT !.initDone = FALSE,
                                                     !.queue = @ \cup InitTasks]]
  /\ UNCHANGED <<at, task, main, flush, flushes, setup>>

\* Mutant: done keeps its value of the frame before.
ResetStale(f, pass) ==
  [f EXCEPT !.frame = {}, !.copyLpf = {}, !.deblock = 0, !.entropy = 0,
            !.nextTileRow[pass] = 0]

\* The progress of a pass that is created.
Reset(f, pass) ==
  IF pass = 1
  THEN [f EXCEPT !.done[1] = FALSE, !.nextTileRow[1] = 0, !.entropy = 0]
  ELSE [f EXCEPT !.done[0] = FALSE, !.nextTileRow[0] = 0,
                 !.frame = {}, !.copyLpf = {}, !.deblock = 0]

PassTasks(pass, filters) ==
  IF pass = 1
  THEN {FirstRow("EntropyProgress")} \cup TileTasks("TileEntropy")
  ELSE {FirstRow(FirstFilter(filters))} \cup TileTasks("TileReconstruction")

\* rav1d_task_create_tile_sbrow: the tasks of a pass.
Created(f, pass, filters) ==
  [Reset(f, pass) EXCEPT !.initDone = TRUE, !.queue = @ \cup PassTasks(pass, filters)]

\* setup_tile, for all tiles.
SetUp(f) ==
  [f EXCEPT !.tileProgress = [p \in {0, 1} |-> [i \in Tiles |-> RowStart[TileRow(i)]]]]

\* rav1d_decode_frame up to its wait, with one frame context.
SubmitSingle(s) ==
  /\ ~TwoPass /\ main = "idle" /\ Number < MaxFrames
  /\ \E kind \in Setups[setup].kinds :
       /\ pics' = Append(pics, NewPic(None, kind))
       /\ fc' = [fc EXCEPT ![s] = Created(SetUp(Submitted(@)), 0, kind.filters)]
  /\ main' = "wait"
  /\ UNCHANGED <<at, task, last, flush, flushes, setup>>

\* ... and its wait, after which it leaves the frame as the worker did.
Waited(s) ==
  /\ main = "wait"
  /\ fc[s].done[0] /\ fc[s].counter <= 0
  /\ main' = "idle"
  /\ UNCHANGED <<at, task, fc, pics, last, flush, flushes, setup>>

\* rav1d_flush: from now on the workers start nothing ...
Flush ==
  /\ main = "idle" /\ flushes < Setups[setup].flushes
  /\ main' = "flush" /\ flush' = TRUE /\ flushes' = flushes + 1
  /\ UNCHANGED <<at, task, fc, pics, last, setup>>

----------------------------------------------------------------------------
(* The end of a frame: rav1d_decode_frame_exit *)

\* A frame without an error of its own is refused when its reference failed.
NotCompliant(f, fail) ==
  /\ ~fail /\ TwoPass /\ Strict
  /\ pics[f.pic].ref # None
  /\ pics[pics[f.pic].ref].progress[1] = FRAME_ERROR

\* What it does to the frame context ...
Left(f, fail) ==
  [f EXCEPT !.error = NotCompliant(f, fail), !.finished = TRUE]

\* ... and to the picture p of the frame, and its CDF.
LeftPic(f, p, fail) ==
  LET failed == fail \/ NotCompliant(f, fail)
  IN [p EXCEPT !.status = IF failed THEN "failed" ELSE "ok",
               !.progress[1] = IF NotCompliant(f, fail) THEN FRAME_ERROR ELSE @,
               !.cdf = IF ~p.refresh THEN @ ELSE IF failed THEN "error" ELSE "ok"]

\* Mutant: its progress is not stored.
AbortedPicQuiet(p) == p

\* Whoever waits for an aborted frame need not.
AbortedPic(p) == [p EXCEPT !.progress = [q \in {0, 1} |-> FRAME_ERROR]]

\* abort_frame.
Abort(s, initDone) ==
  LET f == [fc[s] EXCEPT !.counter = 0, !.done = [p \in {0, 1} |-> TRUE],
                         !.initDone = initDone]
  IN /\ fc' = [fc EXCEPT ![s] = Left(f, TRUE)]
     /\ pics' = [pics EXCEPT ![f.pic] = LeftPic(f, AbortedPic(@), TRUE)]

Parked == \A w \in Workers : at[w] = "search"    \* tc.flushed

\* Mutant: the tasks stay in their queues.
FlushedQueued(f) == IF f.finished THEN f ELSE Left(f, TRUE)

Flushed(f) == [(IF f.finished THEN f ELSE Left(f, TRUE)) EXCEPT !.queue = {}]

\* rav1d_flush, once all workers are parked: every frame in flight is left.
FlushAll ==
  /\ main = "flush"
  /\ Parked
  /\ fc' = [s \in Slots |-> Flushed(fc[s])]
  /\ pics' = [n \in 1 .. Number |->
       IF \E s \in Slots : ~fc[s].finished /\ fc[s].pic = n
       THEN LeftPic(NoFrame, pics[n], TRUE) ELSE pics[n]]
  /\ main' = "idle" /\ flush' = FALSE /\ last' = None
  /\ UNCHANGED <<at, task, flushes, setup>>

Complete(f) == f.counter = 0 /\ f.done[0] /\ (TwoPass => f.done[1])

\* Mutant: the frame is left without its error.
ExitErrorNone(f) == FALSE

ExitError(f) == f.error

\* A task is done, under ttd.lock: the last one leaves the frame f of picture p.
CountTask(w, f, p) ==
  LET g == [f EXCEPT !.counter = @ - 1]
  IN /\ fc' = [fc EXCEPT ![Slot(w)] = IF Complete(g) THEN Left(g, ExitError(g)) ELSE g]
     /\ pics' = [pics EXCEPT ![g.pic] = IF Complete(g) THEN LeftPic(g, p, ExitError(g)) ELSE p]
     /\ Goto(w, "search")

----------------------------------------------------------------------------
(* The search of rav1d_worker_task *)

\* The progress of fc.in_cdf: the static ones have none to wait for.
InCdf(f) ==
  LET ref == pics[f.pic].ref
      out == IF ref = None THEN None ELSE pics[ref].outCdf
  IN IF out = None THEN "ok" ELSE pics[out].cdf

\* What a row of a tile needs of the picture its frame refers to: the rows
\* of the same place to be parsed, or what its vectors point at to be filtered.
RefNeed(t) == IF Pass(t) = 1 THEN t.sby + 1 ELSE Reach[t.sby]
UsesRef(f, t) == pics[f.pic].ref # None /\ RefNeed(t) # 0

\* Mutant: the progress of the other pass.
RefProgressSwapped(f, t) == pics[pics[f.pic].ref].progress[Pass(t)]

RefProgress(f, t) == pics[pics[f.pic].ref].progress[1 - Pass(t)]
RefReady(f, t) == UsesRef(f, t) => RefProgress(f, t) >= RefNeed(t)

TileFailed(f, t) == f.error \/ f.tileProgress[Pass(t)][t.tile] = TILE_ERROR
EntropyFailed(f, t) == Pass(t) = 0 /\ f.tileProgress[1][t.tile] = TILE_ERROR

Parsed(f, t) == Pass(t) = 0 => f.tileProgress[1][t.tile] > t.sby

\* check_tile returns 0 ...
TileReady(f, t) ==
  /\ f.tileProgress[Pass(t)][t.tile] >= t.sby
  /\ \/ TileFailed(f, t) \/ ~TwoPass
     \/ Parsed(f, t) /\ (EntropyFailed(f, t) \/ RefReady(f, t))

\* ... having seen an error.
TileError(f, t) ==
  \/ TileFailed(f, t)
  \/ TwoPass /\ EntropyFailed(f, t)
  \/ TwoPass /\ UsesRef(f, t) /\ RefProgress(f, t) = FRAME_ERROR

\* The tiles that next_tile_row says hold the row of a task.
RowTiles(f, t) == {f.nextTileRow[Pass(t)] * TileCols + c : c \in 0 .. TileCols - 1}

Ready(f, t) ==
  \/ t.type = "Init" /\ ~f.initDone
  \/ t.type = "InitCdf" /\ ~f.initDone /\ InCdf(f) # "none"
  \/ IsTile(t) /\ TileReady(f, t)
  \/ /\ t.recon # 0
     /\ Pass(t) = 1 => f.entropy >= t.sby
     /\ \A i \in RowTiles(f, t) : f.tileProgress[Pass(t)][i] >= t.recon
  \/ t.recon = 0 /\ t.type = "Cdef" /\ t.sby - 1 \in f.copyLpf
  \/ t.recon = 0 /\ t.type = "DeblockRows" /\ f.deblock >= t.deblock

\* The search sees an error in what it waited for.
SeesError(f, t) ==
  \/ t.type = "InitCdf" /\ InCdf(f) = "error"
  \/ IsTile(t) /\ TileError(f, t)
  \/ /\ t.recon # 0
     /\ \/ Pass(t) = 1 /\ f.entropy = TILE_ERROR
        \/ \E i \in RowTiles(f, t) : f.tileProgress[Pass(t)][i] = TILE_ERROR
  \/ t.recon = 0 /\ t.type = "DeblockRows" /\ f.deblock = TILE_ERROR

\* Mutant: one row too many.
NextRowsPastEnd(t) ==
  IF t.recon # 0 /\ t.sby < Sbh THEN {[t EXCEPT !.sby = @ + 1, !.recon = t.sby + 2]} ELSE {}

\* Mutant: the next row needs no more of its tiles than this one.
NextRowsEarly(t) ==
  IF t.recon # 0 /\ t.sby + 1 < Sbh THEN {[t EXCEPT !.sby = @ + 1]} ELSE {}

\* A row that starts puts the next row of its chain into the queue.
NextRows(t) ==
  IF t.recon # 0 /\ t.sby + 1 < Sbh
  THEN {[t EXCEPT !.sby = @ + 1, !.recon = t.sby + 2]} ELSE {}

NextTileRow(f, t) ==
  LET p == Pass(t)
      ntr == f.nextTileRow[p] + 1
  IN IF NextRows(t) # {} /\ t.sby + 1 = RowStart[ntr]
     THEN [f.nextTileRow EXCEPT ![p] = ntr] ELSE f.nextTileRow

FindTask(w) ==
  /\ at[w] = "search" /\ ~flush
  /\ \E s \in Slots : \E t \in fc[s].queue :
       /\ Ready(fc[s], t)
       /\ fc' = [fc EXCEPT
            ![s].queue = (@ \ {t}) \cup NextRows(t),
            ![s].nextTileRow = NextTileRow(fc[s], t),
            ![s].error = @ \/ SeesError(fc[s], t)]
       /\ task' = [task EXCEPT ![w] = [t EXCEPT !.slot = s]]
  /\ Goto(w, "start")
  /\ UNCHANGED <<pics, caller>>

\* Mutant: it is lost.
PendNot(t) == {}

\* A task goes back into the queue, through the pending tasks.
Pend(t) == {[t EXCEPT !.slot = None]}

\* The top of 'found_unlocked.  After an error a tile is not decoded; if its
\* decoding fails, the error is noted before the progress is.
Start(w) ==
  LET t == task[w]
      error == Frame(w).error \/ flush
  IN /\ at[w] = "start"
     /\ \/ /\ ~IsTile(t)
           /\ fc' = [fc EXCEPT ![Slot(w)].error = error]
           /\ Goto(w, t.type)
           /\ UNCHANGED pics
        \/ \E fails \in BOOLEAN :
             /\ IsTile(t) /\ (error => fails) /\ (fails => error \/ Malformed(w))
             /\ fc' = [fc EXCEPT ![Slot(w)].error = fails \/ error]
             /\ Goto(w, IF fails THEN "tileFailed" ELSE "tileDone")
             /\ pics' = [pics EXCEPT ![Frame(w).pic].damaged = @ \/ fails]
     /\ UNCHANGED <<task, caller>>

----------------------------------------------------------------------------
(* Init and InitCdf *)

\* rav1d_decode_frame_init, which may fail, and a look at the CDF to start from.
InitFrame(w) ==
  /\ at[w] = "Init"
  /\ \/ /\ Malformed(w) \/ InCdf(Frame(w)) = "error"
        /\ Abort(Slot(w), FALSE) /\ Goto(w, "search") /\ UNCHANGED task
     \/ /\ InCdf(Frame(w)) = "ok"
        /\ task' = [task EXCEPT ![w].type = "InitCdf"]
        /\ Goto(w, "start")
        /\ UNCHANGED <<fc, pics>>
     \/ /\ InCdf(Frame(w)) = "none"
        /\ fc' = [fc EXCEPT ![Slot(w)].queue = @ \cup Pend([task[w] EXCEPT !.type = "InitCdf"])]
        /\ Goto(w, "search")
        /\ UNCHANGED <<task, pics>>
  /\ UNCHANGED caller

\* rav1d_decode_frame_init_cdf, which may fail; then the tasks of the first
\* pass.  When it does not fail, update_set is set if the frame keeps its CDF.
InitFrameCdf(w) ==
  LET f == Frame(w)
  IN /\ at[w] = "InitCdf"
     /\ \/ /\ ~f.error
           /\ fc' = [fc EXCEPT ![Slot(w)] = Created(SetUp(f), 1, Picture(w).filters)]
           /\ Goto(w, "create")
           /\ UNCHANGED pics
        \/ /\ f.error \/ Malformed(w)
           /\ Abort(Slot(w), TRUE) /\ Goto(w, "search")
     /\ UNCHANGED <<task, caller>>

\* Then those of the second, while the workers are at the first.
CreateSecond(w) ==
  /\ at[w] = "create"
  /\ fc' = [fc EXCEPT ![Slot(w)] = Created(@, 0, Picture(w).filters)]
  /\ Goto(w, "search")
  /\ UNCHANGED <<task, pics, caller>>

----------------------------------------------------------------------------
(* Tiles *)

TileProgress(w) == IF at[w] = "tileFailed" THEN TILE_ERROR ELSE task[w].sby + 1
LastOfTile(t) == t.sby + 1 = RowStart[TileRow(t.tile) + 1]

\* The tile goes on with its next row, at once or through the queue.  Its own
\* progress is not stored yet when it looks: only after an error it is at once.
NextTileTask(w) ==
  LET t == task[w]
      next == [t EXCEPT !.sby = @ + 1]
      f == [Frame(w) EXCEPT !.tileProgress[Pass(t)][t.tile] = TileProgress(w)]
  IN /\ at[w] \in {"tileDone", "tileFailed"} /\ ~LastOfTile(t)
     /\ \/ /\ TileReady(Frame(w), next)
           /\ fc' = [fc EXCEPT ![Slot(w)] = [f EXCEPT !.error = @ \/ TileError(Frame(w), next)]]
           /\ task' = [task EXCEPT ![w] = next]
           /\ Goto(w, "start")
        \/ /\ ~TileReady(Frame(w), next)
           /\ fc' = [fc EXCEPT ![Slot(w)] = [f EXCEPT !.queue = @ \cup Pend(next)]]
           /\ UNCHANGED task
           /\ Goto(w, "search")
     /\ UNCHANGED <<pics, caller>>

\* The tile whose CDF is kept, here the first, publishes it when it is parsed.
Publishes(w) ==
  /\ Picture(w).refresh
  /\ ~TwoPass \/ Pass(task[w]) = 1
  /\ task[w].tile = 0

\* The last row of the tile, under ttd.lock.
EndTile(w) ==
  LET t == task[w]
      f == [Frame(w) EXCEPT !.tileProgress[Pass(t)][t.tile] = TileProgress(w)]
      p == [Picture(w) EXCEPT !.cdf =
              IF ~Publishes(w) THEN @ ELSE IF f.error THEN "error" ELSE "ok"]
  IN /\ at[w] \in {"tileDone", "tileFailed"} /\ LastOfTile(t)
     /\ CountTask(w, f, p)
     /\ UNCHANGED <<task, caller>>

----------------------------------------------------------------------------
(* Rows *)

\* A filter does nothing after an error.
Filtered(w) == [pics EXCEPT ![Frame(w).pic].damaged = @ \/ Frame(w).error]

\* Mutant: any row goes on.
EnsureNoProgress(f, sby) == TRUE

EnsureProgress(f, sby) == f.deblock >= sby

\* DeblockCols, and ensure_progress.
DeblockCols(w) ==
  LET t == task[w]
  IN /\ at[w] = "DeblockCols"
     /\ pics' = Filtered(w)
     /\ \/ EnsureProgress(Frame(w), t.sby) /\ Goto(w, "DeblockRows") /\ UNCHANGED fc
        \/ /\ ~EnsureProgress(Frame(w), t.sby)
           /\ fc' = [fc EXCEPT ![Slot(w)].queue =
                @ \cup Pend([t EXCEPT !.type = "DeblockRows", !.recon = 0, !.deblock = t.sby])]
           /\ Goto(w, "search")
     /\ UNCHANGED <<task, caller>>

\* CDEF needs the top buffer to be saved by the row before.
TopSaved(f, sby) == sby = 0 \/ sby - 1 \in f.copyLpf

Deblocked(f, sby) == IF f.error THEN TILE_ERROR ELSE sby + 1

\* DeblockRows, which tells the rows below.
DeblockRows(w) ==
  LET t == task[w]
      f == Frame(w)
      saved == [f EXCEPT !.copyLpf = @ \cup {t.sby}]
  IN /\ at[w] = "DeblockRows"
     /\ pics' = Filtered(w)
     /\ \/ /\ "deblock" \in Picture(w).filters
           /\ fc' = [fc EXCEPT ![Slot(w)].deblock = Deblocked(f, t.sby)]
           /\ Goto(w, "Cdef")
        \/ /\ "deblock" \notin Picture(w).filters /\ TopSaved(f, t.sby)
           /\ fc' = [fc EXCEPT ![Slot(w)] = saved]
           /\ Goto(w, "Cdef")
        \/ /\ "deblock" \notin Picture(w).filters /\ ~TopSaved(f, t.sby)
           /\ fc' = [fc EXCEPT ![Slot(w)] = [saved EXCEPT !.queue =
                @ \cup Pend([t EXCEPT !.type = "Cdef", !.recon = 0, !.deblock = 0])]]
           /\ Goto(w, "search")
     /\ UNCHANGED <<task, caller>>

\* Cdef, SuperResolution and LoopRestoration, if any, and the row's bit of frame.
FinishRow(w) ==
  /\ at[w] \in {"Cdef", "ReconstructionProgress"}
  /\ fc' = [fc EXCEPT ![Slot(w)].frame = @ \cup {task[w].sby}]
  /\ pics' = [pics EXCEPT ![Frame(w).pic].filtered = @ \cup {task[w].sby},
                          ![Frame(w).pic].damaged = @ \/ (at[w] = "Cdef" /\ Frame(w).error)]
  /\ Goto(w, "publish")
  /\ UNCHANGED <<task, caller>>

\* Mutant: rows are counted wherever they are.
FromTopCounted(frame) == Cardinality(frame)

\* The rows that are finished from the top on.
FromTop(frame) ==
  CHOOSE n \in 0 .. Sbh : (\A r \in 0 .. n - 1 : r \in frame) /\ n \notin frame

\* Mutant: up to the row of the task.
FinishedRowsOwn(w) == task[w].sby + 1

\* get_frame_progress.  Without frame threading a picture has no progress.
FinishedRows(w) ==
  IF TwoPass /\ Picture(w).progress[1] >= FRAME_ERROR THEN Sbh ELSE FromTop(Frame(w).frame)

\* The progress of the picture, under the frame's lock, and done[0].
PublishRows(w) ==
  LET f == Frame(w)
      n == FinishedRows(w)
  IN /\ at[w] = "publish"
     /\ pics' = [pics EXCEPT ![f.pic].progress[1] =
          IF ~TwoPass THEN @ ELSE IF f.error THEN FRAME_ERROR ELSE IF n = Sbh THEN AllRows ELSE n]
     /\ fc' = [fc EXCEPT ![Slot(w)].done[0] = @ \/ n = Sbh]
     /\ Goto(w, "count")
     /\ UNCHANGED <<task, caller>>

\* EntropyProgress: the progress of the picture and of the frame, and done[1].
EntropyProgress(w) ==
  LET f == Frame(w)
      n == task[w].sby + 1
  IN /\ at[w] = "EntropyProgress"
     /\ pics' = [pics EXCEPT ![f.pic].progress[0] =
          IF f.error THEN FRAME_ERROR ELSE IF n = Sbh THEN AllRows ELSE n]
     /\ fc' = [fc EXCEPT ![Slot(w)].entropy = IF f.error THEN TILE_ERROR ELSE n,
                         ![Slot(w)].done[1] = @ \/ n = Sbh]
     /\ Goto(w, "count")
     /\ UNCHANGED <<task, caller>>

EndRow(w) ==
  /\ at[w] = "count"
  /\ CountTask(w, Frame(w), Picture(w))
  /\ UNCHANGED <<task, caller>>

----------------------------------------------------------------------------
Run(w) ==
  \/ Start(w) \/ InitFrame(w) \/ InitFrameCdf(w) \/ CreateSecond(w)
  \/ NextTileTask(w) \/ EndTile(w)
  \/ DeblockCols(w) \/ DeblockRows(w) \/ FinishRow(w) \/ PublishRows(w)
  \/ EntropyProgress(w) \/ EndRow(w)

Next ==
  \/ \E s \in Slots : Submit(s) \/ SubmitSingle(s) \/ Waited(s)
  \/ Flush \/ FlushAll
  \/ \E w \in Workers : FindTask(w) \/ Run(w)

Spec == Init /\ [][Next]_vars

\* Scheduling: a worker that is not parked keeps going, and the caller that
\* waits under ttd.lock is woken when what it waits for holds.
FairSpec ==
  /\ Spec
  /\ \A w \in Workers : WF_vars(FindTask(w) \/ Run(w))
  /\ WF_vars(FlushAll \/ \E s \in Slots : Waited(s))

----------------------------------------------------------------------------
(* Properties *)

TaskTypes == {"Init", "InitCdf", "TileEntropy", "TileReconstruction", "EntropyProgress",
              "DeblockCols", "DeblockRows", "Cdef", "ReconstructionProgress"}
Tasks == [type : TaskTypes, sby : Rows, tile : Tiles, recon : 0 .. Sbh,
          deblock : Rows, slot : Slots \cup {None}]
PicIds == 1 .. MaxFrames
Progress == [{0, 1} -> 0 .. TILE_ERROR]

Frames ==
  [queue : SUBSET Tasks, tileProgress : [{0, 1} -> [Tiles -> 0 .. TILE_ERROR]],
   entropy : 0 .. TILE_ERROR, deblock : 0 .. TILE_ERROR, copyLpf : SUBSET Rows,
   frame : SUBSET Rows, done : [{0, 1} -> BOOLEAN], counter : Nat, error : BOOLEAN,
   initDone : BOOLEAN, nextTileRow : [{0, 1} -> 0 .. TileRows - 1],
   finished : BOOLEAN, pic : PicIds \cup {None}]

Pictures ==
  [ref : PicIds \cup {None}, filters : SUBSET {"deblock", "cdef"}, refresh : BOOLEAN,
   outCdf : PicIds \cup {None}, progress : Progress, cdf : {"none", "ok", "error"},
   status : {"decoding", "ok", "failed"}, damaged : BOOLEAN, filtered : SUBSET Rows]

Places == {"search", "start", "Init", "InitCdf", "create", "tileDone", "tileFailed",
           "DeblockCols", "DeblockRows", "Cdef", "ReconstructionProgress", "publish",
           "EntropyProgress", "count"}

TypeOK ==
  /\ setup \in DOMAIN Setups
  /\ at \in [Workers -> Places]
  /\ task \in [Workers -> Tasks]
  /\ fc \in [Slots -> Frames]
  /\ pics \in Seq(Pictures) /\ Number <= MaxFrames
  /\ last \in PicIds \cup {None} /\ main \in {"idle", "wait", "flush"}
  /\ flush \in BOOLEAN /\ flushes \in 0 .. Setups[setup].flushes

Busy(w, s) == at[w] # "search" /\ Slot(w) = s

\* The units of work of a frame, each of which counts once: <<pass, kind, number>>.
PassUnits(p) == ({p} \X {"tile"} \X Tiles) \cup ({p} \X {"row"} \X Rows)
AllUnits == UNION {PassUnits(p) : p \in IF TwoPass THEN {0, 1} ELSE {0}}

InitTypes == {"Init", "InitCdf"}
RowUnits(p, rows) == {<<p, "row", r>> : r \in rows}

\* What a queued task stands for.  A task that starts a frame will create all
\* others; a row of a chain puts the rows behind it into the queue.
Units(t) ==
  IF t.type \in InitTypes THEN AllUnits
  ELSE IF IsTile(t) THEN {<<Pass(t), "tile", t.tile>>}
  ELSE RowUnits(Pass(t), IF t.recon # 0 THEN t.sby .. Sbh - 1 ELSE {t.sby})

\* ... and what worker w has to do for the frame in s.
Mine(w, s) ==
  IF ~Busy(w, s) THEN {}
  ELSE IF at[w] = "create" THEN PassUnits(0)
  ELSE IF task[w].type \in InitTypes \/ IsTile(task[w]) THEN Units(task[w])
  ELSE RowUnits(Pass(task[w]), {task[w].sby})

ToDo(s) == {u \in AllUnits : \/ \E t \in fc[s].queue : u \in Units(t)
                             \/ \E w \in Workers : u \in Mine(w, s)}

\* The counter that finds the last task of a frame counts what is left to do:
\* tiles and rows that are queued, that run, that a queued row will still put
\* into the queue, or that a pass will create; and nothing is left to do twice.
\* (The assertion that task_counter is not negative, and the test for 0, both
\* rest on this.)
CounterExact ==
  \A s \in Slots : ~fc[s].finished =>
    /\ fc[s].counter = Cardinality(ToDo(s))
    /\ \A t, u \in fc[s].queue : t = u \/ Units(t) \cap Units(u) = {}
    /\ \A w \in Workers :
         /\ \A t \in fc[s].queue : Mine(w, s) \cap Units(t) = {}
         /\ \A v \in Workers : v = w \/ Mine(w, s) \cap Mine(v, s) = {}

\* When a frame is left, none of its tasks is queued and no worker is in it:
\* its frame context is reused at once, and its data is locked for writing by
\* a worker that holds ttd.lock (thread_task.rs:1167).
LeftClean ==
  \A s \in Slots : fc[s].finished =>
    fc[s].queue = {} /\ \A w \in Workers : ~Busy(w, s)

\* rav1d_decode_frame_init and InitCdf lock the frame's data with
\* try_write().unwrap(): no other worker has any business in the frame, and
\* the search reads none of its tasks.
InitAlone ==
  \A w \in Workers : at[w] \in {"Init", "InitCdf"} =>
    /\ Frame(w).queue = {}
    /\ \A v \in Workers \ {w} : ~Busy(v, Slot(w))

\* assert!(done == 0 || error != 0) in the search: rows of a pass that is done
\* are found in the queue only after an error.
DoneAssert ==
  \A s \in Slots : \A t \in fc[s].queue :
    t.recon # 0 => ~fc[s].done[Pass(t)] \/ fc[s].error

\* A row enters the filters when all tiles that hold it have decoded it,
\* whatever next_tile_row says, or after an error.
RowsDecoded ==
  \A w \in Workers : at[w] \in {"DeblockCols", "EntropyProgress"} =>
    \A i \in Tiles :
      RowStart[TileRow(i)] <= task[w].sby /\ task[w].sby < RowStart[TileRow(i) + 1] =>
        Frame(w).tileProgress[Pass(task[w])][i] > task[w].sby

\* The deblocking of rows is one row after the other, from the top, and CDEF
\* comes after that of its row and the saving of the row above: workers that
\* overtake each other in the chain of rows wait in the queue.
FiltersInOrder ==
  \A w \in Workers : Frame(w).error \/
    LET deblocks == "deblock" \in Picture(w).filters
        sby == task[w].sby
    IN /\ at[w] = "DeblockRows" /\ deblocks => Frame(w).deblock = sby
       /\ at[w] = "Cdef" =>
            IF deblocks THEN Frame(w).deblock > sby
            ELSE {sby - 1, sby} \cap Rows \subseteq Frame(w).copyLpf

\* A tile decodes a row when its reference has what the row needs, filtered
\* by workers of another frame, or after an error; in the second pass the row
\* is parsed too.
RefRowsThere ==
  \A w \in Workers : at[w] = "start" /\ IsTile(task[w]) /\ TwoPass /\ ~Frame(w).error =>
    LET t == task[w]
        ref == Picture(w).ref
    IN /\ Pass(t) = 0 => Frame(w).tileProgress[1][t.tile] > t.sby
       /\ Pass(t) = 0 /\ ref # None => 0 .. Reach[t.sby] - 1 \subseteq pics[ref].filtered

\* What a picture publishes is there: k rows of progress are k filtered rows.
ProgressHonest ==
  \A n \in 1 .. Number :
    LET k == pics[n].progress[1]
    IN k # FRAME_ERROR =>
         0 .. (IF k = AllRows THEN Sbh ELSE k) - 1 \subseteq pics[n].filtered

\* Published progress is not taken back: workers that finish rows at the same
\* time never publish the smaller number last.  What is published may still
\* turn to FRAME_ERROR: during a flush, and when a frame that uses nothing of
\* a failed reference is refused as it ends.  A frame that has ended has ended
\* for good: its picture is shown and is a reference then, and no worker that
\* is late for it, and no flush, changes it.
Refused(n) == pics[n].status = "decoding" /\ pics'[n].status = "failed"
ProgressGrows ==
  [][\A n \in 1 .. Number :
       /\ \A p \in {0, 1} :
            \/ pics'[n].progress[p] >= pics[n].progress[p]
            \/ (flush \/ Refused(n)) /\ pics'[n].progress[p] = FRAME_ERROR
       /\ pics[n].status # "decoding" => pics'[n] = pics[n]]_vars

\* A frame that ends without an error is decoded and filtered completely, and
\* whoever waits for its rows or its CDF has them; one that ends with an error
\* lets nobody wait for its CDF.
EndsComplete ==
  \A n \in 1 .. Number :
    LET p == pics[n]
    IN /\ p.status = "ok" =>
            /\ ~p.damaged /\ p.filtered = Rows
            /\ TwoPass => p.progress = [q \in {0, 1} |-> AllRows]
       /\ p.status # "decoding" /\ p.refresh =>
            p.cdf = IF p.status = "ok" THEN "ok" ELSE "error"

\* Every frame that is submitted ends, however its workers, its reference and
\* its errors fall together: no task waits for ever.  (As the number of frames
\* is bounded, there comes a time when none is left.)
FramesEnd == (\E s \in Slots : ~fc[s].finished) ~> (\A s \in Slots : fc[s].finished)

\* rav1d_flush and rav1d_decode_frame return.
CallerReturns == main # "idle" ~> main = "idle"
=============================================================================
