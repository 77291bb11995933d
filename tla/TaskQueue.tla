----------------------------- MODULE TaskQueue ------------------------------
(***************************************************************************)
(* How the workers of the decoder find their tasks (rusty_av1d,            *)
(* thread_task.rs): a list of tasks per frame context, a cursor over all   *)
(* lists that says where the search goes on, and a condition variable on   *)
(* which a worker sleeps that found nothing.  FrameTasks says what the     *)
(* tasks do and lets a worker take any that is ready; here the worker has  *)
(* to find it.                                                             *)
(*                                                                         *)
(* The cursor is a frame, counted from the oldest one (first), and in that *)
(* frame the last task that was passed over (cur_prev).  Whoever makes a   *)
(* task ready moves it back: under ttd.lock at once, and without the lock  *)
(* through reset_task_cur, an atomic that the next search looks at.        *)
(*                                                                         *)
(* Tasks are reduced to those that move the cursor in different ways.  A   *)
(* frame is initialised, waits for the CDF of the frame before, and then   *)
(* is one column of rows.  A row is decoded when the row above it and that *)
(* row of the frame before are there (one pass stands for two), and        *)
(* deblocked first in columns, then in rows, the rows after those of the   *)
(* row above.  Nothing fails in a worker, and no frame has CDEF.           *)
(***************************************************************************)
EXTENDS Integers, FiniteSetsExt

CONSTANTS
  Workers,     \* c.tc
  NFc,         \* frame contexts: at least two
  Sbh,         \* rows of a frame
  Clients,     \* what the caller does, one of these in a run: the kinds of frame it
               \* submits, "intra", "inter", "existing", which is one to be shown
               \* again, and those that rav1d_submit_frame gives to on_error,
               \* "rejected"; as bounds, how often it flushes and drains; and whether
               \* it drains until EAGAIN or for one picture
  MaxFrames    \* bound: frames submitted

ASSUME WorkersAssumption == Workers # {}
ASSUME SizeAssumption == NFc \in Nat /\ NFc >= 2 /\ Sbh \in Nat \ {0}
ASSUME ClientsAssumption ==
  Clients \subseteq [kinds : SUBSET {"intra", "inter", "existing", "rejected"},
                    flushes : Nat, drains : Nat, whole : BOOLEAN]
ASSUME FramesAssumption == MaxFrames \in Nat

VARIABLES
  tq,      \* the lists, the cursor and cond_signaled
  lock,    \* the set of workers that hold ttd.lock: none or one
  at,      \* where each worker is
  job,     \* its slot and task, and the index that it swaps into reset_task_cur
  slot,    \* the frame contexts and out_delayed
  main,    \* the caller: what it is in, the slot it uses next, the newest frame
  flush,   \* c.flush
  calls,   \* frames so far; what the client has left to do, and how it drains
  ordered  \* ghost: the frames in progress have always been OldestFirst

vars == <<tq, lock, at, job, slot, main, flush, calls, ordered>>

Slots == 0 .. NFc - 1
Rows == 0 .. Sbh - 1
MAX == 2 * NFc                  \* u32::MAX: larger than any index

\* Tasks, and their order: by row, then by type.  insert_tasks keeps a list in this
\* order, and no task is in it twice; it is a set here.
InitTask == [row |-> 0, type |-> 0]
InitCdf == [row |-> 0, type |-> 1]
Tile(r) == [row |-> r, type |-> 2]
DeblockCols(r) == [row |-> r, type |-> 3]
DeblockRows(r) == [row |-> r, type |-> 4]
NoTask == [row |-> 0, type |-> 5]
Gone == [row |-> Sbh, type |-> 5]      \* a task that is in its list no more
Tasks == {InitTask, InitCdf} \cup UNION {{Tile(r), DeblockCols(r), DeblockRows(r)} : r \in Rows}
Before(t, u) == t.row < u.row \/ (t.row = u.row /\ t.type < u.type)

NoFrame == [frame |-> 0, ref |-> 0, initDone |-> TRUE, tiles |-> 0, deblock |-> 0, done |-> {},
            cdf |-> FALSE, counter |-> 0, finished |-> TRUE, held |-> FALSE, error |-> FALSE]

EmptyQueue == [first |-> 0, cur |-> NFc, reset |-> MAX, signaled |-> FALSE,
               prev |-> [s \in Slots |-> NoTask], list |-> [s \in Slots |-> {}],
               pend |-> [s \in Slots |-> {}]]

Init ==
  /\ tq = EmptyQueue
  /\ lock = {}
  /\ at = [w \in Workers |-> "outer"]
  /\ job = [w \in Workers |-> [slot |-> 0, task |-> NoTask, idx |-> MAX, first |-> 0]]
  /\ slot = [s \in Slots |-> NoFrame]
  /\ main = [in |-> "idle", next |-> 0, left |-> 0, drained |-> FALSE, newest |-> 0]
  /\ flush = FALSE
  /\ \E c \in Clients : calls = [frames |-> 0, kinds |-> c.kinds, flushes |-> c.flushes,
                                 drains |-> c.drains, whole |-> c.whole]
  /\ ordered = TRUE

-----------------------------------------------------------------------------
(* The queue.  Its operators take a queue and return one. *)

\* The frame at the cursor, and an index that counts on past the last frame.
AtCursor(q) == (q.first + q.cur) % NFc
Ahead(q, s) == IF s < q.first THEN s + NFc ELSE s

\* reset_task_cur: where the cursor is to go, or MAX: nowhere.  s is a frame,
\* or MAX to look only at what was left in the atomic.
Reset(q) == IF q.reset < q.first THEN MAX ELSE q.reset
Target(q, s) ==
  IF q.cur = 0 /\ q.prev[q.first] = NoTask THEN MAX
  ELSE IF s = MAX THEN Reset(q) ELSE Min({Reset(q), Ahead(q, s)})

Moves(q, s) == Target(q, s) <= q.first + q.cur

\* The first frame from c on that has a task.
NextWithTask(q, c) ==
  Min({NFc} \cup {k \in c .. NFc - 1 : q.list[(q.first + k) % NFc] # {}})

ResetTaskCur(q, s) ==
  IF Moves(q, s)
  THEN [q EXCEPT !.reset = MAX, !.prev = [i \in Slots |-> NoTask],
                 !.cur = IF s = MAX THEN Target(q, s) - q.first
                         ELSE NextWithTask(q, Target(q, s) - q.first)]
  ELSE [q EXCEPT !.reset = MAX]

\* insert_tasks, one after the other: tasks at their places, the cursor no later than
\* they; a flush in progress drops them.
Insert(q, s, ts) ==
  IF flush THEN q ELSE ResetTaskCur([q EXCEPT !.list[s] = @ \cup ts], s)

MergeFrame(q, s) ==
  IF q.pend[s] = {} THEN q ELSE Insert([q EXCEPT !.pend[s] = {}], s, q.pend[s])

\* merge_pending: frame after frame, which moves the cursor to the first of them.
Oldest(q, S) == CHOOSE s \in S : \A r \in S : Ahead(q, s) <= Ahead(q, r)
Merged(q) == [q EXCEPT !.pend = [s \in Slots |-> {}],
                       !.list = IF flush THEN @ ELSE [s \in Slots |-> @[s] \cup q.pend[s]]]
MergePending(q) ==
  LET S == {s \in Slots : q.pend[s] # {}}
  IN  IF S = {} THEN q ELSE IF flush THEN Merged(q) ELSE ResetTaskCur(Merged(q), Oldest(q, S))
AnyPending(q) == \E s \in Slots : q.pend[s] # {}

AddPending(q, s, ts) == [q EXCEPT !.pend[s] = @ \cup ts]

\* Mutant: the cursor keeps its distance from first.
AdvanceFirstAlone(q) ==
  [q EXCEPT !.first = (@ + 1) % NFc, !.reset = IF @ = q.first THEN MAX ELSE @]

\* c.task_thread.first moves on when the slot of the oldest frame is given up.
AdvanceFirst(q) ==
  [q EXCEPT !.first = (@ + 1) % NFc,
            !.reset = IF @ = q.first THEN MAX ELSE @,
            !.cur = IF @ # 0 /\ @ < NFc THEN @ - 1 ELSE @]

-----------------------------------------------------------------------------
(* Readiness. *)

\* The frame that s refers to is still in a slot.
RefIn(s, r) == slot[s].ref # 0 /\ slot[r].frame = slot[s].ref
RowsOut(s) == Min({Sbh} \cup (Rows \ slot[s].done))     \* get_frame_progress
RefRow(s, r) == \A p \in Slots : RefIn(s, p) => RowsOut(p) > r
CdfReady(s) == \A p \in Slots : RefIn(s, p) => slot[p].cdf

Ready(s, t) ==
  \/ \E r \in Rows : t = Tile(r) /\ slot[s].tiles >= r /\ RefRow(s, r)      \* check_tile
  \/ \E r \in Rows : t = DeblockCols(r) /\ slot[s].tiles > r
  \/ \E r \in Rows : t = DeblockRows(r) /\ slot[s].deblock >= r

-----------------------------------------------------------------------------
(* A worker: the search, under ttd.lock. *)

Sleeping == {w \in Workers : at[w] = "wait"}

\* The worker goes on at p, and notify_one wakes one that sleeps if there is any.
GoAndNotify(w, p) ==
  IF Sleeping = {} THEN at' = [at EXCEPT ![w] = p]
  ELSE \E v \in Sleeping : at' = [at EXCEPT ![w] = p, ![v] = "woken"]

Go(w, p) == at' = [at EXCEPT ![w] = p]
Locks(w) == lock = {} \/ lock = {w}

Park(w) == [tq EXCEPT !.signaled = FALSE]

\* The frames whose Init, or InitCdf with its CDF, is at the head.
InitReady(q, s) ==
  /\ ~ slot[s].initDone
  /\ InitTask \in q.list[s] \/ (InitCdf \in q.list[s] /\ CdfReady(s))

FirstInit(q) ==
  Min({NFc} \cup {k \in Slots : InitReady(q, (q.first + k) % NFc)})

Head(q, s) == IF InitTask \in q.list[s] THEN InitTask ELSE InitCdf

\* remove, and the next waiting worker is signaled.
Found(w, q, s, t) ==
  /\ tq' = [q EXCEPT !.list[s] = @ \ {t},
                     !.prev[s] = IF @ = t THEN Gone ELSE @,
                     !.cur = IF t.type > InitCdf.type /\ q.list[s] = {t} THEN @ + 1 ELSE @,
                     !.signaled = TRUE]
  /\ job' = [job EXCEPT ![w].slot = s, ![w].task = t]
  /\ GoAndNotify(w, "run")
  /\ lock' = {}

SearchInit(w, q) ==
  IF FirstInit(q) < NFc
  THEN \E s \in {(q.first + FirstInit(q)) % NFc} : Found(w, q, s, Head(q, s))
  ELSE tq' = q /\ lock' = {w} /\ Go(w, "scan") /\ job' = job

Outer(w) ==
  /\ at[w] = "outer" /\ Locks(w)
  /\ \/ flush /\ tq' = Park(w) /\ lock' = {} /\ Go(w, "wait") /\ job' = job
     \/ ~ flush /\ SearchInit(w, MergePending(tq))
  /\ UNCHANGED <<slot, main, flush, calls>>

\* What the search of a frame sees: the tasks after cur_prev.  If that one was taken
\* out meanwhile it leads nowhere, or, when its index has been used again, anywhere.
After(q, s) ==
  IF q.prev[s] = NoTask THEN {q.list[s]}
  ELSE {{u \in q.list[s] : Before(p, u)} : p \in IF q.prev[s] = Gone THEN Tasks ELSE {q.prev[s]}}

\* A column of deblocking puts the next one into the list as it is taken.
Take(w, q, s, t) ==
  IF t.type = DeblockCols(0).type /\ t.row + 1 < Sbh
  THEN Found(w, Insert(q, s, {DeblockCols(t.row + 1)}), s, t)
  ELSE Found(w, q, s, t)

\* cur_prev after the search has gone over ts.
Over(q, s, ts) ==
  [q EXCEPT !.prev[s] =
     IF ts = {} THEN @ ELSE CHOOSE t \in ts : \A u \in ts : u = t \/ Before(u, t)]

Pass(w, q, s, ts) ==
  /\ tq' = [Over(q, s, ts) EXCEPT !.cur = @ + 1]
  /\ lock' = {w} /\ job' = job /\ UNCHANGED at

SearchFrame(w, q, s) ==
  \E ts \in After(q, s) :
    \/ (\A t \in ts : ~ Ready(s, t)) /\ Pass(w, q, s, ts)
    \/ \E t \in ts :
         /\ Ready(s, t) /\ \A u \in ts : Before(u, t) => ~ Ready(s, u)
         /\ Take(w, Over(q, s, {u \in ts : Before(u, t)}), s, t)

Scan(w) ==
  /\ at[w] = "scan" /\ tq.cur < NFc
  /\ SearchFrame(w, MergeFrame(tq, AtCursor(tq)), AtCursor(tq))
  /\ UNCHANGED <<slot, main, flush, calls>>

\* The cursor is past the last frame: was it moved back meanwhile?
ScanEnd(w) ==
  /\ at[w] = "scan" /\ tq.cur >= NFc
  /\ tq' = ResetTaskCur(tq, MAX)
  /\ Go(w, IF Moves(tq, MAX) THEN "outer" ELSE "park")
  /\ UNCHANGED <<lock, job, slot, main, flush, calls>>

\* merge_pending, then park; what is added in between is merged by its worker.
Parking(w) ==
  /\ at[w] = "park"
  /\ IF AnyPending(tq)
     THEN tq' = MergePending(tq) /\ Go(w, "outer") /\ UNCHANGED lock
     ELSE tq' = Park(w) /\ Go(w, "wait") /\ lock' = {}
  /\ UNCHANGED <<job, slot, main, flush, calls>>

Woken(w) ==
  /\ at[w] = "woken" /\ lock = {}
  /\ tq' = ResetTaskCur(tq, MAX)
  /\ lock' = {w} /\ Go(w, "outer")
  /\ UNCHANGED <<job, slot, main, flush, calls>>

-----------------------------------------------------------------------------
(* A worker: the tasks, without the lock until they end. *)

Of(w) == job[w].slot
Task(w) == job[w].task
Runs(w, type) == at[w] = "run" /\ Task(w).type = type

\* Init goes on as InitCdf at once when the CDF is there.
RunInit(w) ==
  /\ Runs(w, InitTask.type)
  /\ IF CdfReady(Of(w))
     THEN job' = [job EXCEPT ![w].task = InitCdf] /\ UNCHANGED <<tq, at>>
     ELSE tq' = AddPending(tq, Of(w), {InitCdf}) /\ Go(w, "outer") /\ job' = job
  /\ UNCHANGED <<lock, slot, main, flush, calls>>

RunInitCdf(w) ==
  /\ Runs(w, InitCdf.type)
  /\ tq' = AddPending(tq, Of(w), {Tile(0), DeblockCols(0)})
  /\ slot' = [slot EXCEPT ![Of(w)].initDone = TRUE]
  /\ Go(w, "outer")
  /\ UNCHANGED <<lock, job, main, flush, calls>>

\* The next row is not ready before the progress of this one is stored.
RunTile(w) ==
  /\ Runs(w, Tile(0).type) /\ Task(w).row + 1 < Sbh
  /\ slot' = [slot EXCEPT ![Of(w)].tiles = Task(w).row + 1]
  /\ tq' = AddPending(tq, Of(w), {Tile(Task(w).row + 1)})
  /\ Go(w, "outer")
  /\ UNCHANGED <<lock, job, main, flush, calls>>

Signal(w, p, q) ==
  /\ tq' = [q EXCEPT !.signaled = TRUE]
  /\ IF q.signaled THEN Go(w, p) ELSE GoAndNotify(w, p)

RunLastTile(w) ==
  /\ Runs(w, Tile(0).type) /\ Task(w).row + 1 = Sbh /\ lock = {}
  /\ lock' = {w}
  /\ slot' = [slot EXCEPT ![Of(w)].tiles = Sbh, ![Of(w)].cdf = TRUE, ![Of(w)].counter = @ - 1]
  /\ Signal(w, "outer", ResetTaskCur(tq, Of(w)))
  /\ UNCHANGED <<job, main, flush, calls>>

\* ensure_progress: the rows wait for those of the row above.
RunCols(w) ==
  /\ Runs(w, DeblockCols(0).type)
  /\ IF slot[Of(w)].deblock < Task(w).row
     THEN /\ tq' = AddPending(tq, Of(w), {DeblockRows(Task(w).row)})
          /\ Go(w, "outer") /\ job' = job
     ELSE job' = [job EXCEPT ![w].task = DeblockRows(Task(w).row)] /\ UNCHANGED <<tq, at>>
  /\ UNCHANGED <<lock, slot, main, flush, calls>>

RunRows(w) ==
  /\ Runs(w, DeblockRows(0).type)
  /\ slot' = [slot EXCEPT ![Of(w)].deblock = Task(w).row + 1]
  /\ Go(w, "async")
  /\ UNCHANGED <<tq, lock, job, main, flush, calls>>

\* reset_task_cur_async: first is read, then the index swapped in until nothing
\* smaller comes out, and taken back if first has moved past it.
AsyncFirst(w) ==
  /\ at[w] = "async"
  /\ job' = [job EXCEPT ![w].idx = Ahead(tq, Of(w)), ![w].first = tq.first]
  /\ Go(w, "swap")
  /\ UNCHANGED <<tq, lock, slot, main, flush, calls>>

AsyncSwap(w) ==
  /\ at[w] = "swap"
  /\ tq' = [tq EXCEPT !.reset = job[w].idx]
  /\ IF tq.reset < job[w].idx
     THEN job' = [job EXCEPT ![w].idx = tq.reset] /\ UNCHANGED at
     ELSE job' = job /\ Go(w, "signal")
  /\ UNCHANGED <<lock, slot, main, flush, calls>>

TakenBack(w, q) ==
  IF job[w].idx = job[w].first /\ q.first # job[w].first /\ q.reset = job[w].idx
  THEN [q EXCEPT !.reset = MAX] ELSE q

AsyncSignal(w) ==
  /\ at[w] = "signal"
  /\ Signal(w, "publish", TakenBack(w, tq))
  /\ job' = [job EXCEPT ![w].idx = MAX, ![w].first = 0]
  /\ UNCHANGED <<lock, slot, main, flush, calls>>

\* The row is done, and the rows from the top on are published.
Publish(w) ==
  /\ at[w] = "publish"
  /\ slot' = [slot EXCEPT ![Of(w)].done = @ \cup {Task(w).row}]
  /\ Go(w, "leave")
  /\ UNCHANGED <<tq, lock, job, main, flush, calls>>

\* The worker that counts the last task leaves the frame.
Count(f, all) == [f EXCEPT !.counter = @ - 1, !.finished = f.counter = 1 /\ all]

\* Mutant: the cursor is moved back only when the frame ends.
LeaveQuietly(w) ==
  /\ at[w] = "leave" /\ lock = {}
  /\ lock' = {w}
  /\ slot' = [slot EXCEPT ![Of(w)] = Count(@, RowsOut(Of(w)) = Sbh)]
  /\ tq' = IF slot'[Of(w)].finished THEN ResetTaskCur(tq, Of(w)) ELSE tq
  /\ Go(w, "outer")
  /\ UNCHANGED <<job, main, flush, calls>>

Leave(w) ==
  /\ at[w] = "leave" /\ lock = {}
  /\ lock' = {w}
  /\ slot' = [slot EXCEPT ![Of(w)] = Count(@, RowsOut(Of(w)) = Sbh)]
  /\ tq' = ResetTaskCur(tq, Of(w))
  /\ Go(w, "outer")
  /\ UNCHANGED <<job, main, flush, calls>>

Worker(w) ==
  \/ Outer(w) \/ Scan(w) \/ ScanEnd(w) \/ Parking(w) \/ Woken(w)
  \/ RunInit(w) \/ RunInitCdf(w) \/ RunTile(w) \/ RunLastTile(w) \/ RunCols(w) \/ RunRows(w)
  \/ AsyncFirst(w) \/ AsyncSwap(w) \/ AsyncSignal(w) \/ Publish(w) \/ Leave(w)

-----------------------------------------------------------------------------
(* The caller. *)

Next1(s) == (s + 1) % NFc

\* The slot holds something that the caller has not taken out yet.
Used(s) == slot[s].held \/ slot[s].error
GiveUp(s) == IF Used(s) THEN AdvanceFirst(tq) ELSE tq

\* rav1d_submit_frame, up to on_error, or to the Init task.
Reject(s) ==
  /\ slot' = [slot EXCEPT ![s] = [NoFrame EXCEPT !.error = TRUE]]
  /\ tq' = GiveUp(s)
  /\ main' = [main EXCEPT !.next = Next1(s)]
  /\ UNCHANGED at

\* parse_obus on show_existing_frame: a picture, and nothing to decode.
ShowExisting(s) ==
  /\ slot' = [slot EXCEPT ![s] = [NoFrame EXCEPT !.held = TRUE, !.error = slot[s].error]]
  /\ tq' = GiveUp(s)
  /\ main' = [main EXCEPT !.next = Next1(s)]
  /\ UNCHANGED at

NotifyOne ==
  IF Sleeping = {} THEN UNCHANGED at ELSE \E v \in Sleeping : at' = [at EXCEPT ![v] = "woken"]

Accept(s, frame, ref, q) ==
  /\ slot' = [slot EXCEPT ![s] =
       [NoFrame EXCEPT !.frame = frame, !.ref = ref, !.initDone = FALSE, !.counter = 1 + Sbh,
                       !.finished = FALSE, !.held = TRUE]]
  /\ tq' = [q EXCEPT !.signaled = TRUE]
  /\ IF q.signaled THEN UNCHANGED at ELSE NotifyOne
  /\ main' = [main EXCEPT !.next = Next1(s), !.newest = frame]

\* What a frame refers to: nothing, or the newest frame if there is one.
References ==
  {f \in {0, main.newest} : (IF f = 0 THEN "intra" ELSE "inter") \in calls.kinds}

Submit ==
  /\ main.in = "idle" /\ calls.frames < MaxFrames /\ lock = {}
  /\ slot[main.next].finished
  /\ \/ "rejected" \in calls.kinds /\ Reject(main.next)
     \/ "existing" \in calls.kinds /\ main.newest # 0 /\ ShowExisting(main.next)
     \/ \E ref \in References :
          Accept(main.next, calls.frames + 1, ref, Insert(GiveUp(main.next), main.next, {InitTask}))
  /\ calls' = [calls EXCEPT !.frames = @ + 1]
  /\ UNCHANGED <<lock, job, flush>>

\* drain_picture: slot by slot from the oldest on, until a picture is taken out
\* that is shown, or the slots are through.
Drain(m) == [m EXCEPT !.in = "drain", !.left = NFc, !.drained = FALSE]
Idle(m) == [m EXCEPT !.in = "idle", !.left = 0, !.drained = FALSE]

BeginDrain ==
  /\ main.in = "idle" /\ calls.drains > 0
  /\ main' = Drain(main)
  /\ calls' = [calls EXCEPT !.drains = @ - 1]
  /\ UNCHANGED <<tq, lock, at, job, slot, flush>>

Moved(m, s) == [m EXCEPT !.next = Next1(s), !.left = @ - 1, !.drained = @ \/ Used(s)]

\* Where the call goes on after slot s: it returns TryAgain, or the picture.
Again(m) == main' = IF m.left = 0 THEN Idle(m) ELSE m
Shown(s, m) == slot[s].held /\ main' = IF calls.whole THEN Drain(m) ELSE Idle(m)

DrainSlot ==
  /\ main.in = "drain" /\ lock = {}
  /\ slot[main.next].finished
  /\ tq' = GiveUp(main.next)
  /\ slot' = [slot EXCEPT ![main.next].held = FALSE]
  /\ IF ~ Used(main.next) /\ main.drained THEN main' = Idle(main)
     ELSE Shown(main.next, Moved(main, main.next)) \/ Again(Moved(main, main.next))
  /\ UNCHANGED <<lock, at, job, flush, calls>>

BeginFlush ==
  /\ main.in = "idle" /\ calls.flushes > 0
  /\ main' = [main EXCEPT !.in = "flush"]
  /\ flush' = TRUE
  /\ calls' = [calls EXCEPT !.flushes = @ - 1]
  /\ UNCHANGED <<tq, lock, at, job, slot>>

\* All workers are parked; the mark of on_error stays, there is no picture in that
\* slot for which rav1d_decode_frame_exit would clear it.
EndFlush ==
  /\ main.in = "flush" /\ lock = {}
  /\ \A w \in Workers : at[w] \in {"wait", "woken"}
  /\ tq' = EmptyQueue
  /\ slot' = [s \in Slots |-> [NoFrame EXCEPT !.error = slot[s].error]]
  /\ main' = [Idle(main) EXCEPT !.next = 0, !.newest = 0]
  /\ flush' = FALSE
  /\ UNCHANGED <<lock, at, job, calls>>

\* The frames in progress lie, from first on, in the order they were submitted:
\* a frame can only wait for one that the search comes to before it.
InProgress == {s \in Slots : ~ slot[s].finished}
OldestFirst ==
  \A s, r \in InProgress : slot[s].frame < slot[r].frame => Ahead(tq, s) < Ahead(tq, r)

\* A client can bring them out of this order, or have first pass the oldest while that
\* is in progress; no worker can.
KeepOrder ==
  ordered' = (ordered /\ OldestFirst' /\ (Used(main.next) => slot[tq.first].finished))

Caller ==
  \/ (Submit \/ DrainSlot) /\ KeepOrder
  \/ (BeginDrain \/ BeginFlush \/ EndFlush) /\ UNCHANGED ordered

Next == Caller \/ \E w \in Workers : Worker(w) /\ UNCHANGED ordered

Spec == Init /\ [][Next]_vars

-----------------------------------------------------------------------------
(* Properties. *)

Places == {"outer", "scan", "park", "wait", "woken", "run", "async", "swap", "signal",
           "publish", "leave"}
Pos == 0 .. MAX

\* Types: every variable keeps its shape; one worker at most holds the lock, and
\* searches only with it.
TypeOK ==
  /\ tq.first \in Slots /\ tq.cur \in 0 .. NFc /\ tq.reset \in Pos /\ tq.signaled \in BOOLEAN
  /\ \A s \in Slots :
       /\ tq.prev[s] \in Tasks \cup {NoTask, Gone}
       /\ tq.pend[s] \subseteq Tasks /\ tq.list[s] \subseteq Tasks
       /\ slot[s].counter \in 0 .. Sbh + 1 /\ slot[s].tiles \in 0 .. Sbh
  /\ lock \subseteq Workers /\ \A v, w \in lock : v = w
  /\ \A w \in Workers : at[w] \in Places /\ (at[w] \in {"scan", "park"} => w \in lock)
  /\ main.next \in Slots /\ flush \in BOOLEAN

Passed(s, t) ==
  \/ Ahead(tq, s) < tq.first + tq.cur
  \/ Ahead(tq, s) = tq.first + tq.cur /\ tq.prev[s] # NoTask /\ ~ Before(tq.prev[s], t)

\* Whoever made a task ready is through, and no mark is left in reset_task_cur.
Settled ==
  tq.reset = MAX /\ ~ flush /\ \A w \in Workers : at[w] \in {"wait", "woken", "run"}

\* reset_task_cur does what it says, it takes the cursor to the first frame that
\* may go on, as long as the client keeps the frames in order: once things have settled no ready task of the oldest frame lies behind
\* the cursor.  This rests on the order of the frames, and on a cur_prev in the oldest
\* frame that leads somewhere as long as there are tasks.  In a later frame a task may
\* lie behind the cursor, until a row of an earlier one takes the cursor back.
ReadyAhead(s) == \A t \in tq.list[s] : Ready(s, t) => ~ Passed(s, t)
LeadsOn(s) == tq.prev[s] = Gone => tq.list[s] = {}

CursorSound ==
  ordered =>
    /\ TypeOK
    /\ InProgress # {} => LET s == Oldest(tq, InProgress)
                          IN  (flush \/ LeadsOn(s)) /\ (Settled => ReadyAhead(s))

\* When all workers sleep nothing is left to do, as long as the client keeps the frames
\* in order: every frame that was accepted is finished.  Otherwise no worker wakes another, and a caller that waits for that
\* frame waits for ever.
NoTaskMissed ==
  ordered /\ (\A w \in Workers : at[w] = "wait") /\ ~ flush => \A s \in Slots : slot[s].finished

\* A call that drains is not left waiting for a frame that nobody works on.
DrainReturns ==
  (\A w \in Workers : at[w] = "wait") /\ main.in = "drain" => slot[main.next].finished
=============================================================================
