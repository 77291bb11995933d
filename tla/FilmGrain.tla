----------------------------- MODULE FilmGrain -----------------------------
(***************************************************************************)
(* Delayed film grain of the decoder (rusty_av1d, src/thread_task.rs):     *)
(* rav1d_task_delayed_fg, run by the thread that calls the API, hands a    *)
(* picture to the worker pool and sleeps until every row of blocks has     *)
(* had its grain applied; delayed_fg_task is what each worker runs.        *)
(*                                                                         *)
(* The picture pair delayed_fg sits behind an RwLock that both sides only  *)
(* ever take with try_read / try_write and unwrap(), so a guard held at    *)
(* the wrong moment is a panic, not a wait.                                *)
(*                                                                         *)
(* The threads waiting on ttd.cond are the "parked" ones (parking_lot has  *)
(* no spurious wakeups, and the caller's own wait is not in a loop).  The  *)
(* other work of a worker is reduced to "a decode task ran": it is kept    *)
(* because it holds the worker away from the grain and changes             *)
(* cond_signaled.                                                          *)
(***************************************************************************)
EXTENDS Integers, FiniteSets

CONSTANTS
  Worker,     \* the worker threads of the pool
  Main,       \* the thread that calls the API
  NoOne,      \* the owner of a free lock
  Heights,    \* heights of the pictures, in rows of FG_BLOCK_SIZE lines
  Pictures,   \* bound: grain is applied to this many pictures
  Tasks       \* bound: decode tasks the workers run meanwhile

ASSUME WorkerAssumption ==
  IsFiniteSet(Worker) /\ Main \notin Worker /\ NoOne \notin Worker \cup {Main}
ASSUME HeightsAssumption == Heights \subseteq (Nat \ {0})
ASSUME BoundsAssumption == Pictures \in Nat /\ Tasks \in Nat

VARIABLES
  lock,        \* ttd.lock: its owner
  signaled,    \* ttd.cond_signaled
  exec,        \* ttd.delayed_fg_exec
  type,        \* delayed_fg.type_0
  height,      \* progmax of delayed_fg.out
  progress0,   \* ttd.delayed_fg_progress[0]: rows handed out
  progress1,   \* ttd.delayed_fg_progress[1]: hand-outs accounted for
  mpc,         \* where the caller is
  pc,          \* where each worker is
  row,         \* each worker's row
  done,        \* each worker's done
  applied,     \* ghost: how often each row got its grain
  pictures,    \* pictures still to come
  tasks        \* decode tasks still to come

budget == <<pictures, tasks>>
fgVars == <<type, height, progress0, progress1, applied>>
vars == <<lock, signaled, exec, type, height, progress0, progress1,
          mpc, pc, row, done, applied, pictures, tasks>>

Parked == {w \in Worker : pc[w] = "parked"}

\* Where a worker holds a read guard on delayed_fg, and where the write guard.
InRows == {"rows", "last", "apply", "next0", "next1", "finish", "exit1", "exit2",
           "return"}
Reading == {w \in Worker : pc[w] \in InRows}
Writing == {w \in Worker : pc[w] = "prep"}

MainPCs == {"idle", "submit", "waiting", "woken", "reset0", "reset1", "take"}
WorkerPCs == InRows \cup {"relock", "loop", "parked", "busy", "prep", "enter"}

Init ==
  /\ lock = NoOne
  /\ signaled = FALSE
  /\ exec = FALSE
  /\ type = "Init"
  /\ height = 0
  /\ progress0 = 0
  /\ progress1 = 0
  /\ mpc = "idle"
  /\ pc = [w \in Worker |-> "relock"]
  /\ row = [w \in Worker |-> 0]
  /\ done = [w \in Worker |-> 0]
  /\ applied = [r \in {} |-> 0]
  /\ pictures = Pictures
  /\ tasks = Tasks

----------------------------------------------------------------------------
(* Steps of threads *)

\* Worker w moves on.
Goto(w, to) == pc' = [pc EXCEPT ![w] = to]

\* Worker w moves on and calls ttd.cond.notify_one().
GotoNotify(w, to) ==
  \/ Parked = {} /\ Goto(w, to)
  \/ \E v \in Parked : pc' = [pc EXCEPT ![w] = to, ![v] = "relock"]

\* notify_one() by the caller.
Notify ==
  \/ Parked = {} /\ UNCHANGED pc
  \/ \E v \in Parked : pc' = [pc EXCEPT ![v] = "relock"]

Acquire(t) == lock = NoOne /\ lock' = t
Release(t) == lock = t /\ lock' = NoOne
Holding(t) == lock = t /\ UNCHANGED lock

----------------------------------------------------------------------------
(* rav1d_task_delayed_fg: the caller *)

\* try_write(): the picture pair and FgPrep go into delayed_fg.
Begin ==
  /\ mpc = "idle" /\ pictures > 0
  /\ \E h \in Heights : /\ height' = h
                        /\ applied' = [r \in 0 .. h - 1 |-> 0]
  /\ type' = "FgPrep"
  /\ mpc' = "submit"
  /\ pictures' = pictures - 1
  /\ UNCHANGED <<lock, signaled, exec, progress0, progress1, pc, row, done, tasks>>

\* Mutant: no worker is woken.
SubmitSilently ==
  /\ mpc = "submit" /\ lock = NoOne
  /\ exec' = TRUE
  /\ mpc' = "waiting"
  /\ UNCHANGED <<lock, signaled, fgVars, pc, row, done, budget>>

\* Under the lock: exec is set, one worker is woken, and the wait on
\* delayed_fg_cond gives the lock up.
Submit ==
  /\ mpc = "submit" /\ lock = NoOne
  /\ exec' = TRUE
  /\ Notify
  /\ mpc' = "waiting"
  /\ UNCHANGED <<lock, signaled, fgVars, row, done, budget>>

\* Mutant: the caller goes on without the lock.
WakeUnlocked ==
  /\ mpc = "woken"
  /\ mpc' = "reset0"
  /\ UNCHANGED <<lock, signaled, exec, fgVars, pc, row, done, budget>>

\* The wait returns with the lock, which is dropped at once.
Wake ==
  /\ mpc = "woken" /\ lock = NoOne
  /\ mpc' = "reset0"
  /\ UNCHANGED <<lock, signaled, exec, fgVars, pc, row, done, budget>>

Reset0 ==
  /\ mpc = "reset0" /\ mpc' = "reset1"
  /\ progress0' = 0
  /\ UNCHANGED <<lock, signaled, exec, type, height, progress1, pc, row, done,
                 applied, budget>>

\* Mutant: the second counter is not cleared.
Reset1Not ==
  /\ mpc = "reset1" /\ mpc' = "take"
  /\ progress1' = progress1
  /\ UNCHANGED <<lock, signaled, exec, type, height, progress0, pc, row, done,
                 applied, budget>>

Reset1 ==
  /\ mpc = "reset1" /\ mpc' = "take"
  /\ progress1' = 0
  /\ UNCHANGED <<lock, signaled, exec, type, height, progress0, pc, row, done,
                 applied, budget>>

\* mem::take through try_write(): delayed_fg is back to its default.
Take ==
  /\ mpc = "take" /\ mpc' = "idle"
  /\ type' = "Init"
  /\ height' = 0
  /\ UNCHANGED <<lock, signaled, exec, progress0, progress1, pc, row, done,
                 applied, budget>>

----------------------------------------------------------------------------
(* rav1d_worker_task around the film grain *)

\* The worker gets ttd.lock: at its start, after a wait, after a task.
Relock(w) ==
  /\ pc[w] = "relock" /\ Acquire(w)
  /\ Goto(w, "loop")
  /\ UNCHANGED <<signaled, exec, fgVars, mpc, row, done, budget>>

\* No film grain, and a decode task is found: the next waiter is signalled.
FindTask(w) ==
  /\ pc[w] = "loop" /\ Release(w)
  /\ ~exec /\ tasks > 0
  /\ tasks' = tasks - 1
  /\ signaled' = TRUE
  /\ GotoNotify(w, "busy")
  /\ UNCHANGED <<exec, fgVars, mpc, row, done, pictures>>

\* The task is done; most kinds signal a waiter unless one was signalled.
FinishTask(w) ==
  /\ pc[w] = "busy"
  /\ \/ Goto(w, "relock") /\ UNCHANGED signaled
     \/ ~signaled /\ GotoNotify(w, "relock") /\ signaled' = TRUE
  /\ UNCHANGED <<lock, exec, fgVars, mpc, row, done, budget>>

\* park: nothing to run, whether because no task is queued or none is ready.
Park(w) ==
  /\ pc[w] = "loop" /\ Release(w)
  /\ ~exec
  /\ signaled' = FALSE
  /\ Goto(w, "parked")
  /\ UNCHANGED <<exec, fgVars, mpc, row, done, budget>>

----------------------------------------------------------------------------
(* delayed_fg_task *)

\* FgPrep: exec is lowered for the time of the preparation, the write guard
\* is taken; ttd.lock stays held.
StartPrep(w) ==
  /\ pc[w] = "loop" /\ Holding(w)
  /\ exec /\ type = "FgPrep"
  /\ exec' = FALSE
  /\ IF signaled THEN GotoNotify(w, "prep") ELSE Goto(w, "prep")
  /\ UNCHANGED <<signaled, fgVars, mpc, row, done, budget>>

EndPrep(w) ==
  /\ pc[w] = "prep" /\ Holding(w)
  /\ type' = "FgApply"
  /\ exec' = TRUE
  /\ Goto(w, "enter")
  /\ UNCHANGED <<signaled, height, progress0, progress1, mpc, row, done,
                 applied, budget>>

\* FgApply: straight to the rows.
StartApply(w) ==
  /\ pc[w] = "loop" /\ Holding(w)
  /\ exec /\ type = "FgApply"
  /\ Goto(w, "enter")
  /\ UNCHANGED <<signaled, exec, fgVars, mpc, row, done, budget>>

\* Mutant: joining is not counted.
EnterUncounted(w) ==
  /\ pc[w] = "enter" /\ Release(w)
  /\ row' = [row EXCEPT ![w] = progress0]
  /\ progress0' = progress0
  /\ Goto(w, "rows")
  /\ UNCHANGED <<signaled, exec, type, height, progress1, mpc, done, applied, budget>>

\* The first row of this worker, then the lock is dropped.
Enter(w) ==
  /\ pc[w] = "enter" /\ Release(w)
  /\ row' = [row EXCEPT ![w] = progress0]
  /\ progress0' = progress0 + 1
  /\ Goto(w, "rows")
  /\ UNCHANGED <<signaled, exec, type, height, progress1, mpc, done, applied, budget>>

\* The loop's test: more rows remain, so another worker may join...
MoreRows(w) ==
  /\ pc[w] = "rows" /\ row[w] + 1 < height
  /\ GotoNotify(w, "apply")
  /\ UNCHANGED <<lock, signaled, exec, fgVars, mpc, row, done, budget>>

\* ... or this is the last row, or past it.
LastRow(w) ==
  /\ pc[w] = "rows" /\ row[w] + 1 >= height
  /\ Goto(w, "last")
  /\ UNCHANGED <<lock, signaled, exec, fgVars, mpc, row, done, budget>>

\* Under the lock, nobody else is to join; past the last row it is kept.
CloseRows(w) ==
  /\ pc[w] = "last" /\ lock = NoOne
  /\ exec' = FALSE
  /\ \/ row[w] >= height /\ Goto(w, "exit1") /\ lock' = w
     \/ row[w] < height /\ Goto(w, "apply") /\ UNCHANGED lock
  /\ UNCHANGED <<signaled, fgVars, mpc, row, done, budget>>

ApplyRow(w) ==
  /\ pc[w] = "apply"
  /\ applied' = [applied EXCEPT ![row[w]] = @ + 1]
  /\ Goto(w, "next0")
  /\ UNCHANGED <<lock, signaled, exec, type, height, progress0, progress1, mpc,
                 row, done, budget>>

\* Mutant: the row is read but not taken.
NextRowUncounted(w) ==
  /\ pc[w] = "next0"
  /\ row' = [row EXCEPT ![w] = progress0]
  /\ progress0' = progress0
  /\ Goto(w, "next1")
  /\ UNCHANGED <<lock, signaled, exec, type, height, progress1, mpc, done,
                 applied, budget>>

NextRow(w) ==
  /\ pc[w] = "next0"
  /\ row' = [row EXCEPT ![w] = progress0]
  /\ progress0' = progress0 + 1
  /\ Goto(w, "next1")
  /\ UNCHANGED <<lock, signaled, exec, type, height, progress1, mpc, done,
                 applied, budget>>

RowDone(w) ==
  /\ pc[w] = "next1"
  /\ progress1' = progress1 + 1
  /\ done' = [done EXCEPT ![w] = progress1 + 1]
  /\ Goto(w, IF row[w] < height THEN "rows" ELSE "finish")
  /\ UNCHANGED <<lock, signaled, exec, type, height, progress0, mpc, row,
                 applied, budget>>

Finish(w) ==
  /\ pc[w] = "finish" /\ Acquire(w)
  /\ exec' = FALSE
  /\ Goto(w, "exit1")
  /\ UNCHANGED <<signaled, fgVars, mpc, row, done, budget>>

Leave(w) ==
  /\ pc[w] = "exit1" /\ Holding(w)
  /\ progress1' = progress1 + 1
  /\ done' = [done EXCEPT ![w] = progress1 + 1]
  /\ Goto(w, "exit2")
  /\ UNCHANGED <<signaled, exec, type, height, progress0, mpc, row, applied, budget>>

\* Mutant: compared with the rows of the picture, not the hand-outs.
CompleteEarly(w) ==
  /\ pc[w] = "exit2" /\ Holding(w)
  /\ Goto(w, "return")
  /\ mpc' = IF done[w] >= height /\ mpc = "waiting" THEN "woken" ELSE mpc
  /\ UNCHANGED <<signaled, exec, fgVars, row, done, budget>>

\* The worker that settles the last hand-out wakes the caller.
Complete(w) ==
  /\ pc[w] = "exit2" /\ Holding(w)
  /\ Goto(w, "return")
  /\ mpc' = IF done[w] >= progress0 /\ mpc = "waiting" THEN "woken" ELSE mpc
  /\ UNCHANGED <<signaled, exec, fgVars, row, done, budget>>

\* The read guard is dropped on return, after the notification.
Return(w) ==
  /\ pc[w] = "return" /\ Holding(w)
  /\ Goto(w, "loop")
  /\ UNCHANGED <<signaled, exec, fgVars, mpc, row, done, budget>>

MainNext == Begin \/ Submit \/ Wake \/ Reset0 \/ Reset1 \/ Take

FgNext(w) ==
  \/ StartPrep(w) \/ EndPrep(w) \/ StartApply(w) \/ Enter(w)
  \/ MoreRows(w) \/ LastRow(w) \/ CloseRows(w) \/ ApplyRow(w)
  \/ NextRow(w) \/ RowDone(w) \/ Finish(w) \/ Leave(w) \/ Complete(w) \/ Return(w)

WorkerNext(w) ==
  Relock(w) \/ FindTask(w) \/ FinishTask(w) \/ Park(w) \/ FgNext(w)

Next == MainNext \/ \E w \in Worker : WorkerNext(w)

Spec == Init /\ [][Next]_vars

\* Every thread runs when it can.  Contention for the lock is bounded (tasks
\* and rows are), so weak fairness of a thread that wants it is enough.
FairSpec ==
  /\ Spec
  /\ WF_vars(MainNext)
  /\ \A w \in Worker : WF_vars(WorkerNext(w))

----------------------------------------------------------------------------
(* Properties *)

TypeOK ==
  /\ lock \in Worker \cup {NoOne}
  /\ signaled \in BOOLEAN
  /\ exec \in BOOLEAN
  /\ type \in {"Init", "FgPrep", "FgApply"}
  /\ height \in Nat
  /\ progress0 \in Nat
  /\ progress1 \in Nat
  /\ mpc \in MainPCs
  /\ pc \in [Worker -> WorkerPCs]
  /\ row \in [Worker -> Nat]
  /\ done \in [Worker -> Nat]
  /\ applied \in [DOMAIN applied -> Nat]
  /\ pictures \in Nat
  /\ tasks \in Nat

\* When rav1d_task_delayed_fg goes on, every row of the picture has had its
\* grain applied exactly once, however the workers shared the rows out.
GrainComplete ==
  mpc \in {"woken", "reset0", "reset1", "take"} =>
    \A r \in 0 .. height - 1 : applied[r] = 1

\* No row is given to two workers and no row past the picture is filtered.
RowsDisjoint ==
  \A v, w \in Worker :
    pc[v] = "apply" =>
      /\ row[v] < height
      /\ applied[row[v]] = 0
      /\ v # w /\ pc[w] = "apply" => row[v] # row[w]

\* No try_read or try_write of delayed_fg can fail, which would panic: the
\* caller writes it only while no worker holds a guard, and the preparation
\* of the grain is alone.
GuardsCompatible ==
  /\ mpc \in {"idle", "take"} => Reading \cup Writing = {}
  /\ \A w \in Writing : Reading \cup Writing = {w}

\* The caller waits once and not in a loop: the notification of
\* delayed_fg_cond comes exactly when it waits, never early (lost) and
\* never twice for one picture.
CompletionHeard ==
  \A w \in Worker :
    pc[w] = "exit2" /\ done[w] >= progress0 => mpc = "waiting"

\* delayed_fg_exec never invites a worker to a picture that is finished or
\* not there yet: it would find the default type and abort().
ExecMeansWork ==
  exec => mpc = "waiting" /\ type \in {"FgPrep", "FgApply"}

\* The inductive strengthening of the invariants above, in named parts.
FgPCs == InRows \cup {"prep", "enter"}
LockPCs == {"loop", "prep", "enter", "exit1", "exit2", "return"}
OwingPCs == InRows \ {"exit2", "return"}
Owing == {w \in Worker : pc[w] \in OwingPCs}
Between == {w \in Worker : pc[w] = "next1"}
Claims(w) == pc[w] \in {"rows", "last", "apply", "next1"}

\* The lock's owner is the worker whose program counter says so.
LockInv == \A w \in Worker : lock = w <=> pc[w] \in LockPCs

\* Workers are at the grain only while the caller waits, and what is at rest
\* meanwhile.
PhaseInv ==
  /\ mpc # "waiting" =>
       /\ ~exec
       /\ \A w \in Worker : pc[w] \in FgPCs => mpc = "woken" /\ pc[w] = "return"
  /\ mpc \in {"idle", "submit", "reset1", "take"} => progress0 = 0
  /\ mpc \in {"idle", "submit", "take"} => progress1 = 0
  /\ mpc = "submit" => type = "FgPrep"
  /\ mpc = "waiting" => type # "Init"
  /\ mpc # "idle" => DOMAIN applied = 0 .. height - 1

\* Until the preparation is over no row has been handed out.
PrepInv ==
  /\ type = "FgPrep" => /\ progress0 = 0 /\ progress1 = 0
                        /\ \A w \in Worker : pc[w] \notin InRows \cup {"enter"}
                        /\ mpc # "idle"
                        /\ \A r \in 0 .. height - 1 : applied[r] = 0
  /\ \A w \in Worker : pc[w] = "prep" => type = "FgPrep" /\ ~exec
  /\ \A w \in Worker : pc[w] = "enter" => exec
  /\ \A w \in Worker : pc[w] \in {"exit1", "exit2", "return"} => ~exec

\* What the two counters count.
CountInv ==
  mpc # "reset1" =>
    progress0 = progress1 + Cardinality(Owing) + Cardinality(Between)

\* A worker that leaves has seen a value the second counter had.
DoneInv == \A w \in Worker : pc[w] = "exit2" => done[w] <= progress1

\* A worker's row was handed out; past the last row it finishes, and only a
\* row of the picture is applied.
RowRange ==
  /\ \A w \in Reading : row[w] < progress0
  /\ \A w \in Worker : pc[w] \in {"finish", "exit1", "exit2", "return"} =>
       row[w] >= height /\ progress0 > height
  /\ \A w \in Worker : pc[w] = "apply" => row[w] < height

\* No two workers claim the same row.
RowDistinct ==
  \A v, w \in Worker : Claims(v) /\ Claims(w) /\ v # w => row[v] # row[w]

\* Each row handed out is applied or claimed.
RowApplied(r) ==
  /\ applied[r] = 1 /\ r < progress0
  /\ \A w \in Worker : Claims(w) => row[w] # r
RowPending(r) ==
  /\ applied[r] = 0
  /\ r >= progress0 \/ \E w \in Worker : Claims(w) /\ row[w] = r
RowAccount ==
  mpc = "waiting" => \A r \in 0 .. height - 1 : RowApplied(r) \/ RowPending(r)

IInv ==
  TypeOK /\ LockInv /\ PhaseInv /\ PrepInv /\ CountInv /\ DoneInv
  /\ RowRange /\ RowDistinct /\ RowAccount /\ GrainComplete

\* The caller always gets its picture back: no wakeup of a worker or of the
\* caller is lost.
GrainReturns == (mpc = "waiting") ~> (mpc = "idle")
============================================================================
