# A TLA+ verification of rusty-av1-toolkit

The repository holds two crates: `rusty_av1d`, an AV1 decoder (a fork of rav1d,
the Rust port of dav1d), and `rusty_av1e`, an AV1 encoder (a fork of rav1e).
This directory specifies the parts of them whose correctness depends on the
order in which things happen: the decoder's frame queue, its worker pool, how
the workers find their tasks, and the sharing of film grain among them; the
encoder's frame queue with its re-ordering schedule, and its pipeline over
groups of pictures. TLC checks small instances, and TLAPS proves the safety
properties of all seven for every size: `FilmGrain`, `FrameThreads`,
`FrameTasks`, `TaskQueue`, `GroupSchedule`, `EncoderQueue` and `GopChannel`.

    tlc -workers 2 -config MCFilmGrain.cfg MCFilmGrain     # a run
    tlapm FilmGrainProof.tla                               # a proof

`PROJECT.json` says which lines each definition translates, which properties
each run checks, and for each property a mutant of the code that breaks it
(a definition whose comment starts with "Mutant:").

Line numbers below are those of `src/rusty_av1d/src/` and `src/rusty_av1e/src/`.

## 1. The system

### Decoder

| Part | State | Operations | Talks to |
|---|---|---|---|
| Picture API and frame queue: `lib.rs`, `rav1d_submit_frame` and `rav1d_decode_frame_exit` in `decode.rs`, `show_existing_frame` in `obu.rs` | input data `in_0`; one output picture `out`; `cached_error` and its props; `drain`; the ring `out_delayed[next..]`, one slot for each frame context; `retval` and `error` of each slot | `dav1d_send_data`, `dav1d_get_picture`, `dav1d_flush`, `dav1d_close` | waits on `fc.task_thread.cond` for a slot's frame to finish; submits frames to the worker pool |
| Worker pool: `thread_task.rs`, with the parts of `decode.rs` that tasks call | for each frame: a linked list of tasks, `task_counter`, `done[2]`, `error`, `entropy_progress`, `deblock_progress`, bitmaps of finished rows, progress of each tile, `next_tile_row[2]`; for the pool: `cur`, `first`, `reset_task_cur`, `cond_signaled`; the `progress` of each picture | create tasks, search, run, re-queue, leave or abort a frame, flush | `ttd.lock` and `ttd.cond`; frames wait for rows and for the CDF of other frames |
| Delayed film grain: `rav1d_task_delayed_fg`, `delayed_fg_task` | `delayed_fg` (an `RwLock` that is only ever tried), `delayed_fg_progress[2]`, `delayed_fg_exec`, `delayed_fg_cond` | the caller hands a picture to the workers and waits; the workers share its rows | the same lock, condition and workers as the pool |
| OBU parsing: `obu.rs`, `getbits.rs` | sequence and frame headers, tile groups, operating point | parse | fills the frame context |
| Tile decoding: `decode.rs`, `msac.rs`, `cdf.rs`, `refmvs.rs`, `recon.rs` | contexts of a tile | decode a superblock row | reads references up to their progress |
| Pixel kernels: `mc.rs`, `itx.rs`, `ipred.rs`, `looprestoration.rs`, `cdef.rs`, `filmgrain.rs`, assembly | none | pure functions on pixels | - |
| Pictures, pools, shared memory: `picture.rs`, `pool.rs`, `c_arc.rs`, `disjoint_mut.rs` | reference counts, free buffers, the table of live borrows (debug builds) | allocate, share, return | everything |
| C/Rust API and tools: `rust_api.rs`, `include/`, `tools/` | - | wrappers, I/O | the picture API |

### Encoder

| Part | State | Operations | Talks to |
|---|---|---|---|
| Frame queue and API: `api/context.rs`, `api/internal.rs`, `api/lookahead.rs` | `frame_q`, `frame_data`, key frames, `limit`, `output_frameno`, `frames_processed`, starts of GOPs, `t35_q`, `opaque_q`; the re-ordering schedule `InterConfig` | `send_frame`, `receive_packet`, `flush`; look-ahead, garbage collection | rate control, frame encoding |
| Channels: `api/channel/` | bounded and unbounded channels; workers for GOPs; the reassembler's `pending` | threads that drive the frame queue; GOPs in parallel | rayon's pool |
| Rate control: `rate.rs` | reservoir, scale filters, two-pass buffers, a ring of frame metrics, `pass1_data_retrieved`, `pass2_data_ready` | `select_qi`, `update_state`, `twopass_in`, `twopass_out` | frame queue |
| Range coder: `ec.rs` | `low`, `rng`, `cnt`, `precarry`; recorded tokens | symbols, checkpoint, rollback, replay, done | frame encoding |
| Frame encoding: `encoder.rs`, `rdo.rs`, `me.rs`, filters | reference buffer, tile states | encode a frame, a tile, a block | tiles by fork and join |
| Tiling, headers, C API, command line | - | - | - |

### What is hard

* **Interleavings.** One picture is touched by the thread that calls the API
  and by every worker. Rows of blocks are handed out through atomics with no
  lock held; the last of several workers to finish must notice that it is the
  last; progress is published by whichever worker finishes a row.
* **Order.** Frames finish in any order and must leave in the order they came,
  including frames that are shown again later and occupy a slot of the ring
  without a frame of their own.
* **Failure.** A frame may be rejected, fail in any tile, or be abandoned by a
  flush while others refer to it and wait for its rows or its CDF. Nothing may
  wait for ever, be lost, or be shown half decoded.
* **Locks that must not be contended.** Much of the decoder takes `RwLock`s
  through `try_read().unwrap()` and `try_write().unwrap()`: a guard held at the
  wrong moment is a panic, not a wait.
* **Reuse.** A frame context is used again at once; a counter, bit or task left
  over from the frame before is a fault in the next one.
* In the encoder: re-ordering with key frames that move, a look-ahead that must
  know when it has enough, maps from which frames are removed while others still
  refer to them, and a pipeline of blocking tasks on a bounded thread pool.

### What makes each part correct

* Frame queue: output in order, each picture once, decoded, none lost; every
  error reported; calls return; draining empties it; a flush forgets all.
* Worker pool: a frame is left exactly once, by nobody too early, with nothing
  behind; filters see what they need; references are read only where they are
  there; progress is honest and does not go back; every frame ends.
* Film grain: each row gets its grain once; the caller is woken when all is
  done, never before, never twice; no guard collides.
* The search for tasks: a worker that finds nothing and sleeps has overlooked
  nothing, whatever order tasks become ready in.
* Encoder frame queue: each input frame is shown once, in order; each reference
  still holds what the schedule thinks it holds; metadata stays with its frame;
  what a call returns is what its callers count on; after a flush the end comes.
* Channels: GOPs are cut where the detector says, packets come in order, the
  pipeline ends, given enough threads.
* Rate control (not modelled): no frame is encoded without its pass data; the
  ring of metrics does not overflow for the schedules in use.

## 2. The modules

| Module | What it is |
|---|---|
| `FrameThreads` | the frame queue and picture API |
| `OutputQueue` | what that promises: a queue. `FrameThreads` implements it |
| `FrameThreadsProof` | its theorems |
| `FrameTasks` | the worker pool: the tasks of frames |
| `FrameTasksProof` | its theorems on the frame: what is left to do, who leaves it |
| `FrameTasksRowsProof` | its theorems on rows, and on what other frames see: tiles, filters, what a picture shows; references, complete frames, progress |
| `TaskQueue` | the worker pool: how a worker finds its task |
| `TaskQueueProof` | its theorems |
| `FilmGrain` | delayed film grain |
| `FilmGrainProof` | its theorems |
| `GroupSchedule` | the re-ordering schedule of the encoder, as functions |
| `EncoderQueue` | the encoder's frame queue and API, over `GroupSchedule` |
| `EncoderQueueProof` | the theorems on the schedule, and those on what is coded: references, what is looked back at |
| `EncoderOrderProof` | its theorems on what comes out: the contract of a call, `DisplayOrder` |
| `GopChannel` | the pipeline that encodes several GOPs at once |
| `GopChannelProof` | its theorems |
| `DisplayOrder` | what both promise: a queue of packets. Both implement it |
| `MC...` | values for the constants that a `.cfg` cannot write |

The decoder's modules are four views of one decoder, cut where they meet.
`FrameThreads` sees a frame of the ring as "working" until one step, `Decoded`,
ends it with success or failure; `FrameTasks` is what happens in between, ends
frames in `rav1d_decode_frame_exit` (`Left`, `Abort`), and shows that this step
comes (`FramesEnd`). What `FrameThreads` needs of the workers is fairness of
`Decoded`, which is what `FramesEnd` says. `FrameTasks` in turn lets a worker
take any task that is ready, and assumes for liveness that some worker takes
it; `TaskQueue` is about that assumption. It holds, whatever the client does, as
long as the frames in progress lie, from `first` on, in the order in which they were
sent, and `first` does not pass the oldest (`NoTaskMissed`); and a client can bring
them out of that order (section 5). So both modules have a history variable
`ordered`, which is true as long as this has always been so (`KeepOrder`, the same
formula in both): in `TaskQueue` it is the premise of what is checked and proved, and
in `FrameThreads`, which keeps `first` for it, frames are assumed to end only while
it holds. `FilmGrain` starts where `dav1d_get_picture` has a picture and the caller
lends it to the same workers; to them it is another task to be found, so decode
tasks are one action there.

The encoder's modules meet in `DisplayOrder`: `EncoderQueue` implements it, and
`GopChannel` takes from it what a worker's encoder does, a packet for each frame
in order, and implements it again for all GOPs together.

### FrameThreads

A *unit* stands for the OBUs up to the one that completes a frame; its kind
says what the parser and `rav1d_submit_frame` will make of it, so every error
path of `gen_picture`, `parse_obus` and `rav1d_submit_frame` is an action that
is chosen by the kind of the next unit. A picture is named by the unit that
made it, and a ghost `status` says whether it is decoding, good, failed or
flushed.

* Calls are `Send`, `SendPacket`, `Get` and `Flush`; `pc` says where a call is
  (`"gen"` is the loop of `gen_picture`, `"drain"` that of `drain_picture`).
* The wait for a slot's frame is the conjunct `Idle(next)` of the actions that
  take a slot, since nothing else can happen to the caller meanwhile.
* `SubmitFrame`, `SubmitRejected` and `ShowExisting` share `PopSlot`: the
  slot's old picture goes to `out` or its error to `cached_error`, and `next`
  moves on. With one frame context the same calls decode within the call
  (`DecodeSingle`, `DecodeSingleFails`, `RejectSingle`, `ShowExistingSingle`).
* `Flush` abandons every frame and empties everything; the slots keep `error`
  as the code does.
* `Output` is `output_image`: it takes the picture out of `state.out` and returns it,
  or, when the copy for film grain cannot be allocated, an error (`uncopied`).
* `FirstAfter` moves `task_thread.first` on for a slot that held a picture or an
  error, as `rav1d_submit_frame`, `show_existing_frame` and `drain_picture` do;
  `InOrder` says that the frames in progress lie behind it as they were sent.

Not modelled here: `dav1d_close`, spatial layers and operating points, event flags,
`dav1d_get_decode_error_data_props` (it takes the props, so a second call
returns none), `output_invisible_frames`, `strict_std_compliance`, and the
sending of empty data. One reference slot stands for eight. A client is assumed
not to send again a packet that was refused with an error.

### OutputQueue

Units join a queue in the order in which they were sent, decoding decides
whether each is worth showing, only the oldest leaves, for the client or (`Refuse`) for an error
instead, and a flush empties the queue. The refinement mapping takes the queue to be the units in the ring and
in `out` (`Waiting`), and the verdict on a unit from the status of the picture
that it shows (`Verdict`).

### FrameTasks

A frame context is a record: its queue (a set of tasks), the progress of its
tiles, the bitmaps, `done`, `task_counter` and so on. A task has the fields of
`Rav1dTask`. A worker is at `"search"`, or at the place in
`rav1d_worker_task` that its task has reached; the search, which holds
`ttd.lock`, is the step `FindTask`, and `Ready` is the guard of each type of
task as the code checks it, including `check_tile`. The rest of a task runs
without the lock, one step for each access to shared state that another worker
could see between.

* `Submit`, `SubmitSingle`: `rav1d_submit_frame` with several frame contexts,
  or with one, where the caller waits (`Waited`).
* `InitFrame`, `InitFrameCdf`, `CreateSecond`: the tasks of a frame are created,
  those of the second pass separately.
* `NextTileTask`, `EndTile`: a tile's task goes on to the next row, or ends.
  `NextRows` and `NextTileRow` are the rule that starts the chain of rows.
* `DeblockCols`, `DeblockRows`, `FinishRow`, `PublishRows`, `EntropyProgress`,
  `EndRow`: the chain of rows of a pass.
* `Flush`, `FlushAll`: the flag, and what `rav1d_flush` does when every worker
  has parked.

What is abstracted:

* **The order of the search.** Any ready task may be taken. The list, its
  cursor (`cur`, `first`, `reset_task_cur`) and `cond_signaled` are left out, so
  the safety properties hold for every order; liveness assumes that a worker
  does not stay parked while a task is ready, which is the subject of `TaskQueue`.
* **References.** A frame refers to the picture submitted before it, or to none,
  and takes both pixels and CDF from there. `Reach` stands for `lowest_px`: the
  rows of the reference that a row of tiles needs. Single-context waiting for
  references, which cannot happen there, is absent.
* **Filters.** Deblocking and CDEF decide the path of a row and are kept;
  super-resolution and loop restoration come between CDEF and the row's bit, on
  the same worker and with nothing published between, and are part of
  `FinishRow`.
* **Steps that are merged** because no other worker can tell: `DeblockRows` with
  the check of the row above; the progress of a pass with its `done`.
* A failed allocation in `rav1d_task_create_tile_sbrow` is not modelled. A
  malformed frame may fail at any other step; `MayFail` says which frames may.

### FilmGrain

Each atomic operation of `delayed_fg_task` is an action, and so is each
stretch with the lock; `lock` has an owner. A guard on `delayed_fg` is held at
certain places (`Reading`, `Writing`), and `GuardsCompatible` says that no
`try_` can fail. `parking_lot` has no spurious wakeups, and the caller's
`delayed_fg_cond.wait` is not in a loop, so that wait is a state of its own
which only the notification ends.

### TaskQueue

The search of `rav1d_worker_task` is modelled as it is: the list of each frame
context, a set with an order, as `insert_tasks` keeps it sorted and no task is in
it twice; the tasks added without the lock (`pend`) and their merging; the cursor
`cur`, counted from `first`, with the `cur_prev` of each frame, which is `Gone`
once its task is taken out and then may lead anywhere; `reset_task_cur` with its
early returns (`Reset`, `Target`, `Moves`, `ResetTaskCur`), and
`reset_task_cur_async` in its three steps, with the loop of swaps and the index
that is taken back (`AsyncFirst`, `AsyncSwap`, `AsyncSignal`); `cond_signaled`,
the condition variable, and a worker that was woken and does not have the lock
yet. A frame is searched in one step (`Scan`), under the lock as in the code. The
caller submits, has a frame rejected or one shown again, drains slot by slot and
flushes, and moves `first` as `rav1d_submit_frame`, `parse_obus` and `drain_picture`
do. `ordered` is a ghost: the frames in progress have always been `OldestFirst`, and
`first` has not passed the oldest.

What a task does is reduced to what moves the cursor in a way of its own: `Init`
and `InitCdf`; one column of tiles, in one pass that stands for both, since both
use the same lists and signals; deblocking in columns, whose next row is put in
the list while the search holds it, and in rows, which signals without the lock;
and the progress of the picture, published without a signal of its own before
the worker locks and leaves. CDEF, whose wait is like that of deblocking, and
failures inside a worker are left out: a failed frame takes the same path with
other values. `Clients` says what callers do; a run gives the set of clients.

### GroupSchedule and EncoderQueue

`GroupSchedule` translates `InterConfig`: the coding order of a pyramid by
recursive halving, the schedule with its show-existing frames, order hints,
slots and references. The functions are evaluated once for each depth.

`EncoderQueue` keeps `ContextInner` in one record, `ctx`, and translates its
functions to operators on that record, because the calls of the API are long
chains of them: `send_frame` is `Send` (with key frame placement, the scheduling
of every frame that has become decidable, and their look-ahead), `receive_packet`
is `ReceiveNothing`, `ReceiveExisting` or `ReceiveCoded`, `flush` is `Flush`. The
scene change detector may answer anything. The `while` of
`compute_frame_invariants` is a function of the number of its rounds, taken at a
number by which it has ended. A frame is its number, and its opaque data and T.35
metadata are the number it was sent with. A reference is the output frame it came
from, and whether it holds that frame's source (as the look-ahead puts it there)
or its reconstruction. A decoder's slots (`decoder`) and what was coded from what
(`stream`) are ghosts.

Left out: rate control (so that `receive_packet` never returns `NotReady`), still
pictures, the forced end after `i32::MAX - 1` frames, and pixels, motion,
statistics and temporal filtering.

### GopChannel

The pipeline of `new_by_gop_channel` with its five kinds of party: the caller,
the splitter with the detector's look-ahead, the dispatcher, the workers, the
reassembler. Channels are sequences; dropping a sender is `open`, `done` or the
end of the job that owns it, as it is what ends a receiver's loop. The caller sends
frames, and drops its sender to flush, as a comment (`by_gop.rs:331`) asks of it: a
`None`, which `FrameSender::send` accepts as `Context::send_frame` does, would reach
the `unwrap()` in `scenechange` (line 275), a panic in a job of the pool. The jobs are
started by the thread pool in the order in which they were spawned and keep
their thread until they end (`StartJob`): that is `rayon`'s scope with blocking
jobs. Work that `rayon` steals inside an encoder, and a client that drops its
receiver, are left out. A worker's encoder makes a packet for each frame at any
time after it came.

## 3. The runs

All runs end within five minutes with two TLC workers.

| Run | Instance | What it shows |
|---|---|---|
| `film_grain` | 3 workers, 2 pictures of up to 2 rows, 1 decode task | each row filtered once, guards compatible, the notification heard, the inductive invariant; the caller returns |
| `frame_threads` | 2 frame contexts, 3 units of all 7 kinds, packets of 2, 1 flush, 1 copy for film grain that fails | order, nothing lost, errors kept, decoded; it implements `OutputQueue`; all comes out and calls return, as long as the frames lie in the order of the search |
| `frame_threads_1` | 1 frame context, the same | it implements `OutputQueue` there too |
| `frame_tasks` | 2 workers, 2 frames; five setups: one after the other in a frame context with two rows of tiles, with deblocking or CDEF only, failure and flush; at once in two frame contexts, of two rows; the same of one row with failure; the same when the second uses nothing of the first; one pass with two columns of tiles, failure and flush | the counter, leaving, rows and filters in order, progress, reuse of the frame context, references read where they are there, frames that ended left alone |
| `frame_tasks_live` | the third and the last of these setups | frames end, the caller returns |
| `task_queue` | 2 workers, 2 frame contexts, 4 frames of 2 rows; a client that drains until EAGAIN once and flushes once, and one that mixes rejected and shown-again frames, a flush and a drain for one picture | as long as the frames are in order, the cursor passes no ready task of the oldest frame and nobody sleeps while a frame is unfinished |
| `encoder_queue` | pyramids of depth 0 to 3, 6 to 13 frames, look-ahead of 1 or 2, key frames wherever the detector or the caller wants up to 1 or 2 besides those due, switch frames, a limit from the first pass | references in sync with a decoder, nothing collected too early, the stream is canonical, the contract of a call; it implements `DisplayOrder`; the end comes |
| `gop_channel` | 2 workers, pools of 2, 4 or 5 threads, 7 frames, scenes anywhere | GOPs as detected; it implements `DisplayOrder`; every job ends |
| `drain_complete`, `single_frame_panic`, `encoder_t35`, `task_queue_hasty` | - | the findings of section 5 |

**Are the bounds enough?** The hazards are between two frames, two workers and
neighbouring rows. In `film_grain`, three workers for two rows means that some
worker always finds no row, which is the case that decides completion, and the
second picture meets what the first left. In `frame_threads`, a ring of two
with three units wraps around with something in it; a ring of three adds no new
case to the refinement, and the theorems cover every size. In `frame_tasks`,
two rows of tiles give a first, a last and a boundary between them, and two
frames in one context give reuse after success, failure and flush; two workers
are enough to overtake each other in the chain of rows. Two frame contexts give
one frame that refers to another. A frame that uses no row of a failed reference
decodes well and is refused as it ends, under strict compliance
(`rav1d_decode_frame_exit`): the fourth setup reaches that, where published
progress turns to an error (`Refused` in `ProgressGrows`). In `task_queue`, four frames go twice round
the ring, so that `first` wraps while `reset_task_cur` is being written; three
frame contexts with three frames, or with four frames of one row, and five
frames in two contexts were run by hand, and hold. In `encoder_queue` every
setup has at least two groups of frames (one for depth 3), so that a key frame
can come in the middle of a group, at its end and between two, and the limit is
reached inside a group; schedules themselves are checked whole through
`StreamIsCanonical`. One setup has a first pass of a single frame. In `gop_channel` seven frames with a look-ahead of four
make GOPs that are cut into pieces and GOPs of one frame, more GOPs than
workers, and both ends of the input. More frames, tiles and workers at once are
beyond five minutes; that is what proofs are for.

In the code the channel of sub-GOPs holds twice the look-ahead distance and that
of frames four look-aheads; the model gives them room for two and one, so that
they are full within seven frames. `KeyframeLookaheadDistance` is two at least;
`Pyramid = 2` is the smallest pyramid's.

`MaxUnits`, `MaxPacket`, `MaxFlushes`, `MaxCopies`, `MaxFrames`, `mayFail`, `flushes`,
`Pictures`, `Tasks`, `drains`, `frames` and `cuts` are the bounds; they appear only
in guards. `CHECK_DEADLOCK FALSE` is in every configuration, because each model
stops when its input has run out. The workers of `frame_tasks` and `task_queue`,
which check safety, are symmetric; the runs that check liveness use no symmetry.

### Fairness

* `FilmGrain`: weak fairness of the caller and of each worker, whose steps are
  code that runs to the next blocking operation. It is enough for the lock too:
  the work that others can do with it is finite. A worker parked on `ttd.cond`
  and the caller in `delayed_fg_cond.wait` have no step of their own: they go on
  only after a notification.
* `FrameThreads`: the code within a call keeps going; a frame that is being
  decoded ends while `ordered` holds (`FramesEnd`, given that no worker sleeps on
  what it could do, which is `NoTaskMissed` and needs that order); and for `EverythingOut` the client keeps
  calling `dav1d_get_picture` (strong fairness, because a call can only start
  when the one before has returned). `Send` and `Flush` are not fair: a client
  may stop.
* `FrameTasks`: each worker keeps going while it can do anything, and a caller
  that waits is woken when what it waits for holds; both notify under
  `ttd.lock`. No fairness of `Submit` or `Flush`.
* `TaskQueue` states no fairness: that nothing is overlooked is a property of the
  states in which every worker sleeps, where only the caller can go on.
* `EncoderQueue`: the client goes on asking for packets. Sending and flushing are
  not fair.
* `GopChannel`: the thread pool starts jobs when it has a thread, and each job
  keeps going. An encoder need not make a packet before it is flushed, and the
  caller need not send or close.

## 4. The proofs

TLAPS checks every obligation of the eight `...Proof` modules. They assume what
the modules' `ASSUME`s say of the constants and nothing else: in `FilmGrain` a
finite set of workers that are not the caller; at least one frame context, one
worker, room for one element in a channel; in `TaskQueue` two frame contexts, as
with one there are no frames to search among, and a row in a frame; in
`FrameTasks` that every setup has the shape `SetupType` says, which is what
`parse_tiling` and `rav1d_open` make (rows of tiles from 0 on, each with a
superblock row, one frame context when there is one pass, references that reach
into the picture); in `EncoderQueue` a depth of the pyramid that the encoder has,
a look-ahead and a key frame interval of at least one, a first pass that coded a
frame if there was one (`rate.rs:373`), and no switch frames with re-ordering;
natural numbers as bounds. There is no bound on workers, threads, rows, tiles,
pictures, frame contexts, units, frames or flushes, and any frame may be
malformed.

**FilmGrainProof.** `GrainComplete`, `RowsDisjoint`, `GuardsCompatible`,
`CompletionHeard` and `ExecMeansWork` (that `delayed_fg_exec` is set only while
there is work, part of theorem `Handshake`) follow from `IInv`. None is inductive
alone: that the caller is woken only when all rows are done rests on what the
two counters count. `CountInv` says that `progress[0]`, the rows handed out, is
`progress[1]`, the hand-outs accounted for, plus the number of workers that owe
one (`Owing`), plus those between the two increments of one row (`Between`).
`RowAccount` says that each row handed out is applied or claimed by somebody,
and `DoneInv` that a worker that leaves has seen a value the second counter
had. A worker that reads `done >= progress[0]` therefore knows that nobody owes
a row, whatever has happened between its two reads. The proof has one step for
each action and under it one for each conjunct, and uses the library's facts on
the cardinality of finite sets for the counters.

**FrameThreadsProof.** Nothing here needs the frames to be in the order of the search:
safety does not depend on which frame is searched first. `IInv` adds to the properties that the ring is sorted
from `next` on (`RingInv`, by `Pos`), that `out` is older than the ring
(`OutInv`) and what the client has older than both (`OutputsInv`), that a frame
being decoded is in the slot that decodes it (`WorkInv`) and that a unit shows
itself or an older unit (`PicsInv`). Order of output, nothing lost, output
decoded and errors kept follow. `Implements` proves `Spec => QueueSpec`: each
action maps to a step of `OutputQueue` or a stutter. The sortedness of the ring
is what makes the picture that leaves it the oldest of the queue.

**FrameTasksProof.** What a worker does to a frame is counted in *units*: a tile or
a row of a pass (`AllUnits`). A queued task stands for units (`Units`): one that
starts a frame for all of them, the first row of a chain for the rows behind it
too. A worker has units as well (`Mine`). `CounterExact` says that `task_counter`
is the number of units in somebody's hands (`ToDo`) and that no unit is in two.
It is not inductive. That a row of a chain is not put in the queue twice, and
that a worker that runs one does not have those behind it, needs to know which
fields a task of each type has and where a worker may be with it (`TasksOK`);
that the chain is started anew at the right row of tiles needs `ChainOK`. Leaving
a frame needs more than a counter that is zero: `Complete` asks for `done` too,
and the frame would be left never, or a pass early, if `done` were not set by
the last row. `RowsOK` ties the bitmap of rows and `done` to the rows that are
still open; a worker that has set the last bit but not `done` is `Publishing`.
Then the worker that brings the counter to zero is alone in the frame, and
`Clean` follows (`LeftBehind`). All steps are instances of one pattern, `Exchange`:
units change hands within one frame, some are lost because they are done, the
counter goes down by as many, and the lemmas on it are used by every action.
An error changes none of this, as the code means it to.

**FrameTasksRowsProof.** `RInv` adds four parts. `TileOK`: a tile's progress is
where its task is, or an error, and then the frame has one. `PastOK`: a row that
is out of its chain, with a worker or in the queue again, has its tiles past it;
it is `ChainOK` with `RowTiles` of the search that make this so when the row is
taken. `FiltOK`: `deblock` and `copyLpf` against the rows that wait or run, whence
the order of the filters. `PicOK`: the bits of a frame are the filtered rows of
its picture, and its progress is complete when its second pass is done. A row's
bit goes with its filtering, but the progress of a picture is computed by a
worker that looks at the bits of all (`FromTop`, an induction on rows by the
least counterexample), so honest progress (`Honest`) is inductive although
workers publish in any order.

The second half of the module is about other frames. `EInv` adds what one frame knows of another. `EntropyOK`:
the progress of the first pass is published by whichever worker has the row, one
at a time, and `f.entropy` is the row it has. `ParsedOK`: the second pass is
behind the first, tile by tile. `RefOK`: a worker at a row of the second pass has
found the rows of the reference, and as rows are only ever added to a picture
(`PicStep`) they are still there when it reads them, whatever the frame it refers
to has done since; if that failed meanwhile, what was there stays. `StatusOK` and
`Ended`: a picture is damaged only if its frame has an error, and a frame that
ends without one has both passes complete. `RefRowsThere` does not follow from
the progress alone, since progress is an error for a reference that failed: the
worker's frame must have one as well, and `TileError` sees to that when the row is
taken. The action properties, that published progress does not go back and that
the picture of a frame that has ended never changes, are proved with the
invariant: `GoesWell` is the step of all three.

**TaskQueueProof.** `NoTaskMissed` says that no wakeup is lost: the workers do not
all sleep while a frame is unfinished. `DrainReturns` is then that a draining call
never waits for a frame that nobody works on. A client that brings the frames out of
order breaks both (section 5). `NoTaskMissed` and `CursorSound` have the premise `ordered`, and are
proved for every client: they are all that the workers need of the caller. That the
order is kept (`OrderIsKept`), and with it `DrainReturns`, is proved under the
hypothesis `Orderly` on `Clients`: a client drains until EAGAIN and none of its frames
is rejected, or it does not drain, and does not flush if frames are rejected. Of the
clients of `task_queue` the first is of these, the second breaks the order in some
runs and keeps it in others, and that of `task_queue_hasty` breaks it; workers, frame
contexts, rows and frames are any number.

`IInv` says that `ordered` holds if `Orderly` does, and that `SearchInv` does as long as
`ordered` holds. `SearchInv` has six parts. `ShapeOK` and `LockOK` are types, and that
who searches holds the lock. `UnitsOK` is about a frame alone, whatever the search does: a task
is queued or in the hands of one worker, not in two places, the tasks that are
there fit how far the frame is (`Unit`), and some task is there as long as the
frame is unfinished, the next tile or the row of deblocking that `deblock` stands
at (`Whole`); the counter is what is left. So the oldest frame, which waits for no
other, always has a task that is ready or in somebody's hands. `RingOK`: the search
goes through the frames in the order they were submitted (`OldestFirst`, of which
`ordered` is the history), and for an `Orderly` client why: the slots that hold
something are the first ones from `first` on, and the caller stands behind them, or in
a drain has so many left that it comes back to `first` (`TidyIn`). The other clients
break that. `SearchOK` is the cursor: a task of the
oldest frame that is ready and behind it has a worker on its way to take the
cursor back, one between `deblock` and `Leave` (`Post`), or is due to be when the
pending tasks of that frame are merged (`Old`); and where a `cur_prev` is left in
a frame that the cursor has yet to come to, an unfinished frame lies before that
one (`Skew`), so that it is never the oldest. `SleepOK`: whoever makes something
to do is awake itself and searches before it parks, so that a signal missed
between the search and `cond_signaled = 0` costs nothing; and when all sleep the
cursor is past the last frame. When all sleep, then, no task of the oldest frame
is pending and no worker on its way, so a ready task would be before a cursor that
is at the end; but the oldest frame has one (`QuietMeansDone`).

`CursorSound` is about the oldest frame because of what the proof showed: for a
later frame it is false. `merge_pending_frame` inside the scan of a frame can move
the cursor back to an earlier one, for a mark in `reset_task_cur` whose worker has
already left (a second worker had taken it out with its swap and puts it back);
the scan still goes on in the frame it was in and sets its `cur_prev`, which no
later `reset_task_cur` undoes while the cursor is before that frame. A task of it
that becomes ready meanwhile is passed over. A schedule has five workers, two frames and
five rows, more than TLC can go through; TLC followed the one schedule and found
the ready task behind the cursor with a worker asleep. The task waits until a row
of its own or of an earlier frame ends after the cursor has passed it, so that
this costs time and no frame (`NoTaskMissed` is proved all the same).

**EncoderQueueProof, the schedule.** `ScheduleShowsAll` is about a pure algorithm,
`build_schedule`, for each of the depths that the encoder has: its schedule codes
each frame of a group once and shows each once, in order; what is shown after it
was coded was coded hidden before; and nothing that comes behind a frame that is
shown is before it. Its `debug_assert_eq!(disp, n + 1)` is part of that. As
induction over data is not to be had, the recursions are functions of a number of
steps, which exist (`Recursion`) and keep what each step keeps, both by the least
counterexample: `subdivide` lists the numbers between its bounds (`Listing`), and
each frame adds to the schedule itself and the frames that were waiting for it
(`Follows`), which keeps `Schedules`. `ScheduleSpaced` is why the slots of the
reference buffer suffice: a slot belongs to a level of the pyramid (those of level 0
take turns), and a frame that is coded finds all that were coded before at its level
shown. That is true of each of the orders that `subdivide` makes (`Layered`): a frame
comes behind the frames of the levels above that are next to it, so between two of
one level lies one that has to come first, and when the second of the two is coded
everything up to there is out.

**EncoderQueueProof, the queue.** A call of the encoder is a chain of functions, so the
invariant is one of the record they change, `CtxOK`, and each of them has lemmas
saying what it keeps. The loop of `compute_frame_invariants` is a function of its
rounds (`LoopExists`, `LoopKeeps`, by the least round that would break something).
A round makes one output frame, a skipped one, a key frame, or one of the group,
or ends the loop (`RoundOK`). `QueueOK` is how far key frames are decided, which
the look-ahead of key frames makes equal to how much is in the queue; it is why no
frame of a group lies behind a key frame that is decided later. `DataOK` is what
the collector has left, `GroupOK` the input frame that each output frame stands
for: before the start of the last group, its key frame, or where the schedule puts
it. From `GroupOK` comes `OrderOK`, that behind a frame that is shown come only
later ones; within a group that is `ScheduleShowsAll`. `garbage_collect` drops
input frames up to that of a packet, so `SourceThere`, that frames to be coded
still have their source, rests on `OrderOK`, and with it `LookbackThere`.
`CodedAhead` says that the collector never reaches the last frame that is coded,
whose data `get_previous_fi` and `get_previous_coded_fi` unwrap: before the flush
the look-ahead is never exhausted (the caller is asked for more). `RefsOK` and
`SyncOK` are the reference buffers: those of all frames up to the next one that is
coded hold what the decoder holds, and others hold sources, or reconstructions of
frames before them. `InSync` is `SyncOK` for the frame that is next; alone it is
not inductive, as the buffer is copied long before, from a frame that is not
encoded yet, and has to be overwritten through every show-existing frame in
between.

**EncoderOrderProof.** What comes out needs what nothing above says: that no frame is
left out, and that what is shown from a slot is the right picture. `FInv` adds four
parts. `CoverOK`: each input frame that the schedule has come to and that is not out
yet is shown by a pending output frame; where a group is cut by a key frame, those
before it are, and none behind. It uses that behind a place of the schedule every
frame of the group is either shown already or comes later (`ScheduleShowsAll`).
`StockOK`: such a frame still has its source and what was sent along. `AllOK`: after
the flush all frames are scheduled. That needs the loop of
`compute_frame_invariants` to have ended for want of frames and not for want of
rounds, the one bound in the model: `BoundOK` bounds the output frames by the input
frames and the places of a group, and `RoundsEnough` adds it up. `ShowOK`: for every
pending show-existing frame, and for those that the schedule will add, the last
pending frame that is coded to its slot is the one to be shown, or there is none and
the decoder has it (`Holds`); with `ScheduleSpaced`, a frame that is put behind the
others and takes a slot does not disturb this. Encoding takes the first of the pending
frames away and puts it into the decoder's slots, which moves it from one half of
`Holds` to the other (`LaterShow`, `EncodedBehind`).
`ContractKept` then reads off the actions: when the look-ahead is full or after the
flush something is pending, and if `frames_processed` is short of the limit something
is to be shown. `OrderKept` proves `Spec => OrderSpec`: a packet, coded or shown again,
is of the next frame in display order, since all that are shown behind it are later
(`OrderOK`) and none is left out (`CoverOK`), and carries that frame's picture
(`ShowOK`) and that frame's opaque data (`StockOK`).

**GopChannelProof.** `IInv` says where each frame is. `PipeInv` claims one
function `s` from GOPs to the frames they start at: GOP `g` has the frames from
`s[g]` to `s[g + 1]`, the first of them coded (`frames`), the rest a chain of
sub-GOPs that are with the worker (`Chain`); behind the last GOP another chain,
through the channel and the sub-GOP the splitter holds, goes to `cut`; and what
came out is the GOPs before `last` and what is read of that one. Each sub-GOP
says whether the next frame starts a GOP, and `EdgeInv` what that means while
the dispatcher waits for a worker: where the last GOP ends there is a scene or
the end of the input. `SplitInv` ties the splitter's counters together: what it
has cut off and looked at is what the detector was told of. `EndInv` is the
order in which the jobs end, `ReadInv` that GOPs are announced in order and that
those before `last` are read to the end, `WorkerInv` that a worker is free,
told, or busy, once. `GopsAsDetected` needs `PipeInv` as a GOP's start is known
to the splitter long before its frames reach a worker; `Implements` needs it as
the next packet is the next frame only if no frame was left between two GOPs,
and the end comes behind the last packet only if no GOP is under way when the
reassembler finds its channel closed.

**Only model-checked.**

* All liveness (`GrainReturns`, `EverythingOut`, `CallsReturn`, `FramesEnd`,
  `CallerReturns`, both `Drains`): with `ENABLED`, beyond the prover.
* `StreamIsCanonical` of `EncoderQueue` compares the stream with a recursion over
  the input, an induction over data. What it says of frames that are shown, `OrderKept`
  proves; what is left to TLC is the order of coding, what each frame is predicted
  from, and that a key frame that was asked for is one.

## 5. Where the code and its documents disagree

* **`drain_complete`.** `dav1d.h:189` says that buffered frames are drained by
  calling `dav1d_get_picture` until it returns `EAGAIN`. `drain_picture` stops
  at the first empty slot after one that held something (`lib.rs:583`). A client
  that drains between two packets leaves holes in the ring; with a hidden or
  failed frame before such a hole, `EAGAIN` comes while a visible picture is
  still inside. It does come out when the client asks again (`EverythingOut`). The C code the crate is ported from has the same loop.
* **`single_frame_panic`.** With one frame context, `rav1d_decode_frame` ends in
  `rav1d_decode_frame_exit`, which takes `f.frame_hdr`; if decoding failed,
  `on_error` then unwraps it (`decode.rs:4908`) and panics, where `dav1d.h:169`
  promises an error code. In the model the call ends in `pc = "panic"`.

* **`encoder_t35`.** `build_frame_properties` takes a frame's T.35 metadata out of
  `t35_q` for the frame that the schedule names (`api/internal.rs:621`), before it
  decides whether that frame is coded; a frame coded hidden drops what it was
  given, and its show-existing frame comes away empty. With re-ordering on, most
  frames lose their metadata, and a key frame that ends a group gets another's.
* **`task_queue_hasty`.** `rav1d_submit_frame` moves `ttd.first` on only if the slot
  it takes held something (`decode.rs:4857`). A slot that a draining
  `dav1d_get_picture` has emptied holds nothing, so after two frames were sent,
  one taken out and two more sent, the search comes to the fourth frame before
  the third, on which it depends. It passes over a task of the fourth;
  `reset_task_cur` moves back only as far as the third when that one makes
  progress, and the workers all park with a task that is ready. A draining call
  then waits for ever; a further frame would set things going. A client that
  drains until `EAGAIN` is safe (`NoTaskMissed` holds), as is one that never
  drains before the end. The C code has the same condition.

Met on the way, without a run of their own:

* `gen_picture` puts back the whole of the input when an error comes together
  with a picture that is ready, and so parses the failing OBU again, where the C
  code drops it.
* When a slot's old frame failed and the new frame is rejected in the same call,
  the error of the former is reported with the props of the latter
  (`decode.rs:4878`, against `dav1d.h:297`).
* `on_error` leaves `error` set in a slot and a flush does not clear it, so that
  `ttd.first` moves once too often afterwards. With frames that are rejected this
  has the effect of `task_queue_hasty` for a client that flushes or drains: with two
  frame contexts, after a rejected frame and a flush, two frames lie in the ring in
  the wrong order. `frame_threads` reaches this, and `EverythingOut` and
  `CallsReturn` promise nothing from there on (`~ordered`).
* Between the search of `park` and `cond_signaled = 0` a signal can be missed by
  one worker, which costs parallelism and no task, because whoever signals
  searches too before it parks (`NoTaskMissed`).
* `new_by_gop_channel` (`by_gop.rs:360`) spawns blocking jobs into the pool whatever
  its size: with as many threads as slots the workers hold them all once the
  splitter has ended, the dispatcher never starts, and nothing comes out. `Drains`
  has the condition `EnoughThreads`, two threads more than slots, for that reason;
  TLC refutes it without.
* A first pass of exactly one frame makes `channel/mod.rs` reach an `unreachable!()`
  (line 323), which a comment above (line 310) excludes: the limit is then one before
  the first frame is sent, `needs_more_fi_lookahead` is false at once, and
  `receive_packet` says `NeedMoreData`. `Contract` makes an exception for it, and
  `encoder_queue` has a setup where it happens.

## 6. What is not modelled

* **OBU parsing, tile decoding, pixel kernels** are sequential functions of data;
  the models say what they read and publish. They are most of the repository's
  lines, and nothing of them waits, fails halfway or meets another thread other
  than through what `FrameTasks` models.
* **Reference counts and pools** are memory management that Rust's types carry.
* **Rate control**: its handshake over two passes (`twopass_in`, `twopass_out`,
  `ready`) and its ring of frame metrics are a protocol and would be the next
  module; its estimators are arithmetic on reals.
* **The range coder** keeps carries in 16-bit words until `done`, so that a
  checkpoint is a copy of a few fields.
* **Frame encoding and RDO**: search over pixels; tiles by fork and join.
* **Channels of one thread** (`channel/mod.rs`): a loop over the calls of
  `EncoderQueue`, whose return values it relies on (`Contract`).
* Tools, wrappers, muxing and header writing are I/O.

`PROJECT.json` lists each part with its reason, and under "hazards" what no
property covers yet.

## 7. Plan

Done, in this order: `FilmGrain` (smallest, and the most delicate interleaving),
`FrameThreads` over `OutputQueue`, `FrameTasks`; then `EncoderQueue` over
`GroupSchedule`, `GopChannel` and its proofs, both over `DisplayOrder`, and
`TaskQueue`; then the proofs of `FrameTasks`, of `EncoderQueue`, whose loop was
written as a function for them, from the schedule to `OrderSpec`, and of `TaskQueue`.

1. **`TwoPass`**: the handshake of `rate.rs` and its ring of metrics.
