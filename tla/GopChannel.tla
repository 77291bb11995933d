----------------------------- MODULE GopChannel -----------------------------
(***************************************************************************)
(* The encoder channel that codes several groups of pictures at once       *)
(* (rusty_av1e, api/channel/by_gop.rs).  A splitter cuts the input where   *)
(* the scene change detector says, a dispatcher gives each GOP to a free   *)
(* worker, a worker codes it with an encoder of its own, and a reassembler *)
(* puts the packets of the GOPs one behind the other.  They talk over      *)
(* channels and run as jobs of one thread pool, which starts them in the   *)
(* order in which they were spawned and never takes a thread from a job    *)
(* that is blocked.                                                        *)
(*                                                                         *)
(* Frames are numbered as they are sent.  The encoder of a worker is what  *)
(* DisplayOrder says of it: a packet for each frame, in order, at any time *)
(* after the frame came and at the latest after the flush.                 *)
(***************************************************************************)
EXTENDS Integers, Sequences, FiniteSets

CONSTANTS
  Slots,      \* workers
  Pools,      \* numbers of threads that the pool may have
  Pyramid,    \* keyframe_lookahead_distance
  InputLen,   \* capacity of the channel of frames
  SubGopsLen, \* capacity of the channel of sub-GOPs
  MaxFrames   \* bound: frames sent

ASSUME SlotsAssumption == Slots \in Nat \ {0} /\ Pools \subseteq Nat \ {0}
ASSUME LengthsAssumption ==
  Pyramid \in Nat /\ InputLen \in Nat \ {0} /\ SubGopsLen \in Nat \ {0} /\ MaxFrames \in Nat

VARIABLES
  sent, closed,   \* the caller: frames sent, the sender dropped
  taken, cut,     \* the splitter: frames received, and how many of them cut off;
  scanned,        \* frames of the look-ahead that went through the detector,
  processed,      \* and frames that did in all;
  held,           \* a sub-GOP to send
  scenes,         \* where the detector saw a new scene
  subgops,        \* channel from the splitter to the dispatcher
  needs,          \* the dispatcher waits for a worker
  idle,           \* channel of free workers
  gops,           \* for each GOP its frames, and how far they are
  announced,      \* channel of GOPs to the reassembler
  workload, work, \* for each worker its channel, and the GOP it codes
  pending, last,  \* the reassembler: GOPs it knows, and the one it is at;
  out,            \* packets sent
  threads,        \* threads of the pool
  started, ended  \* jobs

splitter == <<taken, cut, scanned, processed, held, scenes>>
jobs == <<threads, started, ended>>
dispatch == <<needs, idle, announced>>
pool == <<gops, workload, work>>
reassembler == <<pending, last, out>>
vars == <<sent, closed, splitter, subgops, dispatch, pool, reassembler, jobs>>

Workers == 1 .. Slots
Distance == Pyramid + 1 + 1

\* The jobs, numbered in the order in which they are spawned.
Splitter == 0
Dispatcher == Slots + 1
Reassembler == Slots + 2

Running(j) == j < started /\ j \notin ended

Ends(j) == ended' = ended \cup {j} /\ UNCHANGED <<threads, started>>

Init ==
  /\ sent = 0 /\ closed = FALSE
  /\ taken = 0 /\ cut = 0 /\ scanned = 0 /\ processed = 0 /\ held = <<>> /\ scenes = {}
  /\ subgops = <<>> /\ needs = TRUE /\ idle = [w \in Workers |-> w]
  /\ gops = <<>> /\ announced = <<>>
  /\ workload = [w \in Workers |-> <<>>] /\ work = [w \in Workers |-> 0]
  /\ pending = {} /\ last = 1 /\ out = <<>>
  /\ threads \in Pools /\ started = 0 /\ ended = {}

\* The pool has a thread for the next job.
StartJob ==
  /\ started <= Reassembler /\ started - Cardinality(ended) < threads
  /\ started' = started + 1
  /\ UNCHANGED <<sent, closed, splitter, subgops, dispatch, pool, reassembler, threads, ended>>

-----------------------------------------------------------------------------
(* The caller. *)

Send ==
  /\ ~closed /\ sent < MaxFrames /\ sent - taken < InputLen
  /\ sent' = sent + 1
  /\ UNCHANGED <<closed, splitter, subgops, dispatch, pool, reassembler, jobs>>

Close ==
  /\ ~closed /\ closed' = TRUE
  /\ UNCHANGED <<sent, splitter, subgops, dispatch, pool, reassembler, jobs>>

-----------------------------------------------------------------------------
(* The splitter: its look-ahead holds the frames from cut to taken. *)

Interval(a, b) == [n \in 1 .. b - a |-> a + n - 1]

CutOff(n, end, rest) ==
  /\ held' = <<[frames |-> Interval(cut, cut + n), endGop |-> end]>>
  /\ cut' = cut + n /\ scanned' = rest

\* Mutant: the frame that starts a GOP counts as one that was looked at.
SplitAhead(newGop) ==
  /\ processed' = processed + 1
  /\ scenes' = IF newGop THEN scenes \cup {processed'} ELSE scenes
  /\ IF scanned > Pyramid THEN CutOff(Pyramid + 2, newGop, scanned - (Pyramid + 1))
     ELSE IF newGop THEN CutOff(scanned + 1, TRUE, 1)
     ELSE scanned' = scanned + 1 /\ UNCHANGED <<held, cut>>

\* The detector looks at the frame behind those it has seen, of which it is
\* told the number: newGop if that one starts a GOP.
Split(newGop) ==
  /\ processed' = processed + 1
  /\ scenes' = IF newGop THEN scenes \cup {processed'} ELSE scenes
  /\ IF scanned > Pyramid THEN CutOff(Pyramid + 2, newGop, scanned - (Pyramid + 1))
     ELSE IF newGop THEN CutOff(scanned + 1, TRUE, 0)
     ELSE scanned' = scanned + 1 /\ UNCHANGED <<held, cut>>

\* The caller sends frames only, and drops its sender to flush (by_gop.rs:331): a None,
\* which FrameSender::send takes too, would make frame.unwrap() panic, and with it the
\* process.  What is sent with a frame, _params, is dropped here.
TakeFrame ==
  /\ Running(Splitter) /\ held = <<>> /\ taken < sent
  /\ taken' = taken + 1
  /\ IF taken + 1 - cut < Distance THEN UNCHANGED <<cut, scanned, processed, held, scenes>>
     ELSE \E newGop \in BOOLEAN : Split(newGop)
  /\ UNCHANGED <<sent, closed, subgops, dispatch, pool, reassembler, jobs>>

InputOver == Running(Splitter) /\ held = <<>> /\ closed /\ taken = sent

SplitRest ==
  /\ InputOver /\ taken - cut > Distance
  /\ \E newGop \in BOOLEAN : Split(newGop)
  /\ UNCHANGED <<sent, closed, taken, subgops, dispatch, pool, reassembler, jobs>>

CutRest ==
  /\ InputOver /\ taken - cut \in 1 .. Distance
  /\ CutOff(taken - cut, TRUE, scanned)
  /\ UNCHANGED <<sent, closed, taken, processed, scenes, subgops, dispatch, pool>>
  /\ UNCHANGED <<reassembler, jobs>>

\* Mutant: an unbounded channel.
SendSubGopAlways ==
  /\ held /= <<>>
  /\ subgops' = subgops \o held /\ held' = <<>>
  /\ UNCHANGED <<sent, closed, taken, cut, scanned, processed, scenes, dispatch, pool>>
  /\ UNCHANGED <<reassembler, jobs>>

SendSubGop ==
  /\ held /= <<>> /\ Len(subgops) < SubGopsLen
  /\ subgops' = subgops \o held /\ held' = <<>>
  /\ UNCHANGED <<sent, closed, taken, cut, scanned, processed, scenes, dispatch, pool>>
  /\ UNCHANGED <<reassembler, jobs>>

EndSplitter ==
  /\ InputOver /\ taken = cut
  /\ Ends(Splitter)
  /\ UNCHANGED <<sent, closed, splitter, subgops, dispatch, pool, reassembler>>

-----------------------------------------------------------------------------
(* The dispatcher: sg_send is the sender of the newest GOP. *)

NewGop == [frames |-> <<>>, subs |-> <<>>, open |-> TRUE, made |-> 0, read |-> 0, done |-> FALSE]

\* Mutant: the sender is kept.
NotDropped(gs) == gs

\* Dropping the sender of its sub-GOPs is the end of a GOP for the worker.
Dropped(gs) == IF gs = <<>> THEN gs ELSE [gs EXCEPT ![Len(gs)].open = FALSE]

\* The new worker is there before the old sender is dropped.
GetWorker ==
  LET w == Head(idle) new == Len(gops) + 1
  IN /\ Running(Dispatcher) /\ needs /\ idle /= <<>>
     /\ idle' = Tail(idle) /\ announced' = Append(announced, new)
     /\ workload' = [workload EXCEPT ![w] = Append(@, new)]
     /\ gops' = Append(Dropped(gops), NewGop)
     /\ needs' = FALSE
     /\ UNCHANGED <<sent, closed, splitter, subgops, work, reassembler, jobs>>

Forward ==
  /\ Running(Dispatcher) /\ ~needs /\ subgops /= <<>>
  /\ subgops' = Tail(subgops) /\ needs' = Head(subgops).endGop
  /\ gops' = [gops EXCEPT ![Len(gops)].subs = Append(@, Head(subgops))]
  /\ UNCHANGED <<sent, closed, splitter, idle, announced, workload, work, reassembler, jobs>>

EndDispatcher ==
  /\ Running(Dispatcher) /\ ~needs /\ subgops = <<>> /\ Splitter \in ended
  /\ gops' = Dropped(gops)
  /\ Ends(Dispatcher)
  /\ UNCHANGED <<sent, closed, splitter, subgops, dispatch, workload, work, reassembler>>

-----------------------------------------------------------------------------
(* The workers. *)

TakeWorkload(w) ==
  /\ Running(w) /\ work[w] = 0 /\ workload[w] /= <<>>
  /\ workload' = [workload EXCEPT ![w] = Tail(@)]
  /\ IF Head(workload[w]) = 0 THEN Ends(w) /\ UNCHANGED work
     ELSE work' = [work EXCEPT ![w] = Head(workload[w])] /\ UNCHANGED jobs
  /\ UNCHANGED <<sent, closed, splitter, subgops, dispatch, gops, reassembler>>

TakeSubGop(w) ==
  LET g == gops[work[w]]
  IN /\ work[w] /= 0 /\ g.subs /= <<>>
     /\ gops' = [gops EXCEPT ![work[w]].subs = Tail(@),
                             ![work[w]].frames = @ \o Head(g.subs).frames]
     /\ UNCHANGED <<sent, closed, splitter, subgops, dispatch, workload, work, reassembler, jobs>>

Flushing(w) == work[w] /= 0 /\ ~gops[work[w]].open /\ gops[work[w]].subs = <<>>

EncodePacket(w) ==
  /\ work[w] /= 0 /\ gops[work[w]].made < Len(gops[work[w]].frames)
  /\ gops' = [gops EXCEPT ![work[w]].made = @ + 1]
  /\ UNCHANGED <<sent, closed, splitter, subgops, dispatch, workload, work, reassembler, jobs>>

\* The worker is free again, and the sender of its packets is dropped.
EndGop(w) ==
  /\ Flushing(w) /\ gops[work[w]].made = Len(gops[work[w]].frames)
  /\ gops' = [gops EXCEPT ![work[w]].done = TRUE]
  /\ idle' = Append(idle, w)
  /\ work' = [work EXCEPT ![w] = 0]
  /\ UNCHANGED <<sent, closed, splitter, subgops, needs, announced, workload, reassembler, jobs>>

Worker(w) == TakeWorkload(w) \/ TakeSubGop(w) \/ EncodePacket(w) \/ EndGop(w)

-----------------------------------------------------------------------------
(* The reassembler. *)

TakeAnnounced ==
  /\ Running(Reassembler) /\ last \notin pending /\ announced /= <<>>
  /\ announced' = Tail(announced) /\ pending' = pending \cup {Head(announced)}
  /\ UNCHANGED <<sent, closed, splitter, subgops, needs, idle, pool, last, out, jobs>>

ForwardPacket ==
  /\ last \in pending /\ gops[last].read < gops[last].made
  /\ gops' = [gops EXCEPT ![last].read = @ + 1]
  /\ out' = Append(out, gops[last].frames[gops[last].read + 1])
  /\ UNCHANGED <<sent, closed, splitter, subgops, dispatch, workload, work, pending, last, jobs>>

\* Mutant: an empty channel is taken for the end of the GOP.
NextGopEarly ==
  /\ last \in pending /\ gops[last].read = gops[last].made
  /\ last' = last + 1 /\ pending' = pending \ {last}
  /\ UNCHANGED <<sent, closed, splitter, subgops, dispatch, pool, out, jobs>>

NextGop ==
  /\ last \in pending /\ gops[last].done /\ gops[last].read = gops[last].made
  /\ last' = last + 1 /\ pending' = pending \ {last}
  /\ UNCHANGED <<sent, closed, splitter, subgops, dispatch, pool, out, jobs>>

Closing ==
  Running(Reassembler) /\ pending = {} /\ announced = <<>> /\ Dispatcher \in ended

\* pool.close(): each worker that comes back is told to end ...
CloseWorker ==
  /\ Closing /\ idle /= <<>>
  /\ idle' = Tail(idle) /\ workload' = [workload EXCEPT ![Head(idle)] = Append(@, 0)]
  /\ UNCHANGED <<sent, closed, splitter, subgops, needs, announced, gops, work, reassembler, jobs>>

\* ... until none is left, then the sender of the packets is dropped.
EndReassembler ==
  /\ Closing /\ idle = <<>> /\ Workers \subseteq ended
  /\ Ends(Reassembler)
  /\ UNCHANGED <<sent, closed, splitter, subgops, dispatch, pool, reassembler>>

-----------------------------------------------------------------------------

SplitterStep == TakeFrame \/ SplitRest \/ CutRest \/ SendSubGop \/ EndSplitter
DispatcherStep == GetWorker \/ Forward \/ EndDispatcher
ReassemblerStep == TakeAnnounced \/ ForwardPacket \/ NextGop \/ CloseWorker \/ EndReassembler

Next ==
  \/ Send \/ Close \/ StartJob \/ SplitterStep \/ DispatcherStep \/ ReassemblerStep
  \/ \E w \in Workers : Worker(w)

Spec == Init /\ [][Next]_vars

\* Threads run, and so do the jobs they run.  An encoder may keep frames back
\* for its look-ahead until it is flushed; the caller may send nothing more,
\* or never close.
FairSpec ==
  /\ Spec
  /\ WF_vars(StartJob) /\ WF_vars(SplitterStep)
  /\ WF_vars(DispatcherStep) /\ WF_vars(ReassemblerStep)
  /\ \A w \in Workers :
       /\ WF_vars(TakeWorkload(w) \/ TakeSubGop(w) \/ EndGop(w))
       /\ WF_vars(Flushing(w) /\ EncodePacket(w))

-----------------------------------------------------------------------------
(* Properties. *)

Frames == 0 .. MaxFrames - 1
SubGops == [frames : Seq(Frames), endGop : BOOLEAN]
Gops == [frames : Seq(Frames), subs : Seq(SubGops), open : BOOLEAN, made : Nat, read : Nat,
         done : BOOLEAN]

\* Every channel holds what it is for, and no more than it may; a GOP's
\* packets are read after they are made and made after its frames are there.
TypeOK ==
  /\ sent \in 0 .. MaxFrames /\ closed \in BOOLEAN
  /\ taken \in 0 .. sent /\ sent <= taken + InputLen /\ cut \in 0 .. taken
  /\ scanned \in 0 .. Pyramid + 1 /\ processed \in 0 .. taken
  /\ held \in Seq(SubGops) /\ Len(held) <= 1 /\ scenes \subseteq Frames
  /\ subgops \in Seq(SubGops) /\ Len(subgops) <= SubGopsLen
  /\ needs \in BOOLEAN /\ idle \in Seq(Workers) /\ Len(idle) <= Slots
  /\ gops \in Seq(Gops)
  /\ \A g \in DOMAIN gops : gops[g].made \in gops[g].read .. Len(gops[g].frames)
  /\ announced \in Seq(DOMAIN gops)
  /\ workload \in [Workers -> Seq({0} \cup DOMAIN gops)]
  /\ work \in [Workers -> {0} \cup DOMAIN gops]
  /\ pending \subseteq DOMAIN gops /\ last \in 1 .. Len(gops) + 1 /\ out \in Seq(Frames)
  /\ threads \in Pools /\ started \in 0 .. Slots + 3 /\ ended \subseteq 0 .. started - 1

\* A GOP starts where the detector saw a scene and nowhere else, although the
\* splitter learns of it a look-ahead later, cuts long GOPs into pieces and
\* counts the frames for the detector on its own.
GopsAsDetected ==
  \A g \in DOMAIN gops : \A n \in DOMAIN gops[g].frames :
    gops[g].frames[n] /= 0 => (gops[g].frames[n] \in scenes <=> n = 1)

\* Whatever order the workers finish in, packets come out in the order in
\* which their frames were sent, each once, and the channel of packets only
\* ends behind the last.
Queue == INSTANCE DisplayOrder WITH shown <- out, over <- Reassembler \in ended
OrderSpec == Queue!Spec

\* When the caller has dropped its sender, every job ends: nobody waits for a
\* job that has no thread, for a worker, or for a channel that nobody closes.
\* That takes two threads more than workers, which the code does not ask for:
\* the splitter and the workers keep theirs while they wait for the dispatcher.
EnoughThreads == threads >= Slots + 2
Drains == closed /\ EnoughThreads ~> Reassembler \in ended
=============================================================================
