---------------------------- MODULE EncoderQueue ----------------------------
(***************************************************************************)
(* The frame queue of the encoder (rusty_av1e, ContextInner in             *)
(* api/internal.rs) behind the calls of its Context: frames go in, key     *)
(* frames are placed, the frames of each group are scheduled ahead of      *)
(* their encoding, and packets come out.                                   *)
(*                                                                         *)
(* The state of ContextInner is the record ctx; the functions that the     *)
(* calls are made of are operators on it.  A frame is its number; its      *)
(* pixels, motion and rate are left out.  What the scene change detector   *)
(* finds is any choice.  A reference frame is the output frame it comes    *)
(* from, and whether it holds the reconstruction of that frame or, as in   *)
(* the look-ahead, its source.                                             *)
(***************************************************************************)
EXTENDS GroupSchedule, SequencesExt

CONSTANT
  Setups       \* configurations, with their bounds; an encoder has one

None == -1
RefSlots == 0 .. 7

ASSUME SetupAssumption ==
  \A s \in Setups :
       /\ s.depth \in Depths                \* inter_cfg.pyramid_depth
       /\ s.rdo \in Nat \ {0}               \* rdo_lookahead_frames
       /\ s.maxKey \in Nat \ {0}            \* max_key_frame_interval
       /\ s.switch \in Nat                  \* switch_frame_interval
       /\ s.switch > 0 => s.depth = 0
       /\ s.multiref \in BOOLEAN
       /\ s.limit \in (Nat \ {0}) \cup {None}   \* frames of the first pass, if known
       /\ s.frames \in Nat                  \* bound: frames sent
       /\ s.cuts \in Nat                    \* bound: key frames after the first

VARIABLES
  setup,     \* the configuration
  ctx,       \* ContextInner
  flushing,  \* Context::is_flushing
  ret,       \* what the last call returned
  ended,     \* whether LimitReached was returned
  packets,   \* the packets returned
  decoder,   \* the reference slots of a decoder that is fed the stream
  stream     \* what was coded or shown, and the frame it was predicted from

client == <<flushing, ret, ended>>
vars == <<setup, ctx, client, packets, decoder, stream>>

Reorder == setup.depth > 0
Multiref == Reorder \/ setup.multiref
Depth == setup.depth

Ref(output, source) == [output |-> output, source |-> source]
NoRef == Ref(None, FALSE)
NoRefs == [i \in RefSlots |-> NoRef]

\* The frame data of an output frame that is skipped.
Placeholder == [type |-> "skipped"]

InitCtx ==
  [count |-> 0, limit |-> setup.limit, output |-> 0, processed |-> 0,
   frames |-> {}, end |-> FALSE, data |-> <<>>, gopOutput |-> <<>>, gopInput |-> <<>>,
   keyframes |-> {0}, forced |-> {}, nextFrame |-> 1, nextOutput |-> 0,
   opaque |-> {}, t35 |-> {}]

Init ==
  /\ setup \in Setups
  /\ ctx = [InitCtx EXCEPT !.data = [n \in {} |-> Placeholder],
                           !.gopOutput = [n \in {} |-> 0], !.gopInput = [n \in {} |-> 0]]
  /\ flushing = FALSE
  /\ ret = "none"
  /\ ended = FALSE
  /\ packets = <<>>
  /\ stream = <<>>
  /\ decoder = [i \in RefSlots |-> [output |-> None, input |-> None]]

----------------------------------------------------------------------------
(* Look-ahead: how much is there, how much is needed. *)

NeedsMoreFrames(c, n) == c.limit = None \/ n < c.limit

\* The last key of frame_q: a flush leaves an entry without a frame.
LookaheadEnd(c) == Max({0} \cup c.frames \cup (IF c.end THEN {c.count} ELSE {}))

NeedsMoreFrameQLookahead(c, input) ==
  /\ LookaheadEnd(c) < input + KeyframeLookaheadDistance(Depth) + 1
  /\ NeedsMoreFrames(c, LookaheadEnd(c))

Skipped(c, n) == c.data[n].type = "skipped"
IsSef(c, n) == ~Skipped(c, n) /\ c.data[n].sef
IsCoded(c, n) == ~Skipped(c, n) /\ ~c.data[n].sef

\* Output frames that are still to be encoded, whether coded or not.
Pending(c) == {n \in DOMAIN c.data : n >= c.output /\ ~Skipped(c, n)}

\* Mutant: also when all frames are there.
NeedsMoreFiLookaheadAlways(c) == Cardinality({n \in Pending(c) : IsCoded(c, n)}) < setup.rdo + 1

NeedsMoreFiLookahead(c) ==
  /\ Cardinality({n \in Pending(c) : IsCoded(c, n)}) < setup.rdo + 1
  /\ NeedsMoreFrames(c, c.nextFrame)

NextKeyframeInput(c, gopStart) ==
  Min({k \in c.keyframes : k > gopStart} \cup {gopStart + setup.maxKey}
      \cup (IF c.limit = None THEN {} ELSE {c.limit}))

----------------------------------------------------------------------------
(* Scheduling *)

\* Earlier frames whose data is still there: get_previous_fi and
\* get_previous_coded_fi, both of which unwrap it.
PreviousFi(c, n) == {m \in DOMAIN c.data : m < n /\ ~Skipped(c, m)}
PreviousCodedFi(c, n) == {m \in PreviousFi(c, n) : IsCoded(c, m)}

KeyFi(input, t35) ==
  [type |-> "key", input |-> input, sef |-> FALSE, show |-> TRUE, hint |-> 0, level |-> 0,
   slot |-> 0, refs |-> <<>>, refresh |-> RefSlots, rec |-> NoRefs, look |-> NoRefs, t35 |-> t35]

\* new_inter_frame, for entry e of the schedule: the references are those of
\* the frame coded before.
InterFi(prev, e, hint, slot, switch, input, t35) ==
  [type |-> IF switch THEN "switch" ELSE "inter",
   input |-> input, sef |-> e.sef, show |-> e.shown, hint |-> hint, level |-> e.level,
   slot |-> slot,
   refs |-> RefFrames(Depth, e.level, hint, slot, Multiref),
   refresh |-> IF switch THEN RefSlots ELSE IF e.sef THEN {} ELSE {slot},
   rec |-> prev.rec, look |-> IF e.sef THEN NoRefs ELSE prev.look,
   t35 |-> IF e.shown THEN t35 ELSE None]

Switches(inGop, e) == setup.switch > 0 /\ inGop % setup.switch = 0 /\ e.level = 0

EntryFi(prev, e, hint, inGop, input, t35) ==
  InterFi(prev, e, hint, SlotIdx(Depth, e.level, hint), Switches(inGop, e), input, t35)

Insert(f, n, v) == [m \in DOMAIN f \cup {n} |-> IF m = n THEN v ELSE f[m]]

NoData(c) == [ok |-> FALSE, c |-> c]
Built(c, n, fi) == [ok |-> TRUE, c |-> [c EXCEPT !.data = Insert(@, n, fi)]]
StartGop(c, n, input) == [c EXCEPT !.gopOutput[n] = n, !.gopInput[n] = input]

\* build_frame_properties, from where the type of the frame is known.
BuildTyped(c, n, inGop, input, t35) ==
  Built(c, n,
        IF inGop = 0 THEN KeyFi(c.gopInput[n], t35)
        ELSE EntryFi(c.data[Max(PreviousCodedFi(c, n))], EntryAt(Depth, inGop),
                     OrderHint(Depth, inGop), inGop, input, t35))

TypeFrame(c, n, input, t35) == BuildTyped(c, n, n - c.gopOutput[n], input, t35)

\* ... from where the input frame is known.
BuildFrame(c, n, input, t35) ==
  IF input \notin c.frames THEN NoData(c)
  ELSE TypeFrame(IF input \in c.keyframes THEN StartGop(c, n, input) ELSE c, n, input, t35)

\* The group of pictures ends in the place of a frame that it does not have.
EndsGop(c, n, inGop, nextKey) ==
  \/ ~Reorder
  \/ /\ IdxInGroupOutput(Depth, inGop) = 0
     /\ c.data[Max(PreviousFi(c, n))].input = nextKey - 1

\* ... from where the next key frame is known.
BuildInGop(c, n, inGop, input, nextKey, t35) ==
  IF inGop = 0 \/ input < nextKey THEN BuildFrame(c, n, input, t35)
  ELSE IF ~EndsGop(c, n, inGop, nextKey) THEN Built(c, n, Placeholder)
  ELSE IF nextKey \notin c.frames THEN NoData(c)
  ELSE BuildFrame(StartGop(c, n, nextKey), n, nextKey, t35)

BuildNamed(c, n, inGop, input) ==
  IF NeedsMoreFrameQLookahead(c, input) THEN NoData(c)
  ELSE BuildInGop([c EXCEPT !.t35 = @ \ {input}], n, inGop, input,
                  NextKeyframeInput(c, c.gopInput[n]), IF input \in c.t35 THEN input ELSE None)

BuildAt(c, n, inGop) == BuildNamed(c, n, inGop, InputFrameno(Depth, inGop, c.gopInput[n]))

\* build_frame_properties and set_frame_properties: the next output frame,
\* which inherits the group of pictures of the one before.
SetFrameProperties(c, n) ==
  LET Inherit(f) == Insert(f, n, IF n = 0 THEN 0 ELSE f[n - 1])
      InGop(d) == BuildAt(d, n, n - d.gopOutput[n])
  IN InGop([c EXCEPT !.gopOutput = Inherit(@), !.gopInput = Inherit(@)])

\* compute_lookahead_motion_vectors: the source of the frame becomes the
\* reference of the look-ahead; only the frame to be encoded next keeps its
\* real references.
LookAhead(c, n) ==
  LET fi == c.data[n]
      look == [i \in RefSlots |-> IF i \in fi.refresh THEN Ref(n, TRUE) ELSE fi.look[i]]
      rec == IF c.output = n THEN fi.rec ELSE fi.look
  IN IF ~IsCoded(c, n) THEN c
     ELSE [c EXCEPT !.data[n].look = look, !.data[n].rec = rec]

\* One frame of compute_frame_invariants, until there is no next.
Schedule(set, n) ==
  IF set.ok THEN [ok |-> TRUE, c |-> [LookAhead(set.c, n) EXCEPT !.nextOutput = n + 1]] ELSE set
ScheduleNext(it) ==
  IF it.ok THEN Schedule(SetFrameProperties(it.c, it.c.nextOutput), it.c.nextOutput) ELSE it

\* The loop has ended by then: there is at most one group of output frames, and
\* a key frame, for each input frame.
ComputeFrameInvariants(c) ==
  LET After[k \in Nat] ==
        IF k = 0 THEN [ok |-> TRUE, c |-> c] ELSE ScheduleNext(After[k - 1])
  IN After[c.count * (GroupOutputLen(Depth) + 1) + 1].c

----------------------------------------------------------------------------
(* Sending *)

\* Mutant: the frame before counts too.
DecidableAll(c, flush) ==
  LET left == Cardinality({i \in c.frames : i >= c.nextFrame - 1})
  IN IF NeedsMoreFrameQLookahead(c, c.nextFrame) THEN {}
     ELSE IF flush THEN c.nextFrame .. c.nextFrame + left - 1
     ELSE {c.nextFrame}

\* A frame sent decides on one, a flush on all that are left: as many as there
\* are in the queue after the frame before.
Decidable(c, flush) ==
  LET left == Cardinality({i \in c.frames : i >= c.nextFrame - 1}) - 1
  IN IF NeedsMoreFrameQLookahead(c, c.nextFrame) THEN {}
     ELSE IF flush THEN c.nextFrame .. c.nextFrame + left - 1
     ELSE {c.nextFrame}

\* compute_keyframe_placement, for one frame after the other: a frame is a key
\* frame if that was asked for, or if it is in cuts, which the detector finds.
PlaceKeyframes(c, decided, cuts) ==
  [c EXCEPT !.keyframes = @ \cup (decided \cap (cuts \cup c.forced)),
            !.nextFrame = @ + Cardinality(decided)]

\* Mutant: frames are scheduled before the key frames are placed.
SentScheduledFirst(c, flush, cuts) ==
  PlaceKeyframes(ComputeFrameInvariants(c), Decidable(c, flush), cuts)

\* ContextInner::send_frame, once the frame is in the queue.
Sent(c, flush, cuts) ==
  ComputeFrameInvariants(PlaceKeyframes(c, Decidable(c, flush), cuts))

CutsLeft(c) == setup.cuts - Cardinality((c.keyframes \cup c.forced) \ {0})

\* Context::send_frame with a frame; the sender of a channel stops at the
\* limit of the first pass.
Send(forced) ==
  LET i == ctx.count
      c == [ctx EXCEPT !.count = @ + 1, !.frames = @ \cup {i},
                       !.forced = IF forced THEN @ \cup {i} ELSE @,
                       !.opaque = @ \cup {i}, !.t35 = @ \cup {i}]
  IN /\ ~flushing
     /\ i < setup.frames
     /\ setup.limit # None => i < setup.limit
     /\ forced => CutsLeft(ctx) > 0
     /\ \E cuts \in SUBSET Decidable(c, FALSE) :
          /\ Cardinality(cuts \ c.forced) <= CutsLeft(c)
          /\ ctx' = Sent(c, FALSE, cuts)
     /\ ret' = "Ok"
     /\ UNCHANGED <<setup, flushing, ended, packets, decoder, stream>>

\* ... after a flush.
SendRefused ==
  /\ flushing
  /\ ret' = "EnoughData"
  /\ UNCHANGED <<setup, ctx, flushing, ended, packets, decoder, stream>>

\* Context::flush, and the end of the input of a channel.
Flush ==
  LET c == [ctx EXCEPT !.limit = ctx.count, !.end = TRUE]
  IN /\ ~flushing
     /\ flushing' = TRUE
     /\ \E cuts \in SUBSET Decidable(c, TRUE) :
          /\ Cardinality(cuts \ c.forced) <= CutsLeft(c)
          /\ ctx' = Sent(c, TRUE, cuts)
     /\ ret' = "Ok"
     /\ UNCHANGED <<setup, ended, packets, decoder, stream>>

----------------------------------------------------------------------------
(* Receiving *)

Returns(r) == ret' = r /\ ended' = (ended \/ r = "LimitReached") /\ UNCHANGED <<setup, flushing>>
NoPacket == UNCHANGED packets
NothingCoded == UNCHANGED <<decoder, stream>>

\* Mutant: one frame too many.
DoneProcessingPast(c) == c.limit # None /\ c.processed > c.limit

DoneProcessing(c) == c.limit # None /\ c.processed = c.limit

Next0(c) == Min(Pending(c))      \* the frame to be encoded

\* Mutant: input frames are collected by the number of the output frame.
GarbageCollectOutput(c, input) ==
  LET Keep(f) == [n \in {m \in DOMAIN f : m >= c.output - 1} |-> f[n]]
      d == [c EXCEPT !.frames = {i \in @ : i >= c.output}]
  IN IF input = 0 THEN c
     ELSE IF c.output < 2 THEN d
     ELSE [d EXCEPT !.data = Keep(@), !.gopOutput = Keep(@), !.gopInput = Keep(@)]

\* garbage_collect, with the input frame of the packet.
GarbageCollect(c, input) ==
  LET Keep(f) == [n \in {m \in DOMAIN f : m >= c.output - 1} |-> f[n]]
      d == [c EXCEPT !.frames = {i \in @ : i >= input}]
  IN IF input = 0 THEN c
     ELSE IF c.output < 2 THEN d
     ELSE [d EXCEPT !.data = Keep(@), !.gopOutput = Keep(@), !.gopInput = Keep(@)]

\* finalize_packet, and the end of receive_packet; content is the frame that
\* the decoder shows.
Finalize(c, fi, content) ==
  /\ ctx' = [GarbageCollect([c EXCEPT !.processed = @ + 1], fi.input)
              EXCEPT !.opaque = @ \ {fi.input}]
  /\ packets' = Append(packets,
                       [input |-> fi.input, content |-> content, t35 |-> fi.t35,
                        opaque |-> IF fi.input \in c.opaque THEN fi.input ELSE None])
  /\ Returns("Ok")

\* Mutant: the next frame only, be it coded or not.
SubsequentNext(c, n) ==
  LET after == {m \in Pending(c) : m > n}
  IN {m \in after : c.data[m].type # "key" /\ \A k \in after : k >= m}

\* The frames that get a copy of the reference buffer: those up to the next
\* that is coded, but none from a key frame on.
Subsequent(c, n) ==
  LET after == {m \in Pending(c) : m > n}
  IN {m \in after : /\ c.data[m].type # "key"
                    /\ \A k \in after : k < m => c.data[k].sef}

\* encode_normal_packet
Encoded(c, n) ==
  LET fi == c.data[n]
      rec == [i \in RefSlots |-> IF i \in fi.refresh THEN Ref(n, FALSE) ELSE fi.rec[i]]
  IN [c EXCEPT !.data = [m \in DOMAIN @ |-> IF m \in Subsequent(c, n) \cup {n}
                                           THEN [@[m] EXCEPT !.rec = rec] ELSE @[m]],
               !.output = n + 1]

Coded(fi, from) == [input |-> fi.input, sef |-> fi.sef, from |-> from]

\* What receive_packet returns before it encodes, if it returns.
NothingReady(c) == DoneProcessing(c) \/ NeedsMoreFiLookahead(c) \/ Pending(c) = {}
Status(c) ==
  IF DoneProcessing(c) THEN "LimitReached"
  ELSE IF NothingReady(c) THEN "NeedMoreData"
  ELSE IF ~NeedsMoreFrames(c, c.data[Next0(c)].input) THEN "LimitReached"
  ELSE IF IsCoded(c, Next0(c)) /\ c.data[Next0(c)].input \notin c.frames THEN "NeedMoreData"
  ELSE "encodes"

ReceiveNothing ==
  /\ Status(ctx) # "encodes"
  /\ ctx' = [ctx EXCEPT !.output = IF NothingReady(ctx) THEN @ ELSE Next0(ctx)]
  /\ Returns(Status(ctx))
  /\ NoPacket /\ NothingCoded

\* The frame that receive_packet encodes.
Found == IF Status(ctx) = "encodes" THEN {Next0(ctx)} ELSE {}

\* encode_show_existing_packet
ReceiveExisting ==
  \E n \in Found :
    /\ IsSef(ctx, n)
    /\ Finalize([ctx EXCEPT !.output = n + 1], ctx.data[n], decoder[ctx.data[n].slot].input)
    /\ stream' = Append(stream, Coded(ctx.data[n], None))
    /\ UNCHANGED decoder

ReceiveCoded ==
  \E n \in Found : \E c \in {Encoded(ctx, n)} :
    LET fi == ctx.data[n]
    IN /\ IsCoded(ctx, n)
       /\ decoder' = [i \in RefSlots |->
                        IF i \in fi.refresh THEN [output |-> n, input |-> fi.input] ELSE decoder[i]]
       /\ IF fi.show THEN Finalize(c, fi, fi.input)
          ELSE ctx' = c /\ Returns("Encoded") /\ NoPacket
       /\ stream' = Append(stream, Coded(fi, IF fi.type = "key" THEN None ELSE decoder[fi.refs[1]].input))

Receive == ReceiveNothing \/ ReceiveExisting \/ ReceiveCoded

Next ==
  \/ \E forced \in BOOLEAN : Send(forced)
  \/ SendRefused \/ Flush
  \/ Receive

Spec == Init /\ [][Next]_vars

\* The caller goes on asking for packets.
FairSpec == Spec /\ WF_vars(Receive)

----------------------------------------------------------------------------
(* Properties *)

Frames == 0 .. setup.frames
RefType == [output : Nat \cup {None}, source : BOOLEAN]

TypeOK ==
  /\ setup \in Setups
  /\ ctx.count \in Frames /\ ctx.limit \in Nat \cup {None}
  /\ ctx.output \in Nat /\ ctx.processed \in Frames
  /\ ctx.frames \cup ctx.forced \subseteq 0 .. ctx.count - 1
  /\ ctx.keyframes \subseteq 0 .. ctx.nextFrame - 1
  /\ ctx.nextFrame \in 1 .. Max({1, ctx.count}) /\ ctx.nextOutput \in Nat
  /\ DOMAIN ctx.gopInput = DOMAIN ctx.gopOutput
  /\ DOMAIN ctx.data \subseteq DOMAIN ctx.gopInput
  /\ \A n \in DOMAIN ctx.data : ~Skipped(ctx, n) =>
       /\ ctx.data[n].input \in Frames
       /\ ctx.data[n].rec \in [RefSlots -> RefType]
       /\ ctx.data[n].look \in [RefSlots -> RefType]
  /\ ret \in {"none", "Ok", "EnoughData", "NeedMoreData", "LimitReached", "Encoded"}
  /\ flushing \in BOOLEAN /\ ended \in BOOLEAN

\* The frame that is encoded next is predicted from what a decoder has: its
\* copy of the reference buffer, made when it was scheduled, filled with
\* sources by the look-ahead and overwritten when the frame before was
\* encoded, is then the decoder's.
InSync ==
  Pending(ctx) # {} =>
    LET fi == ctx.data[Next0(ctx)]
    IN fi.type # "key" => \A i \in RefSlots : fi.rec[i] = Ref(decoder[i].output, FALSE)

\* What the scheduling and the look-ahead of later calls look back at, often
\* with an unwrap, has not been collected.
LookbackThere ==
  /\ ~flushing /\ ctx.nextOutput > 0 =>
       /\ ctx.nextOutput - 1 \in DOMAIN ctx.gopInput
       /\ PreviousCodedFi(ctx, ctx.nextOutput) # {}
       /\ ctx.nextFrame - 1 \in ctx.frames
  /\ \A n \in Pending(ctx) : IsCoded(ctx, n) =>
       /\ ctx.data[n].input \in ctx.frames
       /\ n # Next0(ctx) /\ ctx.data[n].type # "key" =>
            \A i \in ToSet(ctx.data[n].refs) :
              LET ref == ctx.data[n].rec[i].output
              IN ref # None /\ ref # n /\ (ref \in DOMAIN ctx.data => IsCoded(ctx, ref))

\* What a caller relies on: when the look-ahead is full, and after a flush, a
\* call encodes a frame; only after a flush is there an end, when every frame
\* has been shown.  If the first pass had one frame, the look-ahead counts as
\* full before there is anything to encode.
Contract ==
  [][/\ ret' = "NeedMoreData" => ~flushing /\ (NeedsMoreFiLookahead(ctx) \/ setup.limit = 1)
     /\ ret' = "LimitReached" => flushing /\ Len(packets) = ctx.count]_vars

\* Where the groups of pictures end is known when all is over: at a key frame,
\* at the longest interval, at the end.
GopEnd(k) ==
  Min({f \in ctx.keyframes : f > k} \cup {k + setup.maxKey, ctx.count})

\* The stream of a group of pictures: its key frame, then the schedule of each
\* group of frames without those beyond the end, each frame predicted from the
\* nearest before it at a lower level.
GopStream(k) ==
  LET Item(g, e) ==
        [input |-> k + g * GroupInputLen(Depth) + e.offset, sef |-> e.sef,
         from |-> IF e.sef THEN None
                  ELSE k + g * GroupInputLen(Depth) + e.offset - GroupInputLen(Depth) \div 2 ^ e.level]
      Group(g) == [j \in DOMAIN Sched[Depth] |-> Item(g, Sched[Depth][j])]
      Groups == FlattenSeq([g \in 1 .. ctx.count |-> Group(g - 1)])
  IN <<[input |-> k, sef |-> FALSE, from |-> None]>> \o SelectSeq(Groups, LAMBDA x : x.input < GopEnd(k))

\* However the calls interleave, and though the schedule is made from part of
\* the frames, the stream is the one that the key frames and the length call
\* for; every key frame that was asked for is one.
StreamIsCanonical ==
  LET Canonical[k \in 0 .. ctx.count] ==
        IF k = ctx.count THEN <<>> ELSE GopStream(k) \o Canonical[GopEnd(k)]
  IN ended => stream = Canonical[0] /\ ctx.forced \subseteq ctx.keyframes

\* The packets show the frames in display order, each once, and with what was
\* sent along; then comes the end.
Order == INSTANCE DisplayOrder WITH
  sent <- ctx.count, closed <- flushing, over <- ended,
  shown <- [i \in DOMAIN packets |->
              IF packets[i].opaque = packets[i].content THEN packets[i].input ELSE None]
OrderSpec == Order!Spec

\* After a flush the end is reached.
Drains == flushing ~> ended

\* Each packet has the T.35 metadata that was sent with the frame it shows.
T35Kept == \A i \in DOMAIN packets : packets[i].t35 = packets[i].input
=============================================================================
