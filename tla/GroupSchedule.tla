--------------------------- MODULE GroupSchedule ---------------------------
(***************************************************************************)
(* The re-ordering schedule of the encoder (rusty_av1e, InterConfig in     *)
(* api/internal.rs): which input frame each output frame of a group codes  *)
(* or shows, and the slot of the reference buffer it is kept in.           *)
(*                                                                         *)
(* A group is a binary pyramid over 2^d input frames: its last frame is    *)
(* coded first, then the midpoints, each before the halves it splits.  A   *)
(* frame coded ahead of its turn is hidden, and shown later by a "show     *)
(* existing frame" (SEF).  With d = 0 frames are coded in order.           *)
(***************************************************************************)
EXTENDS Integers, Sequences, FiniteSetsExt

Depths == 0 .. 4              \* pyramid_depth, clamped by harvest.rs

GroupInputLen(d) == 2 ^ d

\* pos_to_lvl: the last frame of a group is at level 0.
PosToLvl(pos, d) == Min({l \in 0 .. d : pos % 2 ^ (d - l) = 0})

\* subdivide: a frame, and then those of the halves that it splits.
CodingOrder(d) ==
  LET Subdivide[range \in (0 .. 2 ^ d) \X (0 .. 2 ^ d)] ==
        LET lo == range[1]
            hi == range[2]
            mid == (lo + hi) \div 2
        IN IF hi - lo <= 1 THEN <<>>
           ELSE <<mid>> \o Subdivide[<<lo, mid>>] \o Subdivide[<<mid, hi>>]
  IN <<2 ^ d>> \o Subdivide[<<0, 2 ^ d>>]

Entry(offset, d, shown, sef) ==
  [offset |-> offset, level |-> PosToLvl(offset, d), shown |-> shown, sef |-> sef]

\* Frames from disp on that are coded, up to the first that is not.
CaughtUp(d, disp, coded) == {j \in disp .. 2 ^ d : disp .. j \subseteq coded}

\* After a frame that is shown when it is coded come the frames coded before
\* whose turn it is next.
Emit(d, prev, off, coded) ==
  LET sefs == [i \in 1 .. Cardinality(CaughtUp(d, off + 1, coded)) |-> Entry(off + i, d, TRUE, TRUE)]
  IN IF off # prev.disp
     THEN [prev EXCEPT !.sched = Append(@, Entry(off, d, FALSE, FALSE))]
     ELSE [sched |-> Append(prev.sched, Entry(off, d, TRUE, FALSE)) \o sefs,
           disp |-> off + 1 + Len(sefs)]

BuildSchedule(d) ==
  LET order == CodingOrder(d)
      Emitted[k \in 0 .. Len(order)] ==
        IF k = 0 THEN [sched |-> <<>>, disp |-> 1]
        ELSE Emit(d, Emitted[k - 1], order[k], {order[i] : i \in 1 .. k})
  IN Emitted[Len(order)].sched

\* InterConfig::sched, for every depth.
Sched == [d \in Depths |-> BuildSchedule(d)]

GroupOutputLen(d) == Len(Sched[d])

IdxInGroupOutput(d, outputInGop) == (outputInGop - 1) % GroupOutputLen(d)
EntryAt(d, outputInGop) == Sched[d][IdxInGroupOutput(d, outputInGop) + 1]

OrderHint(d, outputInGop) ==
  GroupInputLen(d) * ((outputInGop - 1) \div GroupOutputLen(d)) + EntryAt(d, outputInGop).offset

\* Mutant: levels 1 and 2 share a slot.
SlotIdxShared(d, level, hint) ==
  IF level = 0 THEN (hint \div GroupInputLen(d)) % 4 ELSE 4 + (level - 1) \div 2

SlotIdx(d, level, hint) ==
  IF level = 0 THEN (hint \div GroupInputLen(d)) % 4 ELSE 3 + level

\* get_input_frameno
InputFrameno(d, outputInGop, gopInputStart) ==
  gopInputStart + (IF outputInGop = 0 THEN 0 ELSE OrderHint(d, outputInGop))

MaxReorderingLatency(d) == GroupInputLen(d)
KeyframeLookaheadDistance(d) == MaxReorderingLatency(d) + 1

\* new_inter_frame: the slots a frame predicts from, the nearest before first.
RefFrames(d, level, hint, slot, multiref) ==
  LET Of(oh) == SlotIdx(d, PosToLvl(oh, d), oh)
      step == GroupInputLen(d) \div 2 ^ level
      back == (slot + 3) % 4
  IN IF level = 0 THEN IF multiref THEN <<back, (slot + 2) % 4, back>> ELSE <<back, back, back>>
     ELSE <<Of(hint - step), Of(hint + step), slot>>
============================================================================
