---------------------------- MODULE MCFrameTasks ----------------------------
(* Instances of FrameTasks for TLC. *)
EXTENDS FrameTasks, TLC

CONSTANTS w1, w2

\* Motion vectors that point at most one row down, in a frame of n rows.
RowBelow(n) == [r \in 0 .. n - 1 |-> IF r + 2 < n THEN r + 2 ELSE n]

\* Frame headers.
FilterKinds == [refresh : {TRUE}, filters : {{"deblock", "cdef"}, {"cdef"}}]
CdfKinds == [refresh : BOOLEAN, filters : {{}}]
OneKind == [refresh : {TRUE}, filters : {{}}]

\* One frame context, which is used again: two rows of tiles, two passes.
InTurn ==
  [twoPass |-> TRUE, slots |-> {0}, tileCols |-> 1, tileRows |-> 2,
   rowStart |-> [r \in 0 .. 2 |-> r], reach |-> RowBelow(2), kinds |-> FilterKinds,
   mayFail |-> {1}, flushes |-> 1]

\* Two frames at once, each of one row of tiles with two rows of superblocks.
AtOnce ==
  [twoPass |-> TRUE, slots |-> {0, 1}, tileCols |-> 1, tileRows |-> 1,
   rowStart |-> [r \in 0 .. 1 |-> 2 * r], reach |-> RowBelow(2), kinds |-> OneKind,
   mayFail |-> {}, flushes |-> 0]

\* Two frames at once of one row, which may keep their CDF or not.
AtOnceSmall ==
  [AtOnce EXCEPT !.rowStart = [r \in 0 .. 1 |-> r], !.reach = RowBelow(1), !.kinds = CdfKinds,
                   !.mayFail = {1}]

\* ... and of which the second may use nothing of the first.
NoReach == [AtOnceSmall EXCEPT !.reach = [r \in {0} |-> 0], !.kinds = OneKind]

\* No frame threading: one pass, two columns of tiles.
Single ==
  [twoPass |-> FALSE, slots |-> {0}, tileCols |-> 2, tileRows |-> 1,
   rowStart |-> [r \in 0 .. 1 |-> 2 * r], reach |-> RowBelow(2), kinds |-> FilterKinds,
   mayFail |-> {1}, flushes |-> 1]

SafeSetups == <<InTurn, AtOnce, AtOnceSmall, NoReach, Single>>
LiveSetups == <<AtOnceSmall, Single>>

Symmetry == Permutations(Workers)
=============================================================================
