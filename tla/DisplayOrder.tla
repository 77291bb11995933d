---------------------------- MODULE DisplayOrder ----------------------------
(***************************************************************************)
(* What the encoder promises about its packets, whatever it re-orders: a   *)
(* queue.  A packet shows one frame; frames are shown in the order in      *)
(* which they were sent, each once, and the end is announced when all have *)
(* been, never before.                                                     *)
(***************************************************************************)
EXTENDS Integers, Sequences

VARIABLES
  sent,      \* frames sent
  closed,    \* no more will be
  shown,     \* the frames that the packets show
  over       \* the end has been announced

vars == <<sent, closed, shown, over>>

Init == sent = 0 /\ closed = FALSE /\ shown = <<>> /\ over = FALSE

Accept == ~closed /\ sent' = sent + 1 /\ UNCHANGED <<closed, shown, over>>

Close == closed' = TRUE /\ UNCHANGED <<sent, shown, over>>

Deliver ==
  /\ Len(shown) < sent
  /\ shown' = Append(shown, Len(shown))
  /\ UNCHANGED <<sent, closed, over>>

Announce ==
  /\ closed /\ Len(shown) = sent
  /\ over' = TRUE
  /\ UNCHANGED <<sent, closed, shown>>

Next == Accept \/ Close \/ Deliver \/ Announce

Spec == Init /\ [][Next]_vars
=============================================================================
