--------------------------- MODULE MCEncoderQueue ---------------------------
(* Instances of EncoderQueue for TLC. *)
EXTENDS EncoderQueue

Setup(depth, rdo, maxKey, frames, cuts) ==
  [depth |-> depth, rdo |-> rdo, maxKey |-> maxKey, switch |-> 0, multiref |-> FALSE,
   limit |-> None, frames |-> frames, cuts |-> cuts]

LowLatency ==
  {Setup(0, 1, 20, 6, 2), [Setup(0, 2, 3, 6, 1) EXCEPT !.switch = 2, !.multiref = TRUE]}
Pyramids ==
  {Setup(1, 1, 20, 9, 2), Setup(1, 2, 5, 9, 1), Setup(2, 1, 20, 13, 1), Setup(2, 2, 6, 11, 1),
   Setup(3, 1, 20, 10, 1)}
\* The second of two passes, with the number of frames of the first.
SecondPass ==
  {[Setup(1, 1, 20, 6, 1) EXCEPT !.limit = 6], [Setup(0, 1, 20, 3, 1) EXCEPT !.limit = 2],
   [Setup(1, 1, 20, 3, 1) EXCEPT !.limit = 1]}

MCSetups == LowLatency \cup Pyramids \cup SecondPass
T35Setups == {Setup(2, 1, 20, 6, 0)}
=============================================================================
