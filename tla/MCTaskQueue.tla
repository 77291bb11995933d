---------------------------- MODULE MCTaskQueue -----------------------------
(* Instances of TaskQueue for TLC. *)
EXTENDS TaskQueue, TLC

CONSTANTS w1, w2
MCWorkers == {w1, w2}
Symmetry == Permutations(MCWorkers)

\* A client whose frames are all accepted, and who drains until EAGAIN and flushes;
\* and one that does everything, and brings the frames out of their order.
Tidy == [kinds |-> {"intra", "inter"}, flushes |-> 1, drains |-> 1, whole |-> TRUE]
Mixed == [kinds |-> {"intra", "inter", "existing", "rejected"}, flushes |-> 1, drains |-> 1,
          whole |-> FALSE]
TidyOrMixed == {Tidy, Mixed}

\* A client that drains for one picture at a time and then sends on.
Hasty == {[Tidy EXCEPT !.flushes = 0, !.drains = 2, !.whole = FALSE]}
=============================================================================
