---------------------------- MODULE MCFilmGrain ----------------------------
(* Instances of FilmGrain for TLC. *)
EXTENDS FilmGrain, TLC

MCHeights == {2}
Symmetry == Permutations(Worker)
============================================================================
