------------------------- MODULE MCLoadCoordinator -------------------------
(* A small instance of LoadCoordinator for TLC. *)
EXTENDS LoadCoordinator, TLC

CONSTANTS a, b

(* Nothing tells one track from the other. *)
Symmetry == Permutations({a, b})

MCSessions == {{"stop", "next"}, {"connect", "next"}, {"stop", "play"}, {"play", "failure"},
               {"stop", "bypass", "failure", "dash"}}
MCContended == {{"connect", "next"}}
=============================================================================
