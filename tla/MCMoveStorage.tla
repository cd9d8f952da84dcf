---------------------------- MODULE MCMoveStorage ----------------------------
(* Small instances of MoveStorage for TLC. *)
EXTENDS MoveStorage, TLC

CONSTANTS t1, t2, t3, p1, p2, p3

Symmetry == Permutations(Torrent) \cup Permutations(Place)

=============================================================================
