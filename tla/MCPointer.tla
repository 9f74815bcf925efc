----------------------------- MODULE MCPointer -----------------------------
(***************************************************************************)
(* Three fingers that touch down at one spot, so that they can be          *)
(* exchanged, and a canvas the mouse can leave.                            *)
(***************************************************************************)
EXTENDS Pointer, TLC

MCStart(f) == 0
MCMoves == {-2, 2}
MCPlaces == {-1, 3}
MCScrolls == {-1, 2}
MCSymmetry == Permutations(Fingers)
=============================================================================
