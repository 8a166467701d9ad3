----------------------------- MODULE MCRotation -----------------------------
(* Small instances of Rotation for TLC. *)
EXTENDS Rotation, TLC

CONSTANTS r1, r2, g1, g2

(* Runners are interchangeable; used by the runs without liveness. *)
Interchangeable == Permutations(Runners)
=============================================================================
