----------------------------- MODULE MCLiveAccount -----------------------------
(* Small instances of LiveAccount for TLC. *)
EXTENDS LiveAccount

CONSTANTS a1, a2
=============================================================================
