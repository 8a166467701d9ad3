---------------------------- MODULE MCClaudeTokens ----------------------------
(* Small instances of ClaudeTokens for TLC. *)
EXTENDS ClaudeTokens, TLC

CONSTANTS a1, a2

(* Accounts are interchangeable; used by the run without liveness. *)
Interchangeable == Permutations(Accounts)
=============================================================================
