--------------------------- MODULE AccountRotation ---------------------------
(***************************************************************************)
(* What account rotation promises, with nothing of how it is done: every   *)
(* Claude process that runs uses the account in the credentials file, so   *)
(* the file changes only while no process runs.                            *)
(***************************************************************************)

CONSTANTS Sessions, Accounts, FirstAccount

VARIABLES
  account,  \* the account in the shared credentials file
  running,  \* the sessions whose Claude process runs
  uses      \* the account each process read when it started

vars == <<account, running, uses>>

Init ==
  /\ account = FirstAccount
  /\ running = {}
  /\ uses = [s \in Sessions |-> FirstAccount]

Start(s) ==
  /\ s \notin running
  /\ running' = running \cup {s}
  /\ uses' = [uses EXCEPT ![s] = account]
  /\ UNCHANGED account

Stop(s) ==
  /\ s \in running
  /\ running' = running \ {s}
  /\ UNCHANGED <<account, uses>>

Switch ==
  /\ running = {}
  /\ account' \in Accounts
  /\ UNCHANGED <<running, uses>>

Next == Switch \/ \E s \in Sessions : Start(s) \/ Stop(s)

Spec == Init /\ [][Next]_vars

(* Every running session uses the account in the credentials file. *)
OneAccount == \A s \in running : uses[s] = account
=============================================================================
