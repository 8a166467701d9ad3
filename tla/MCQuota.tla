-------------------------------- MODULE MCQuota --------------------------------
(* Small instances of Quota for TLC. *)
EXTENDS Quota

(* Two action properties that comments of the code state and the code does not
   keep: TLC violates the first with Worlds = {{"claude", "refresh"}}, the second
   with {{"codex", "probe", "throttled", "renews", "unused"}} and MaxFailures = 2. *)

(* The generation of the managed sessions is made of the two accounts and
   QueuedAt: while a switch stays queued, probing again does not restart it. *)
QueueKept ==
  [][( /\ pending.why = "exhausted" /\ pending'.why = "exhausted"
       /\ pending'.from = pending.from /\ pending'.to = pending.to)
     => pending'.age >= pending.age]_vars

(* "Manual refreshes may retry an ordinary failure at once, but not before a
   throttling server's retry deadline" (probeAccountLocked). *)
NeverBeforeDeadline ==
  [][\A x \in Actors : Requested(x) => deadline[Top(x)'.id] = 0]_vars
=============================================================================
