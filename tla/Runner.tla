------------------------------- MODULE Runner -------------------------------
(***************************************************************************)
(* The state one runner (`qswitch run claude`) keeps about the Claude Code *)
(* process it owns, and what each of its handlers does to that state.      *)
(*                                                                         *)
(* A runner serialises its handlers with r.mu, so a handler is a function  *)
(* from the state before to the state after: every operator below takes    *)
(* the record `s` and returns the record after the handler, together with  *)
(* a predicate that says when the handler answers with an HTTP error.      *)
(* Who calls the handlers, and in which order, is in module Rotation.      *)
(***************************************************************************)

CONSTANTS
  Generations,  \* the generations a coordinator may drain sessions for
  None,         \* the empty generation ""
  SelfUpgrade   \* upgradeGeneration, "self-upgrade"

ASSUME GenerationsAssumption ==
  /\ None \notin Generations
  /\ SelfUpgrade \notin Generations
  /\ None # SelfUpgrade

(* What a runner process is doing.  Only a runner in Live holds its lease.
   "exec": Wait returned and the runner tries to exec a replaced binary;
   "handoff": that failed and it is about to start the session again;
   "inherit": the new binary waits for claude.lock before it serves. *)
Live == {"loop", "exec", "handoff", "inherit"}
Modes == Live \cup {"unused", "gone"}

(* The operating system's view of the child: "clean" and "failed" are dead,
   by exit status; whether the runner has seen it is `exited`. *)
Children == {"none", "alive", "clean", "failed"}

RunnerState ==
  [ mode          : Modes,
    child         : Children,
    gen           : Generations \cup {None, SelfUpgrade},
    ready         : BOOLEAN,  \* status.Ready, and heard within 5 seconds
    exited        : BOOLEAN,
    needs         : BOOLEAN,  \* status.NeedsContinue
    recovery      : BOOLEAN,  \* status.Recovery is not empty
    stopping      : BOOLEAN,
    exitReq       : BOOLEAN,
    exitAck       : BOOLEAN,
    released      : BOOLEAN,
    committed     : BOOLEAN,
    resumePending : BOOLEAN,
    upgrading     : BOOLEAN,
    forced        : BOOLEAN ]

Unused ==
  [ mode |-> "unused", child |-> "none", gen |-> None, ready |-> FALSE,
    exited |-> FALSE, needs |-> FALSE, recovery |-> FALSE, stopping |-> FALSE,
    exitReq |-> FALSE, exitAck |-> FALSE, released |-> FALSE,
    committed |-> FALSE, resumePending |-> FALSE, upgrading |-> FALSE,
    forced |-> FALSE ]

(* A runner that ended; only its status.json may be left. *)
Gone == [Unused EXCEPT !.mode = "gone"]

-----------------------------------------------------------------------------
(* freshLocked: the session said it is ready, recently, and nothing else
   stands in the way.  `ready` already folds in the five-second age. *)
Fresh(s) == s.ready /\ ~s.recovery /\ ~s.stopping

(* What a status reply (snapshotLocked) tells the coordinator. *)
ReplyReady(s) == s.ready /\ (s.exited \/ Fresh(s))
ReplyExiting(s) == s.exitAck /\ ~s.exited

-----------------------------------------------------------------------------
(* POST /prepare, for generation g; `verified` is what gate() answers when
   the handler asks it. *)
PrepareRefused(s, g) ==
  \/ s.recovery
  \/ /\ ~s.upgrading
     /\ ~s.stopping
     /\ s.released \/ s.gen \notin {None, g}

AfterPrepare(s, g, verified) ==
  IF PrepareRefused(s, g) \/ s.upgrading \/ s.stopping \/ s.gen = g THEN s
  ELSE IF verified THEN [s EXCEPT !.gen = g]
  ELSE [s EXCEPT !.ready = FALSE]

(* These answers are given before the status is written. *)
PrepareUnwritten(s, g, verified) ==
  s.upgrading \/ s.stopping \/ (s.gen # g /\ ~verified)

(* The coordinator must wait for a session with this reply: an upgrading
   runner answers with no generation, a stopping one as not ready. *)
PrepareWaits(s, g) ==
  \/ s.upgrading
  \/ s.gen # g
  \/ ~s.exited /\ ~ReplyReady(s)

-----------------------------------------------------------------------------
(* POST /exit, repeated on every tick until the child is gone. *)
ExitWanted(s) == ~s.exited /\ ~s.exitAck /\ ~s.stopping

ExitRefused(s, g, verified) ==
  \/ s.recovery \/ s.gen # g \/ s.released
  \/ ExitWanted(s) /\ ~(Fresh(s) /\ verified)

AfterExit(s, g, verified) ==
  IF s.recovery \/ s.gen # g \/ s.released \/ ~ExitWanted(s) \/ ~Fresh(s) THEN s
  ELSE IF verified THEN [s EXCEPT !.exitReq = TRUE]
  ELSE [s EXCEPT !.ready = FALSE]

-----------------------------------------------------------------------------
(* POST /release: the decision of the switch, committed or cancelled. *)

(* Mutated form: a release may contradict the one before. *)
ReleaseRefused_open(s, g, commit) ==
  s.recovery \/ s.gen # g \/ (commit /\ ~(s.exited /\ s.exitAck))

ReleaseRefused(s, g, commit) ==
  \/ s.recovery
  \/ s.gen # g
  \/ commit /\ ~(s.exited /\ s.exitAck)
  \/ s.released /\ s.committed # commit

(* Mutated form: a session that did not exit keeps its generation. *)
AfterRelease_held(s, g, commit) ==
  IF ReleaseRefused(s, g, commit) THEN s
  ELSE IF ~s.exitAck /\ ~s.exited THEN [s EXCEPT !.exitReq = FALSE]
  ELSE [s EXCEPT !.released = TRUE, !.committed = commit]

AfterRelease(s, g, commit) ==
  IF ReleaseRefused(s, g, commit) THEN s
  ELSE IF ~s.exitAck /\ ~s.exited
       THEN [s EXCEPT !.gen = None, !.exitReq = FALSE, !.released = FALSE,
                      !.committed = commit]
       ELSE [s EXCEPT !.released = TRUE, !.committed = commit]

-----------------------------------------------------------------------------
(* POST /resume: continue an interrupted session without a switch. *)
AfterResume(s) == [s EXCEPT !.resumePending = TRUE]

ResumeRefused(s) == s.gen # None \/ s.exited \/ ~Fresh(s) \/ ~s.needs

-----------------------------------------------------------------------------
(* The child's own requests (handleState).  Both are refused once nothing
   may come from this child any more. *)
ChildRefused(s) == s.stopping \/ s.exited \/ s.child = "none" \/ s.recovery

(* POST /exiting by a session that re-checked it is ready; gate() is asked
   after these conditions. *)
ExitingRefused(s, g) ==
  \/ ChildRefused(s)
  \/ ~s.exitReq \/ s.released \/ s.exitAck
  \/ g = None \/ s.gen # g
  \/ ~Fresh(s)

AfterExiting(s, needs) == [s EXCEPT !.needs = needs, !.exitAck = TRUE]

(* POST /state, a heartbeat.  One that follows the acknowledgement takes it
   back, unless the runner is already ending the child. *)
Revoked(s) ==
  IF ~s.exitAck \/ s.forced THEN s
  ELSE [s EXCEPT !.exitAck = FALSE, !.exitReq = FALSE,
                 !.gen = IF s.released THEN None ELSE @,
                 !.released = FALSE,
                 !.committed = IF s.released THEN FALSE ELSE @]

Abandoned(s, ready) ==
  IF s.upgrading /\ ~ready
  THEN [s EXCEPT !.upgrading = FALSE, !.exitReq = FALSE, !.gen = None]
  ELSE s

Heard(s, ready, needs) ==
  [Abandoned(Revoked(s), ready) EXCEPT !.ready = ready, !.needs = needs]

(* upgradeDueLocked and gate(), given that the binary was replaced. *)
UpgradeDue(s) ==
  /\ ~s.upgrading /\ ~s.exited /\ s.gen = None /\ ~s.exitReq
  /\ ~s.resumePending /\ ~s.needs /\ Fresh(s)

(* The answer the heartbeat gets, from the state Heard returns. *)
StateAction(h, replaced) ==
  IF h.gen # None THEN IF h.exitReq /\ Fresh(h) THEN "exit" ELSE "prepare"
  ELSE IF h.resumePending
       THEN IF h.ready /\ h.needs THEN "resume" ELSE "run"
  ELSE IF replaced /\ UpgradeDue(h) THEN "exit" ELSE "run"

AfterState(h, replaced) ==
  IF h.gen # None \/ h.resumePending THEN [h EXCEPT !.resumePending = FALSE]
  ELSE IF replaced /\ UpgradeDue(h)
       THEN [h EXCEPT !.upgrading = TRUE, !.gen = SelfUpgrade, !.exitReq = TRUE]
  ELSE h

-----------------------------------------------------------------------------
(* A persist that fails (failLocked): the runner keeps its child but takes
   part in nothing until someone looks at it. *)
Failed(s) == [s EXCEPT !.ready = FALSE, !.recovery = TRUE]

(* startLocked, in any mode: a new child, and nothing of the last exit. *)
Started(s) ==
  [s EXCEPT !.mode = "loop", !.child = "alive", !.gen = None, !.ready = FALSE,
            !.exited = FALSE, !.exitReq = FALSE, !.exitAck = FALSE,
            !.released = FALSE, !.committed = FALSE, !.forced = FALSE]

(* The record exec leaves to the new binary: only what the handoff carries. *)
Inherited(s) == [Unused EXCEPT !.mode = "inherit", !.needs = s.needs]

(* The restarted session is given a continuation prompt. *)
Continues(s) == s.committed /\ s.needs

(* Mutated form: a child the runner killed did not exit for the switch. *)
ExitOK_unforced(s) == s.child = "clean"

(* Wait returned for a child; a forced exit counts as a clean one. *)
ExitOK(s) == s.child = "clean" \/ s.forced
UpgradeExit(s) == s.upgrading /\ s.exitAck /\ s.gen = SelfUpgrade /\ ExitOK(s)
ManagedExit(s) == s.exitAck /\ s.gen # None /\ ExitOK(s)

(* Mutated form: only a committed release lets the session start again. *)
MayRestart_committed(s) == s.exited /\ s.released /\ s.committed

(* Only a released session is started again, whatever the decision was. *)
MayRestart(s) == s.exited /\ s.released /\ s.exitAck
=============================================================================
