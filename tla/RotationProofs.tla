--------------------------- MODULE RotationProofs ---------------------------
(***************************************************************************)
(* Theorems about Rotation, for any sets of runners and generations and    *)
(* any number of faults:                                                   *)
(*                                                                         *)
(*   - every variable keeps its type;                                      *)
(*   - as long as exec of a replaced binary does not fail, no Claude       *)
(*     process runs while the credentials are written;                     *)
(*   - under the same assumption Rotation implements AccountRotation, so   *)
(*     every running session uses the account in the credentials file.     *)
(***************************************************************************)
EXTENDS Rotation, TLAPS

-----------------------------------------------------------------------------
(* The handlers of one runner.  A handler that serves a request never       *)
(* changes which process runs: only a start, an exit and Wait do.           *)

Keeps(s, t) == t.mode = s.mode /\ t.child = s.child /\ t.exited = s.exited
Same(s) == {t \in RunnerState : Keeps(s, t)}

(* The handlers of control requests return a runner state and leave its
   process alone. *)
LEMMA ControlHandlers ==
  ASSUME NEW s \in RunnerState, NEW g \in Generations \cup {None},
         NEW v \in BOOLEAN, NEW c \in BOOLEAN
  PROVE  /\ AfterPrepare(s, g, v) \in Same(s)
         /\ AfterExit(s, g, v) \in Same(s)
         /\ AfterRelease(s, g, c) \in Same(s)
<1>1. s \in Same(s)
  BY DEF Same, Keeps
<1>2. [s EXCEPT !.gen = g] \in Same(s) /\ [s EXCEPT !.ready = FALSE] \in Same(s)
  BY DEF Same, Keeps, RunnerState
<1>3. AfterPrepare(s, g, v) \in Same(s)
  BY <1>1, <1>2 DEF AfterPrepare
<1>4. [s EXCEPT !.exitReq = TRUE] \in Same(s)
  BY DEF Same, Keeps, RunnerState
<1>5. AfterExit(s, g, v) \in Same(s)
  BY <1>1, <1>2, <1>4 DEF AfterExit
<1>6. [s EXCEPT !.gen = None, !.exitReq = FALSE, !.released = FALSE,
                !.committed = c] \in Same(s)
  BY DEF Same, Keeps, RunnerState
<1>7. [s EXCEPT !.released = TRUE, !.committed = c] \in Same(s)
  BY DEF Same, Keeps, RunnerState
<1>8. AfterRelease(s, g, c) \in Same(s)
  BY <1>1, <1>6, <1>7 DEF AfterRelease
<1>9. QED BY <1>3, <1>5, <1>8

(* A heartbeat that takes an acknowledgement back does so without touching
   the process. *)
LEMMA RevokedSame ==
  ASSUME NEW s \in RunnerState
  PROVE  Revoked(s) \in Same(s)
<1>1. s \in Same(s)
  BY DEF Same, Keeps
<1>2. ASSUME NEW g \in Generations \cup {None, SelfUpgrade}, NEW c \in BOOLEAN
      PROVE  [s EXCEPT !.exitAck = FALSE, !.exitReq = FALSE, !.gen = g,
                       !.released = FALSE, !.committed = c] \in Same(s)
  BY DEF Same, Keeps, RunnerState
<1>3. s.gen \in Generations \cup {None, SelfUpgrade} /\ s.committed \in BOOLEAN
  BY DEF RunnerState
<1>4. CASE s.released
  <2>1. \/ Revoked(s) = s
        \/ Revoked(s) = [s EXCEPT !.exitAck = FALSE, !.exitReq = FALSE,
                           !.gen = None, !.released = FALSE, !.committed = FALSE]
    BY <1>4 DEF Revoked, RunnerState
  <2>2. QED BY <1>1, <1>2, <2>1
<1>5. CASE ~s.released
  <2>1. \/ Revoked(s) = s
        \/ Revoked(s) = [s EXCEPT !.exitAck = FALSE, !.exitReq = FALSE,
                           !.gen = s.gen, !.released = FALSE, !.committed = s.committed]
    BY <1>5 DEF Revoked, RunnerState
  <2>2. QED BY <1>1, <1>2, <1>3, <2>1
<1>6. QED BY <1>4, <1>5

(* The child's own requests: what is true of the control requests. *)
LEMMA ChildHandlers ==
  ASSUME NEW s \in RunnerState, NEW ready \in BOOLEAN, NEW needs \in BOOLEAN,
         NEW replaced \in BOOLEAN
  PROVE  /\ Heard(s, ready, needs) \in Same(s)
         /\ AfterExiting(s, needs) \in Same(s)
         /\ AfterState(s, replaced) \in Same(s)
         /\ Failed(s) \in Same(s)
         /\ AfterResume(s) \in Same(s)
<1> DEFINE t == Revoked(s)
           u == Abandoned(t, ready)
<1>1. s \in Same(s) /\ t \in Same(s)
  BY RevokedSame DEF Same, Keeps
<1>2. u \in Same(s)
  <2>1. [t EXCEPT !.upgrading = FALSE, !.exitReq = FALSE, !.gen = None] \in Same(s)
    BY <1>1 DEF Same, Keeps, RunnerState
  <2>2. QED BY <1>1, <2>1 DEF Abandoned
<1>3. [u EXCEPT !.ready = ready, !.needs = needs] \in Same(s)
  <2> HIDE DEF t, u
  <2>1. QED BY <1>2 DEF Same, Keeps, RunnerState
<1>4. Heard(s, ready, needs) \in Same(s)
  BY <1>3 DEF Heard
<1>5. AfterExiting(s, needs) \in Same(s)
  BY DEF AfterExiting, Same, Keeps, RunnerState
<1>6. AfterState(s, replaced) \in Same(s)
  <2>1. /\ [s EXCEPT !.resumePending = FALSE] \in Same(s)
        /\ [s EXCEPT !.upgrading = TRUE, !.gen = SelfUpgrade, !.exitReq = TRUE] \in Same(s)
    BY DEF Same, Keeps, RunnerState
  <2>2. QED BY <1>1, <2>1 DEF AfterState
<1>7. Failed(s) \in Same(s)
  BY DEF Failed, Same, Keeps, RunnerState
<1>8. AfterResume(s) \in Same(s)
  BY DEF AfterResume, Same, Keeps, RunnerState
<1>9. QED BY <1>4, <1>5, <1>6, <1>7, <1>8

(* The states a runner is put in when it starts a child, ends, or replaces
   its binary. *)
LEMMA LifeHandlers ==
  /\ Unused \in RunnerState /\ Unused.mode = "unused" /\ Unused.child = "none"
  /\ Gone \in RunnerState /\ Gone.mode = "gone" /\ Gone.child = "none"
  /\ \A s \in RunnerState :
       /\ Started(s) \in RunnerState
       /\ Started(s).mode = "loop" /\ Started(s).child = "alive" /\ ~Started(s).exited
       /\ Inherited(s) \in RunnerState
       /\ Inherited(s).mode = "inherit" /\ Inherited(s).child = "none"
       /\ [Gone EXCEPT !.child = s.child] \in RunnerState
<1>1. Unused \in RunnerState /\ Unused.mode = "unused" /\ Unused.child = "none"
  BY DEF Unused, RunnerState, Modes, Live, Children
<1>2. Gone \in RunnerState /\ Gone.mode = "gone" /\ Gone.child = "none"
  BY <1>1 DEF Gone, RunnerState, Modes, Live, Children
<1>3. ASSUME NEW s \in RunnerState
      PROVE  /\ Started(s) \in RunnerState
             /\ Started(s).mode = "loop" /\ Started(s).child = "alive" /\ ~Started(s).exited
  <2>1. "loop" \in Modes /\ "alive" \in Children
    BY DEF Modes, Live, Children
  <2>2. Started(s) \in RunnerState
    BY <2>1, ZenonT(40) DEF Started, RunnerState
  <2>3. Started(s).mode = "loop" /\ Started(s).child = "alive" /\ ~Started(s).exited
    BY DEF Started, RunnerState
  <2>4. QED BY <2>2, <2>3
<1>4. ASSUME NEW s \in RunnerState
      PROVE  /\ Inherited(s) \in RunnerState
             /\ Inherited(s).mode = "inherit" /\ Inherited(s).child = "none"
  BY <1>1 DEF Inherited, RunnerState, Modes, Live, Children
<1>5. ASSUME NEW s \in RunnerState
      PROVE  [Gone EXCEPT !.child = s.child] \in RunnerState
  BY <1>2 DEF RunnerState
<1>6. QED BY <1>1, <1>2, <1>3, <1>4, <1>5

-----------------------------------------------------------------------------
(* Types.  TypeOK is inductive together with two facts about the           *)
(* coordinator: it calls /release only to release or to cancel, and only   *)
(* for a generation of its own kind.                                       *)

Releasing ==
  co.pc = "release" =>
    /\ co.goal \in {"cancel", "release"}
    /\ \A r \in co.todo : co.view[r].gen \in Generations

TypeInv == TypeOK /\ Releasing

(* What a scan, a cancellation and a retry leave is a coordinator that scans
   or has ended its turn. *)
LEMMA CoordinatorMoves ==
  ASSUME NEW c \in Coordinator
  PROVE  /\ Idle \in Coordinator /\ Idle.pc = "idle"
         /\ \A goal \in {"blockers", "cancel", "prepare", "recheck", "release"} :
              /\ Scanning(c, goal) \in Coordinator
              /\ Scanning(c, goal).pc = "scan" /\ Scanning(c, goal).goal = goal
              /\ Scanning(c, goal).todo = Runners
         /\ BeginPrepare(c) \in Coordinator
         /\ BeginPrepare(c).pc = "scan" /\ BeginPrepare(c).goal \in {"prepare", "cancel"}
         /\ \A b \in BOOLEAN :
              /\ BeginRelease(c, b) \in Coordinator
              /\ BeginRelease(c, b).pc \in {"idle", "scan"}
              /\ BeginRelease(c, b).pc = "scan" => BeginRelease(c, b).goal = "release"
         /\ GiveUp(c) \in Coordinator /\ GiveUp(c).pc \in {"idle", "scan"}
         /\ GiveUp(c).pc = "scan" => GiveUp(c).goal = "release"
         /\ Unanswered(c) \in Coordinator /\ Unanswered(c).pc \in {"idle", "scan"}
         /\ Unanswered(c).pc = "scan" => Unanswered(c).goal = "release"
<1> DEFINE Goals == {"blockers", "cancel", "prepare", "recheck", "release"}
<1>1. [r \in Runners |-> Unseen] \in [Runners -> View]
  BY DEF Unseen, View
<1>2. Idle \in Coordinator /\ Idle.pc = "idle"
  BY <1>1 DEF Idle, Coordinator
<1>3. ASSUME NEW d \in Coordinator, NEW goal \in Goals
      PROVE  /\ Scanning(d, goal) \in Coordinator
             /\ Scanning(d, goal).pc = "scan" /\ Scanning(d, goal).goal = goal
             /\ Scanning(d, goal).todo = Runners
  BY <1>1 DEF Scanning, Coordinator
<1>4. /\ BeginPrepare(c) \in Coordinator
      /\ BeginPrepare(c).pc = "scan" /\ BeginPrepare(c).goal \in {"prepare", "cancel"}
  <2>1. [c EXCEPT !.waiting = FALSE, !.leaving = FALSE] \in Coordinator
    BY DEF Coordinator
  <2>2. QED BY <1>3, <2>1 DEF BeginPrepare
<1>5. ASSUME NEW b \in BOOLEAN
      PROVE  /\ BeginRelease(c, b) \in Coordinator
             /\ BeginRelease(c, b).pc \in {"idle", "scan"}
             /\ BeginRelease(c, b).pc = "scan" => BeginRelease(c, b).goal = "release"
  <2>1. [c EXCEPT !.committed = b, !.failed = "no"] \in Coordinator
    BY DEF Coordinator
  <2>2. QED BY <1>2, <1>3, <2>1 DEF BeginRelease
<1>6. /\ GiveUp(c) \in Coordinator /\ GiveUp(c).pc \in {"idle", "scan"}
      /\ GiveUp(c).pc = "scan" => GiveUp(c).goal = "release"
  BY <1>5 DEF GiveUp
<1>7. /\ Unanswered(c) \in Coordinator /\ Unanswered(c).pc \in {"idle", "scan"}
      /\ Unanswered(c).pc = "scan" => Unanswered(c).goal = "release"
  BY <1>2, <1>6 DEF Unanswered
<1>8. QED BY <1>2, <1>3, <1>4, <1>5, <1>6, <1>7

(* Sessions and records: what the plugin's steps and the runner's writes
   leave. *)
LEMMA RecordTypes ==
  /\ NoFile \in StatusFile /\ Ended \in StatusFile
  /\ \A s \in RunnerState : File(s) \in StatusFile
  /\ \A needs, prompted \in BOOLEAN : NewSession(needs, prompted) \in Session
  /\ NoSession \in Session
<1>1. NoFile \in StatusFile /\ Ended \in StatusFile
  BY DEF NoFile, Ended, StatusFile
<1>2. ASSUME NEW s \in RunnerState PROVE File(s) \in StatusFile
  BY DEF File, StatusFile, RunnerState
<1>3. ASSUME NEW needs \in BOOLEAN, NEW prompted \in BOOLEAN
      PROVE  NewSession(needs, prompted) \in Session
  BY DEF NewSession, Session
<1>4. QED BY <1>1, <1>2, <1>3 DEF NoSession

(* The first state is typed. *)
LEMMA InitType == Init => TypeInv
<1>1. Idle \in Coordinator /\ Idle.pc = "idle"
  <2>1. [r \in Runners |-> Unseen] \in [Runners -> View]
    BY DEF Unseen, View
  <2>2. QED BY <2>1 DEF Idle, Coordinator
<1>2. QED
  BY <1>1, LifeHandlers, RecordTypes, EventsAssumption
  DEF Init, TypeInv, TypeOK, Releasing, NoTxn

-----------------------------------------------------------------------------
(* TypeInv is kept: by the runners' own steps ... *)

(* A step of one runner changes nothing of the coordinator, and the rest in
   one place. *)
LEMMA LocalType ==
  ASSUME TypeInv, NEW r \in Runners,
         NEW t \in RunnerState, NEW p \in Session, NEW f \in StatusFile,
         run' \in {run, [run EXCEPT ![r] = t]},
         ses' \in {ses, [ses EXCEPT ![r] = p]},
         disk' \in {disk, [disk EXCEPT ![r] = f]},
         acct' \in {acct, [acct EXCEPT ![r] = creds]},
         UNCHANGED <<creds, Daemon, late>>,
         faults' \in {faults, faults + 1}
  PROVE  TypeInv'
BY DEF TypeInv, TypeOK, Releasing, Daemon, Queue

(* A start of a child, for a runner state s to start from, keeps the types. *)
LEMMA NewChildType ==
  ASSUME TypeInv, NEW r \in Runners, NEW s \in RunnerState, NEW prompted \in BOOLEAN,
         NewChild(r, s, prompted), faults' \in {faults, faults + 1}
  PROVE  TypeInv'
<1>1. Started(s) \in RunnerState /\ File(Started(s)) \in StatusFile
  BY LifeHandlers, RecordTypes
<1>2. s.needs \in BOOLEAN
  BY DEF RunnerState
<1>3. NewSession(s.needs, prompted) \in Session
  BY <1>2, RecordTypes
<1>4. /\ run' = [run EXCEPT ![r] = Started(s)]
      /\ ses' = [ses EXCEPT ![r] = NewSession(s.needs, prompted)]
      /\ disk' = [disk EXCEPT ![r] = File(Started(s))]
      /\ acct' = [acct EXCEPT ![r] = creds]
      /\ UNCHANGED <<creds, Daemon, late>>
  BY DEF NewChild, Set, Told, Persist
<1>5. QED BY <1>1, <1>3, <1>4, LocalType

(* A runner that ends, with any file left behind, keeps the types. *)
LEMMA EndType ==
  ASSUME TypeInv, NEW r \in Runners, NEW file \in StatusFile, End(r, file),
         faults' \in {faults, faults + 1}
  PROVE  TypeInv'
<1>1. Gone \in RunnerState /\ NoSession \in Session
  BY LifeHandlers, RecordTypes
<1>2. /\ run' = [run EXCEPT ![r] = Gone]
      /\ ses' = [ses EXCEPT ![r] = NoSession]
      /\ disk' = [disk EXCEPT ![r] = file]
      /\ UNCHANGED <<acct, creds, Daemon, late>>
  BY DEF End, Set, Told, Others
<1>3. QED BY <1>1, <1>2, LocalType

(* Every step of a runner keeps the types. *)
LEMMA RunnerType ==
  ASSUME TypeInv, NEW r \in Runners, RunnerStep(r)
  PROVE  TypeInv'
<1> DEFINE s == run[r]
<1>1. s \in RunnerState /\ ses[r] \in Session /\ disk[r] \in StatusFile
  BY DEF TypeInv, TypeOK
<1>2. /\ s.needs \in BOOLEAN /\ s.committed \in BOOLEAN
      /\ Gone \in RunnerState /\ NoSession \in Session
      /\ NoFile \in StatusFile /\ Ended \in StatusFile
  BY <1>1, LifeHandlers, RecordTypes DEF RunnerState
<1>3. /\ {"loop", "exec", "handoff", "inherit", "gone"} \subseteq Modes
      /\ {"none", "alive", "clean", "failed"} \subseteq Children
  BY DEF Modes, Live, Children
<1> USE DEF Spend, Free
<1>4. CASE StartRunner(r)
  <2>1. PICK needs \in BOOLEAN : NewChild(r, [Unused EXCEPT !.needs = needs], FALSE)
    BY <1>4 DEF StartRunner
  <2>2. [Unused EXCEPT !.needs = needs] \in RunnerState
    BY LifeHandlers DEF RunnerState
  <2>3. QED BY <1>4, <2>1, <2>2, NewChildType DEF StartRunner
<1>5. CASE Restart(r)
  <2>1. Continues(s) \in BOOLEAN
    BY <1>2 DEF Continues
  <2>2. QED BY <1>1, <1>5, <2>1, NewChildType DEF Restart
<1>6. CASE RestartFails(r)
  BY <1>2, <1>6, EndType DEF RestartFails
<1>7. CASE ChildDone(r)
  <2> DEFINE w == [s EXCEPT !.exited = TRUE, !.ready = FALSE]
  <2>1. w \in RunnerState /\ File(w) \in StatusFile
    BY <1>1, RecordTypes DEF RunnerState
  <2>2. [w EXCEPT !.mode = "exec"] \in RunnerState
    BY <1>3, <2>1 DEF RunnerState
  <2>3. CASE \E file \in StatusFile : End(r, file)
    BY <1>7, <2>3, EndType DEF ChildDone
  <2>4. CASE /\ run' \in {[run EXCEPT ![r] = w], [run EXCEPT ![r] = [w EXCEPT !.mode = "exec"]]}
             /\ disk' \in {disk, [disk EXCEPT ![r] = File(w)]}
             /\ UNCHANGED <<ses, Others>>
    <3>1. faults' \in {faults, faults + 1}
      BY <1>7 DEF ChildDone
    <3>2. CASE run' = [run EXCEPT ![r] = w]
      BY <1>1, <2>1, <2>4, <3>1, <3>2, LocalType DEF Others
    <3>3. CASE run' = [run EXCEPT ![r] = [w EXCEPT !.mode = "exec"]]
      BY <1>1, <2>1, <2>2, <2>4, <3>1, <3>3, LocalType DEF Others
    <3>4. QED BY <2>4, <3>2, <3>3
  <2>5. QED BY <1>1, <1>2, <1>7, <2>3, <2>4 DEF ChildDone, Set, Persist
<1>8. CASE Overdue(r)
  <2>1. [s EXCEPT !.forced = TRUE] \in RunnerState
    BY <1>1 DEF RunnerState
  <2>2. QED BY <1>1, <1>8, <2>1, LocalType DEF Overdue, Set, Others
<1>9. CASE Killed(r) \/ StopChild(r)
  <2>1. [s EXCEPT !.child = "failed"] \in RunnerState
    BY <1>1, <1>3 DEF RunnerState
  <2>2. QED BY <1>1, <1>9, <2>1, LocalType DEF Killed, StopChild, Set, Others
<1>10. CASE UpgradeGrace(r)
  <2>1. [s EXCEPT !.upgrading = FALSE, !.exitReq = FALSE, !.gen = None] \in RunnerState
    BY <1>1 DEF RunnerState
  <2>2. QED BY <1>1, <1>10, <2>1, LocalType DEF UpgradeGrace, Set, Others
<1>11. CASE Quiet(r)
  <2>1. [s EXCEPT !.ready = FALSE] \in RunnerState
    BY <1>1 DEF RunnerState
  <2>2. QED BY <1>1, <1>11, <2>1, LocalType DEF Quiet, Set, Others
<1>12. CASE ExecOk(r)
  <2>1. Inherited(s) \in RunnerState
    BY <1>1, LifeHandlers
  <2>2. QED BY <1>1, <1>2, <1>12, <2>1, LocalType DEF ExecOk, Set, Told, Others
<1>13. CASE ExecFails(r)
  <2>1. [s EXCEPT !.mode = "handoff", !.upgrading = FALSE, !.gen = None,
                  !.exitReq = FALSE, !.exitAck = FALSE] \in RunnerState
    BY <1>1, <1>3 DEF RunnerState
  <2>2. QED BY <1>1, <1>13, <2>1, LocalType DEF ExecFails, Set, Others
<1>14. CASE ExecDies(r)
  BY <1>1, <1>2, <1>14, EndType DEF ExecDies
<1>15. CASE StartHandoff(r)
  BY <1>1, <1>15, NewChildType DEF StartHandoff
<1>16. CASE Terminated(r)
  <2>1. [s EXCEPT !.stopping = TRUE, !.ready = FALSE] \in RunnerState
    BY <1>1 DEF RunnerState
  <2>2. File([s EXCEPT !.stopping = TRUE, !.ready = FALSE]) \in StatusFile
    BY <2>1, RecordTypes
  <2>3. QED BY <1>1, <1>16, <2>1, <2>2, LocalType DEF Terminated, Set, Persist, Others
<1>17. CASE StopDone(r)
  BY <1>2, <1>17, EndType DEF StopDone
<1>18. CASE RunnerKilled(r)
  <2>1. [Gone EXCEPT !.child = s.child] \in RunnerState
    BY <1>1, LifeHandlers
  <2>2. QED BY <1>1, <1>2, <1>18, <2>1, LocalType DEF RunnerKilled, Set, Told, Others
<1>19. CASE OrphanExit(r)
  BY <1>1, <1>2, <1>19, LocalType DEF OrphanExit, Set, Others
<1>20. CASE Forget(r)
  BY <1>1, <1>2, <1>20, LocalType DEF Forget, Others
<1>21. CASE Resume(r)
  <2>1. AfterResume(s) \in RunnerState
    BY <1>1, ChildHandlers DEF Same
  <2>2. QED BY <1>1, <1>21, <2>1, LocalType DEF Resume, Set, Others
<1>22. QED
  BY <1>4, <1>5, <1>6, <1>7, <1>8, <1>9, <1>10, <1>11, <1>12, <1>13, <1>14,
     <1>15, <1>16, <1>17, <1>18, <1>19, <1>20, <1>21 DEF RunnerStep

-----------------------------------------------------------------------------
(* ... by the plugin's ... *)

(* A heartbeat that is not ready leaves typed records. *)
LEMMA RevokeType ==
  ASSUME TypeInv, NEW r \in Runners, Revoke(r)
  PROVE  \E t \in RunnerState, p \in Session, f \in StatusFile :
           /\ run' \in {run, [run EXCEPT ![r] = t]}
           /\ disk' \in {disk, [disk EXCEPT ![r] = f]}
           /\ ses' = [ses EXCEPT ![r] = p]
<1> DEFINE heard == Heard(run[r], FALSE, ses[r].needs)
           new == AfterState(heard, FALSE)
           p == [ses[r] EXCEPT !.step = "idle"]
<1>1. run[r] \in RunnerState /\ ses[r].needs \in BOOLEAN /\ disk[r] \in StatusFile
  BY DEF TypeInv, TypeOK, Session
<1>2. heard \in RunnerState
  BY <1>1, ChildHandlers DEF Same
<1>3. new \in RunnerState
  <2> HIDE DEF heard
  <2>1. QED BY <1>2, ChildHandlers DEF Same
<1>4. File(new) \in StatusFile
  BY <1>3, RecordTypes
<1>5. p \in Session
  BY SMTT(30) DEF TypeInv, TypeOK, Session
<1>6. /\ run' \in {run, [run EXCEPT ![r] = new]}
      /\ disk' \in {disk, [disk EXCEPT ![r] = File(new)]}
      /\ ses' = [ses EXCEPT ![r] = p]
  BY DEF Revoke, Set, Persist, Told
<1> HIDE DEF new, p
<1>7. QED BY <1>3, <1>4, <1>5, <1>6

(* What a plugin becomes after the answer to its heartbeat is a session. *)
LEMMA FollowType ==
  ASSUME NEW p \in Session, NEW g \in Generations \cup {None, SelfUpgrade},
         NEW action, NEW ready
  PROVE  Follow(p, action, g, ready) \in Session
<1>1. [p EXCEPT !.phase = "run", !.gen = None] \in Session
  BY DEF Session
<1>2. [p EXCEPT !.resumable = FALSE, !.busy = TRUE] \in Session
  BY DEF Session
<1>3. [p EXCEPT !.unknown = TRUE] \in Session
  BY DEF Session
<1>4. /\ [p EXCEPT !.phase = "prepare", !.gen = g, !.step = "asked"] \in Session
      /\ [p EXCEPT !.phase = "prepare", !.gen = g, !.step = p.step] \in Session
  BY DEF Session
<1>5. [p EXCEPT !.phase = "prepare", !.gen = g,
                !.step = IF action = "exit" THEN "asked" ELSE @] \in Session
  BY <1>4
<1>6. QED
  BY <1>1, <1>2, <1>3, <1>5 DEF Follow

(* Every step of a Claude process and its plugin keeps the types. *)
LEMMA SessionType ==
  ASSUME TypeInv, NEW r \in Runners, SessionStep(r)
  PROVE  TypeInv'
<1> DEFINE s == run[r]
           p == ses[r]
<1>1. s \in RunnerState /\ p \in Session /\ disk[r] \in StatusFile
  BY DEF TypeInv, TypeOK
<1>2. p.needs \in BOOLEAN /\ p.resumable \in BOOLEAN
  BY <1>1 DEF Session
<1>3. {"clean", "failed"} \subseteq Children
  BY DEF Children
<1>4. \A step \in {"idle", "asked", "acked", "changed", "exiting"} :
        [p EXCEPT !.step = step] \in Session
  BY <1>1 DEF Session
<1> USE DEF Spend, Free
<1>5. CASE Work(r)
  <2>1. \A step \in {"changed", p.step} :
          [p EXCEPT !.busy = TRUE, !.step = step] \in Session
    BY <1>1 DEF Session
  <2>2. [p EXCEPT !.busy = TRUE, !.step = IF @ = "acked" THEN "changed" ELSE @] \in Session
    BY <2>1
  <2>3. QED BY <1>1, <1>5, <2>2, LocalType DEF Work, Told, Others
<1>6. CASE Finish(r)
  <2>1. PICK limited \in BOOLEAN :
          ses' = [ses EXCEPT ![r] = [p EXCEPT !.busy = FALSE, !.needs = limited,
                                              !.resumable = @ /\ ~limited]]
    BY <1>6 DEF Finish, Told
  <2>2. [p EXCEPT !.busy = FALSE, !.needs = limited,
                  !.resumable = @ /\ ~limited] \in Session
    BY <1>1 DEF Session
  <2>3. QED BY <1>1, <1>6, <2>1, <2>2, LocalType DEF Finish, Others
<1>7. CASE UserExit(r) \/ ChildCrash(r)
  <2>1. /\ [s EXCEPT !.child = "clean"] \in RunnerState
        /\ [s EXCEPT !.child = "failed"] \in RunnerState
    BY <1>1, <1>3 DEF RunnerState
  <2>2. CASE UserExit(r)
    BY <1>1, <1>4, <2>1, <2>2, LocalType DEF UserExit, Set, Told, Others
  <2>3. CASE ChildCrash(r)
    BY <1>1, <2>1, <2>3, LocalType DEF ChildCrash, Set, Others
  <2>4. QED BY <1>7, <2>2, <2>3
<1>8. CASE Heartbeat(r)
  <2> DEFINE ready == Settled(p)
             heard == Heard(s, ready, p.needs)
             told(replaced) == Follow(p, StateAction(heard, replaced),
                                      AfterState(heard, replaced).gen, ready)
  <2>1. ready \in BOOLEAN
    BY <1>1 DEF Settled
  <2>2. heard \in RunnerState
    BY <1>1, <1>2, <2>1, ChildHandlers DEF Same
  <2> HIDE DEF ready, heard
  <2>3. ASSUME NEW replaced \in BOOLEAN
        PROVE  /\ AfterState(heard, replaced) \in RunnerState
               /\ File(AfterState(heard, replaced)) \in StatusFile
               /\ told(replaced) \in Session
    <3>1. AfterState(heard, replaced) \in RunnerState
      BY <2>2, ChildHandlers DEF Same
    <3>2. AfterState(heard, replaced).gen \in Generations \cup {None, SelfUpgrade}
      BY <3>1 DEF RunnerState
    <3>3. QED BY <1>1, <3>1, <3>2, FollowType, RecordTypes
  <2>4. Failed(AfterState(heard, FALSE)) \in RunnerState
    BY <2>3, ChildHandlers DEF Same
  <2> HIDE DEF told
  <2>5. CASE \E replaced \in BOOLEAN :
               /\ run' = [run EXCEPT ![r] = AfterState(heard, replaced)]
               /\ disk' = [disk EXCEPT ![r] = File(AfterState(heard, replaced))]
               /\ ses' = [ses EXCEPT ![r] = told(replaced)]
    BY <1>8, <2>3, <2>5, LocalType DEF Heartbeat, Others
  <2>6. CASE /\ run' = [run EXCEPT ![r] = Failed(AfterState(heard, FALSE))]
             /\ UNCHANGED <<ses, disk>>
    BY <1>1, <1>8, <2>4, <2>6, LocalType DEF Heartbeat, Others
  <2>7. QED
    BY <1>8, <2>5, <2>6 DEF Heartbeat, Set, Persist, Told, ready, heard, told
<1>9. CASE Acknowledge(r)
  <2> DEFINE new == AfterExiting(s, p.needs)
  <2>1. new \in RunnerState
    BY <1>1, <1>2, ChildHandlers DEF Same
  <2> HIDE DEF new
  <2>2. File(new) \in StatusFile
    BY <2>1, RecordTypes
  <2>3. [Failed(new) EXCEPT !.exitAck = FALSE] \in RunnerState
    BY <2>1 DEF Failed, RunnerState
  <2>4. [s EXCEPT !.ready = FALSE] \in RunnerState
    BY <1>1 DEF RunnerState
  <2>5. /\ \/ run' = run
           \/ run' = [run EXCEPT ![r] = new]
           \/ run' = [run EXCEPT ![r] = [Failed(new) EXCEPT !.exitAck = FALSE]]
           \/ run' = [run EXCEPT ![r] = [s EXCEPT !.ready = FALSE]]
        /\ \E step \in {"idle", "acked"} : ses' = [ses EXCEPT ![r] = [p EXCEPT !.step = step]]
        /\ disk' \in {disk, [disk EXCEPT ![r] = File(new)]}
        /\ UNCHANGED Others
        /\ faults' \in {faults, faults + 1}
    BY <1>9 DEF Acknowledge, Set, Persist, Told, new
  <2>6. QED BY <1>1, <1>4, <2>1, <2>2, <2>3, <2>4, <2>5, LocalType DEF Others
<1>10. CASE FinalCheck(r)
  <2>1. CASE Revoke(r)
    BY <1>10, <2>1, RevokeType, LocalType DEF FinalCheck, Others
  <2>2. CASE ~Revoke(r)
    BY <1>1, <1>4, <1>10, <2>2, LocalType DEF FinalCheck, Told, Others
  <2>3. QED BY <2>1, <2>2
<1>11. CASE RunExit(r)
  <2>1. CASE Revoke(r)
    BY <1>11, <2>1, RevokeType, LocalType DEF RunExit, Others
  <2>2. CASE ~Revoke(r)
    <3>1. [s EXCEPT !.child = "clean"] \in RunnerState
      BY <1>1, <1>3 DEF RunnerState
    <3>2. QED BY <1>1, <1>11, <2>2, <3>1, LocalType DEF RunExit, Set, Others
  <2>3. QED BY <2>1, <2>2
<1>12. QED
  BY <1>5, <1>6, <1>7, <1>8, <1>9, <1>10, <1>11 DEF SessionStep

-----------------------------------------------------------------------------
(* ... and by the coordinator's. *)

(* A request changes at most the runner it is sent to, and leaves the
   process alone. *)
LEMMA HandledSame ==
  ASSUME NEW s \in RunnerState, NEW m \in Message, NEW verified \in BOOLEAN
  PROVE  Handled(s, m, verified) \in Same(s)
<1>1. /\ m.gen \in Generations \cup {None} /\ m.commit \in BOOLEAN
      /\ m.route \in {"prepare", "exit", "release"}
  BY DEF Message
<1>2. /\ AfterPrepare(s, m.gen, verified) \in Same(s)
      /\ AfterExit(s, m.gen, verified) \in Same(s)
      /\ AfterRelease(s, m.gen, m.commit) \in Same(s)
  BY <1>1, ControlHandlers
<1>3. QED BY <1>1, <1>2 DEF Handled

(* What a request leaves in the runner and its record, whatever its end. *)
Served(r) ==
  \/ UNCHANGED <<run, disk>>
  \/ \E t \in Same(run[r]) :
       /\ run' = [run EXCEPT ![r] = t]
       /\ disk' \in {disk, [disk EXCEPT ![r] = File(t)]}

(* A request of the coordinator does to its runner what Served allows, however
   it ends for the coordinator. *)
LEMMA CallServes ==
  ASSUME TypeInv, NEW m \in Message, NEW verified \in BOOLEAN,
         NEW answered, NEW refused, NEW silence,
         Call(m, verified, answered, refused, silence)
  PROVE  /\ Served(m.to) /\ co' \in {answered, refused, silence}
         /\ late' \in {late, late \cup {m}} /\ faults' \in {faults, faults + 1}
<1> DEFINE s == run[m.to]
           new == Handled(s, m, verified)
           good == Handled(s, m, TRUE)
<1>1. s \in RunnerState
  BY DEF TypeInv, TypeOK, Message
<1>2. new \in Same(s) /\ good \in Same(s)
  BY <1>1, HandledSame
<1> HIDE DEF new, good
<1>3. Failed(good) \in Same(s)
  BY <1>2, ChildHandlers DEF Same, Keeps
<1>4. /\ \/ UNCHANGED <<run, disk>>
         \/ /\ run' = [run EXCEPT ![m.to] = new]
            /\ disk' \in {disk, [disk EXCEPT ![m.to] = File(new)]}
         \/ /\ run' = [run EXCEPT ![m.to] = Failed(good)]
            /\ UNCHANGED disk
      /\ co' \in {answered, refused, silence}
      /\ late' \in {late, late \cup {m}} /\ faults' \in {faults, faults + 1}
  BY DEF Call, Handle, Set, Persist, Gate, Spend, Free, new, good
<1>5. QED BY <1>2, <1>3, <1>4 DEF Served

(* So does a request that is handled after the coordinator gave up on it. *)
LEMMA LateCallServes ==
  ASSUME TypeInv, NEW m \in late, LateCall(m)
  PROVE  /\ m \in Message /\ Served(m.to) /\ late' \subseteq late
         /\ faults' \in {faults, faults + 1}
         /\ UNCHANGED <<ses, acct, creds, Daemon>>
<1>1. m \in Message
  BY DEF TypeInv, TypeOK
<1>2. run[m.to] \in RunnerState
  BY <1>1 DEF TypeInv, TypeOK, Message
<1>3. CASE \E verified \in BOOLEAN : Handle(m, verified) /\ Gate(verified)
  <2>1. PICK verified \in BOOLEAN : Handle(m, verified) /\ Gate(verified)
    BY <1>3
  <2>2. Handled(run[m.to], m, verified) \in Same(run[m.to])
    BY <1>1, <1>2, HandledSame
  <2>3. Served(m.to) /\ faults' \in {faults, faults + 1}
    BY <2>1, <2>2 DEF Handle, Set, Persist, Gate, Spend, Free, Served
  <2>4. QED BY <1>1, <2>3 DEF LateCall
<1>4. CASE ~\E verified \in BOOLEAN : Handle(m, verified) /\ Gate(verified)
  BY <1>1, <1>4 DEF LateCall, Served, Free
<1>5. QED BY <1>3, <1>4

(* A request of the coordinator keeps the types, if its three ends do. *)
LEMMA ServedType ==
  ASSUME TypeInv, NEW m \in Message, Served(m.to),
         late' \subseteq late \cup {m}, faults' \in {faults, faults + 1},
         co' \in Coordinator, Releasing',
         UNCHANGED <<ses, acct, creds, Queue, pending>>
  PROVE  TypeInv'
<1>1. m.to \in Runners
  BY DEF Message
<1>2. run' \in [Runners -> RunnerState] /\ disk' \in [Runners -> StatusFile]
  <2>1. CASE UNCHANGED <<run, disk>>
    BY <2>1 DEF TypeInv, TypeOK
  <2>2. CASE \E t \in Same(run[m.to]) :
               /\ run' = [run EXCEPT ![m.to] = t]
               /\ disk' \in {disk, [disk EXCEPT ![m.to] = File(t)]}
    <3>1. PICK t \in Same(run[m.to]) :
               /\ run' = [run EXCEPT ![m.to] = t]
               /\ disk' \in {disk, [disk EXCEPT ![m.to] = File(t)]}
      BY <2>2
    <3>2. t \in RunnerState /\ File(t) \in StatusFile
      BY RecordTypes DEF Same
    <3>3. QED BY <1>1, <3>1, <3>2 DEF TypeInv, TypeOK
  <2>3. QED BY <2>1, <2>2 DEF Served
<1>3. late' \subseteq Message
  BY DEF TypeInv, TypeOK
<1>4. QED BY <1>2, <1>3 DEF TypeInv, TypeOK, Queue

(* A step of the coordinator that changes nothing else but, perhaps, the
   transaction it has in pending.json. *)
LEMMA MoveType ==
  ASSUME TypeInv, co' \in Coordinator, Releasing',
         UNCHANGED <<run, ses, disk, acct, late>>,
         creds' \in Generations \cup {None}, pend' \in Generations \cup {None},
         used' \subseteq Generations,
         pending' \in [gen : Generations \cup {None}, ids : SUBSET Runners],
         faults' \in {faults, faults + 1}
  PROVE  TypeInv'
BY DEF TypeInv, TypeOK

(* The types the coordinator's steps read. *)
LEMMA CoordinatorTyped ==
  ASSUME TypeInv
  PROVE  /\ co \in Coordinator /\ co.gen \in Generations \cup {None}
         /\ co.committed \in BOOLEAN /\ co.manual \in BOOLEAN /\ co.goal \in
              {"blockers", "cancel", "prepare", "recheck", "release"}
         /\ creds \in Generations \cup {None} /\ pend \in Generations \cup {None}
         /\ used \subseteq Generations
         /\ pending \in [gen : Generations \cup {None}, ids : SUBSET Runners]
         /\ pending.ids \subseteq Runners
         /\ Participants(co) \subseteq Runners
         /\ \A todo \in SUBSET Runners : [co EXCEPT !.todo = todo] \in Coordinator
         /\ \A todo \in SUBSET Runners, waiting, leaving \in BOOLEAN :
              [co EXCEPT !.todo = todo, !.waiting = waiting, !.leaving = leaving] \in Coordinator
         /\ co.waiting \in BOOLEAN /\ co.leaving \in BOOLEAN /\ co.todo \subseteq Runners
<1>1. co \in Coordinator
  BY DEF TypeInv, TypeOK
<1>2. /\ creds \in Generations \cup {None} /\ pend \in Generations \cup {None}
      /\ used \subseteq Generations
      /\ pending \in [gen : Generations \cup {None}, ids : SUBSET Runners]
      /\ pending.ids \subseteq Runners
  BY DEF TypeInv, TypeOK
<1>3. QED BY <1>1, <1>2 DEF Coordinator, Participants

(* Every step of the coordinator keeps the types. *)
LEMMA CoordinatorType ==
  ASSUME TypeInv, CoordinatorStep
  PROVE  TypeInv'
<1>1. /\ co \in Coordinator /\ co.gen \in Generations \cup {None}
      /\ co.committed \in BOOLEAN
      /\ co.waiting \in BOOLEAN /\ co.leaving \in BOOLEAN /\ co.todo \subseteq Runners
      /\ creds \in Generations \cup {None} /\ pend \in Generations \cup {None}
      /\ used \subseteq Generations
      /\ pending \in [gen : Generations \cup {None}, ids : SUBSET Runners]
      /\ Participants(co) \subseteq Runners
      /\ pend \in Generations \cup {None}
  BY CoordinatorTyped
<1>2. /\ GiveUp(co) \in Coordinator /\ GiveUp(co).pc \in {"idle", "scan"}
      /\ Unanswered(co) \in Coordinator /\ Unanswered(co).pc \in {"idle", "scan"}
      /\ Idle \in Coordinator /\ Idle.pc = "idle"
      /\ BeginPrepare(co) \in Coordinator /\ BeginPrepare(co).pc = "scan"
      /\ \A goal \in {"prepare", "recheck"} :
           Scanning(co, goal) \in Coordinator /\ Scanning(co, goal).pc = "scan"
      /\ \A b \in BOOLEAN :
           BeginRelease(co, b) \in Coordinator /\ BeginRelease(co, b).pc \in {"idle", "scan"}
  BY <1>1, CoordinatorMoves
<1>3. ASSUME co'.pc # "release" PROVE Releasing'
  BY <1>3 DEF Releasing
<1> USE DEF Spend, Free
<1>4. ASSUME NEW r \in Runners, ScanStep(r)
      PROVE  TypeInv'
  <2>1. disk[r] \in StatusFile /\ run[r] \in RunnerState
    BY DEF TypeInv, TypeOK
  <2>2. ASSUME NEW v \in View
        PROVE  /\ [co EXCEPT !.view[r] = v, !.todo = @ \ {r}] \in Coordinator
               /\ [co EXCEPT !.view[r] = v, !.todo = @ \ {r}].pc = co.pc
    <3>1. [co.view EXCEPT ![r] = v] \in [Runners -> View]
      BY <1>1 DEF Coordinator
    <3>2. QED BY <1>1, <3>1 DEF Coordinator
  <2>3. /\ Unseen \in View
        /\ [kind |-> "stale", gen |-> disk[r].gen, exited |-> disk[r].exited] \in View
        /\ [kind |-> "live", gen |-> run[r].gen, exited |-> run[r].exited] \in View
    BY <2>1 DEF Unseen, View, StatusFile, RunnerState
  <2>4. co' \in Coordinator /\ co'.pc \in {"idle", "scan"}
    <3>1. co.pc = "scan"
      BY <1>4 DEF ScanStep
    <3>2. \/ co' = Unanswered(co)
          \/ \E v \in View : co' = [co EXCEPT !.view[r] = v, !.todo = @ \ {r}]
      BY <1>4, <2>3 DEF ScanStep
    <3>3. QED BY <1>2, <2>2, <3>1, <3>2
  <2>5. QED BY <1>1, <1>3, <1>4, <2>4, MoveType DEF ScanStep, Queue
<1>5. ASSUME NEW r \in Runners, CallPrepare(r)
      PROVE  TypeInv'
  <2> DEFINE m == Request(r, "prepare", co.gen, FALSE)
             s(v) == Handled(run[r], m, v)
             waits(v) == PrepareWaits(s(v), co.gen)
             next(v) == [co EXCEPT !.todo = @ \ {r}, !.waiting = @ \/ waits(v),
                           !.leaving = @ \/ (waits(v) /\ ReplyExiting(s(v))
                                               /\ ~s(v).upgrading /\ ~s(v).stopping)]
  <2>1. m \in Message /\ m.to = r
    BY <1>1 DEF Request, Message
  <2>2. PICK v \in BOOLEAN : Call(m, v, next(v), GiveUp(co), Unanswered(co))
    BY <1>5 DEF CallPrepare
  <2> HIDE DEF m
  <2>3. co.pc = "prepare" /\ UNCHANGED <<ses, acct, creds, Queue, pending>>
    BY <1>5 DEF CallPrepare
  <2>4. next(v) \in Coordinator /\ next(v).pc = "prepare"
    <3> HIDE DEF waits, s
    <3>1. QED BY <1>1, <2>3 DEF Coordinator
  <2> HIDE DEF next
  <2>5. /\ Served(m.to) /\ co' \in {next(v), GiveUp(co), Unanswered(co)}
        /\ late' \in {late, late \cup {m}} /\ faults' \in {faults, faults + 1}
    BY <2>1, <2>2, CallServes
  <2>6. co' \in Coordinator /\ co'.pc # "release"
    BY <1>2, <2>4, <2>5
  <2>7. late' \subseteq late \cup {m}
    BY <2>5
  <2>8. QED BY <1>3, <2>1, <2>3, <2>5, <2>6, <2>7, ServedType
<1>6. ASSUME NEW r \in Runners, CallExit(r)
      PROVE  TypeInv'
  <2> DEFINE m == Request(r, "exit", co.gen, FALSE)
             next == [co EXCEPT !.todo = @ \ {r}]
  <2>1. m \in Message /\ m.to = r
    BY <1>1 DEF Request, Message
  <2>2. PICK v \in BOOLEAN : Call(m, v, next, GiveUp(co), Unanswered(co))
    BY <1>6 DEF CallExit
  <2> HIDE DEF m
  <2>3. co.pc = "exit" /\ UNCHANGED <<ses, acct, creds, Queue, pending>>
    BY <1>6 DEF CallExit
  <2>4. next \in Coordinator /\ next.pc = "exit"
    BY <1>1, <2>3 DEF Coordinator
  <2> HIDE DEF next
  <2>5. /\ Served(m.to) /\ co' \in {next, GiveUp(co), Unanswered(co)}
        /\ late' \in {late, late \cup {m}} /\ faults' \in {faults, faults + 1}
    BY <2>1, <2>2, CallServes
  <2>6. co' \in Coordinator /\ co'.pc # "release"
    BY <1>2, <2>4, <2>5
  <2>7. late' \subseteq late \cup {m}
    BY <2>5
  <2>8. QED BY <1>3, <2>1, <2>3, <2>5, <2>6, <2>7, ServedType
<1>7. ASSUME NEW r \in Runners, CallStatus(r)
      PROVE  TypeInv'
  <2> DEFINE waits == run[r].gen # co.gen \/ ~run[r].exited
             next == [co EXCEPT !.todo = @ \ {r}, !.waiting = @ \/ waits,
                                !.leaving = @ \/ waits]
  <2>1. co.pc = "status" /\ co' \in {next, GiveUp(co), Unanswered(co)}
    BY <1>7 DEF CallStatus
  <2>2. next \in Coordinator /\ next.pc = co.pc
    <3> HIDE DEF waits
    <3>1. QED BY <1>1 DEF Coordinator
  <2> HIDE DEF next
  <2>3. co' \in Coordinator /\ co'.pc # "release"
    BY <1>2, <2>1, <2>2
  <2>4. QED BY <1>1, <1>3, <1>7, <2>3, MoveType DEF CallStatus, Queue
<1>8. ASSUME NEW r \in Runners, CallRelease(r)
      PROVE  TypeInv'
  <2> DEFINE m == Request(r, "release", co.view[r].gen, co.goal = "release" /\ co.committed)
             next == [co EXCEPT !.todo = @ \ {r}]
             Failing(how) == [next EXCEPT !.failed = IF @ = "silent" THEN @ ELSE how]
  <2>1. co.pc = "release" /\ r \in co.todo /\ UNCHANGED <<ses, acct, creds, Queue, pending>>
    BY <1>8 DEF CallRelease
  <2>2. co.view[r].gen \in Generations /\ co.goal \in {"cancel", "release"}
    BY <2>1 DEF TypeInv, Releasing
  <2>3. m \in Message /\ m.to = r
    BY <1>1, <2>2 DEF Request, Message
  <2>4. Call(m, TRUE, next, Failing("refused"), Failing("silent"))
    BY <1>8 DEF CallRelease
  <2>5. /\ next \in Coordinator /\ next.pc = co.pc /\ next.goal = co.goal
        /\ next.view = co.view /\ next.todo = co.todo \ {r}
    BY <1>1 DEF Coordinator
  <2> HIDE DEF m, next
  <2>6. ASSUME NEW how \in {"refused", "silent"}
        PROVE  /\ Failing(how) \in Coordinator /\ Failing(how).pc = co.pc
               /\ Failing(how).goal = co.goal /\ Failing(how).view = co.view
               /\ Failing(how).todo = co.todo \ {r}
    BY <2>5 DEF Coordinator
  <2> HIDE DEF Failing
  <2>7. /\ Served(m.to) /\ co' \in {next, Failing("refused"), Failing("silent")}
        /\ late' \in {late, late \cup {m}} /\ faults' \in {faults, faults + 1}
    <3>1. TRUE \in BOOLEAN
      OBVIOUS
    <3>2. QED BY <2>3, <2>4, <3>1, CallServes
  <2>8. /\ co' \in Coordinator /\ co'.goal = co.goal /\ co'.view = co.view
        /\ co'.todo = co.todo \ {r}
    BY <2>5, <2>6, <2>7
  <2>9. Releasing'
    BY <2>1, <2>8 DEF TypeInv, Releasing
  <2>10. late' \subseteq late \cup {m}
    BY <2>7
  <2>11. QED BY <2>1, <2>3, <2>7, <2>8, <2>9, <2>10, ServedType
<1>9. CASE HasBlockers
  <2> DEFINE c == [co EXCEPT !.blockers =
                     {r \in Runners : co.view[r].kind # "none" /\ ~co.view[r].exited}]
  <2>1. c \in Coordinator
    BY <1>1 DEF Coordinator
  <2> HIDE DEF c
  <2>2. BeginPrepare(c) \in Coordinator /\ BeginPrepare(c).pc = "scan"
    BY <2>1, CoordinatorMoves
  <2>3. co' = BeginPrepare(c)
    BY <1>9 DEF HasBlockers, c
  <2>4. QED BY <1>1, <1>3, <1>9, <2>2, <2>3, MoveType DEF HasBlockers, Queue
<1>10. CASE Enroll
  <2> DEFINE live == {r \in Runners : co.view[r].kind = "live"}
  <2>1. /\ pending' \in {pending, [gen |-> co.gen, ids |-> live]}
        /\ \/ co' = GiveUp(co)
           \/ \E todo \in {live, Participants(co)} :
                co' = [co EXCEPT !.pc = "prepare", !.todo = todo]
    BY <1>10 DEF Enroll
  <2>2. live \subseteq Runners
    OBVIOUS
  <2> HIDE DEF live
  <2>3. pending' \in [gen : Generations \cup {None}, ids : SUBSET Runners]
    BY <1>1, <2>1, <2>2
  <2>4. co' \in Coordinator /\ co'.pc # "release"
    <3>1. ASSUME NEW todo \in SUBSET Runners
          PROVE  /\ [co EXCEPT !.pc = "prepare", !.todo = todo] \in Coordinator
                 /\ [co EXCEPT !.pc = "prepare", !.todo = todo].pc = "prepare"
      BY <1>1 DEF Coordinator
    <3>2. CASE co' = GiveUp(co)
      BY <1>2, <3>2
    <3>3. CASE co' # GiveUp(co)
      <4>1. PICK todo \in {live, Participants(co)} :
              co' = [co EXCEPT !.pc = "prepare", !.todo = todo]
        BY <2>1, <3>3
      <4>2. todo \in SUBSET Runners
        BY <1>1, <2>2
      <4>3. QED BY <3>1, <4>1, <4>2
    <3>4. QED BY <3>2, <3>3
  <2>5. UNCHANGED <<run, ses, disk, acct, creds, Queue, late>> /\ faults' = faults
    BY <1>10 DEF Enroll
  <2>6. QED BY <1>1, <1>3, <2>3, <2>4, <2>5, MoveType DEF Queue
<1>11. CASE LoopDone
  <2>1. ASSUME NEW pc \in {"exit", "status"}
        PROVE  /\ [co EXCEPT !.pc = pc, !.todo = Participants(co)] \in Coordinator
               /\ [co EXCEPT !.pc = pc, !.todo = Participants(co)].pc = pc
    BY <1>1 DEF Coordinator
  <2>2. \/ co' \in {Idle, GiveUp(co), BeginPrepare(co), Scanning(co, "recheck")}
        \/ \E pc \in {"exit", "status"} :
             co' = [co EXCEPT !.pc = pc, !.todo = Participants(co)]
    BY <1>11 DEF LoopDone, NotReady
  <2>3. co' \in Coordinator /\ co'.pc # "release"
    BY <1>2, <2>1, <2>2
  <2>4. faults' \in {faults, faults + 1}
    BY <1>11 DEF LoopDone, NotReady
  <2>5. QED BY <1>1, <1>3, <1>11, <2>3, <2>4, MoveType DEF LoopDone, Queue
<1>12. CASE Recheck
  <2>1. [co EXCEPT !.pc = "write"] \in Coordinator /\ [co EXCEPT !.pc = "write"].pc = "write"
    BY <1>1 DEF Coordinator
  <2>2. co' \in {GiveUp(co), [co EXCEPT !.pc = "write"]}
    BY <1>12 DEF Recheck
  <2>3. QED BY <1>1, <1>2, <1>3, <1>12, <2>1, <2>2, MoveType DEF Recheck, Queue
<1>13. CASE Write
  <2>1. co' \in {BeginRelease(co, TRUE), GiveUp(co)}
    BY <1>13 DEF Write
  <2>2. creds' \in Generations \cup {None} /\ pend' \in Generations \cup {None}
    BY <1>1, <1>13 DEF Write
  <2>3. QED BY <1>1, <1>2, <1>3, <1>13, <2>1, <2>2, MoveType DEF Write
<1>14. CASE BeginCalls
  <2> DEFINE gen == ReleaseGen(co)
             todo == {r \in Runners :
                        /\ co.view[r].kind = "live"
                        /\ co.view[r].gen # None /\ gen \in {None, co.view[r].gen}
                        /\ co.view[r].gen # SelfUpgrade}
             calls == [co EXCEPT !.pc = "release", !.failed = "no", !.todo = todo]
  <2>1. co' \in {GiveUp(co), Idle, calls} /\ co.goal \in {"cancel", "release"}
    BY <1>14 DEF BeginCalls
  <2>2. todo \subseteq Runners /\ \A r \in todo : co.view[r].gen \in Generations
    <3>1. \A r \in Runners : co.view[r].gen \in Generations \cup {None, SelfUpgrade}
      BY <1>1 DEF Coordinator, View
    <3>2. QED BY <3>1
  <2> HIDE DEF todo
  <2>3. /\ calls \in Coordinator /\ calls.goal = co.goal /\ calls.todo = todo
        /\ calls.view = co.view
    BY <1>1, <2>2 DEF Coordinator
  <2> HIDE DEF calls
  <2>4. co' \in Coordinator
    BY <1>2, <2>1, <2>3
  <2>5. Releasing'
    <3>1. CASE co' = calls
      BY <2>1, <2>2, <2>3, <3>1 DEF Releasing
    <3>2. CASE co' \in {GiveUp(co), Idle}
      BY <1>2, <1>3, <3>2
    <3>3. QED BY <2>1, <3>1, <3>2
  <2>6. QED BY <1>1, <1>14, <2>4, <2>5, MoveType DEF BeginCalls, Queue
<1>15. CASE ReleaseDone
  <2>1. co.goal \in {"cancel", "release"} /\ co.failed \in {"no", "refused", "silent"}
    BY <1>1, <1>15 DEF ReleaseDone, TypeInv, Releasing, Coordinator
  <2>2. co' \in {Idle, GiveUp(co), Unanswered(co), Scanning(co, "prepare")}
    BY <1>15, <2>1 DEF ReleaseDone
  <2>3. pending' \in [gen : Generations \cup {None}, ids : SUBSET Runners]
    BY <1>1, <1>15 DEF ReleaseDone, NoTxn
  <2>4. co' \in Coordinator /\ co'.pc # "release"
    BY <1>2, <2>2
  <2>5. QED BY <1>1, <1>3, <1>15, <2>3, <2>4, MoveType DEF ReleaseDone, Queue
<1>16. QED
  BY <1>4, <1>5, <1>6, <1>7, <1>8, <1>9, <1>10, <1>11, <1>12, <1>13, <1>14, <1>15
  DEF CoordinatorStep

(* Every step keeps the types. *)
LEMMA NextType ==
  ASSUME TypeInv, [Next]_vars
  PROVE  TypeInv'
<1>1. /\ creds \in Generations \cup {None} /\ pend \in Generations \cup {None}
      /\ used \subseteq Generations
      /\ pending \in [gen : Generations \cup {None}, ids : SUBSET Runners]
      /\ co \in Coordinator
  BY CoordinatorTyped
<1>2. Idle \in Coordinator /\ Idle.pc = "idle"
  BY <1>1, CoordinatorMoves
<1>3. ASSUME co'.pc # "release" PROVE Releasing'
  BY <1>3 DEF Releasing
<1>4. ASSUME NEW c \in Coordinator, c.pc # "release", Start(c),
             pend' \in Generations \cup {None}, used' \subseteq Generations,
             faults' \in {faults, faults + 1}
      PROVE  TypeInv'
  BY <1>1, <1>3, <1>4, MoveType DEF Start
<1> USE DEF Spend, Free
<1>5. CASE QueueSwitch
  <2>1. pend' \in Generations \cup {None} /\ used' \subseteq Generations
    BY <1>1, <1>5 DEF QueueSwitch
  <2>2. Releasing'
    BY <1>5 DEF QueueSwitch, TypeInv, Releasing
  <2>3. QED BY <1>1, <1>5, <2>1, <2>2, MoveType DEF QueueSwitch
<1>6. CASE Tick
  <2> DEFINE c == [Idle EXCEPT !.gen = pend]
  <2>1. c \in Coordinator
    BY <1>1, <1>2 DEF Coordinator
  <2> HIDE DEF c
  <2>2. /\ Scanning(Idle, "release") \in Coordinator /\ Scanning(Idle, "release").pc = "scan"
        /\ Scanning(c, "blockers") \in Coordinator /\ Scanning(c, "blockers").pc = "scan"
    BY <1>2, <2>1, CoordinatorMoves
  <2>3. Start(Scanning(Idle, "release")) \/ Start(Scanning(c, "blockers"))
    BY <1>6 DEF Tick, c
  <2>4. /\ pend' \in Generations \cup {None} /\ used' \subseteq Generations
        /\ faults' \in {faults, faults + 1}
    BY <1>1, <1>6 DEF Tick, Queue
  <2>5. QED BY <1>4, <2>2, <2>3, <2>4
<1>7. CASE ManualSwitch
  <2>1. PICK g \in Generations \ used :
          /\ used' = used \cup {g} /\ UNCHANGED pend
          /\ Start(BeginPrepare([Idle EXCEPT !.gen = g, !.manual = TRUE]))
    BY <1>7 DEF ManualSwitch
  <2> DEFINE c == [Idle EXCEPT !.gen = g, !.manual = TRUE]
  <2>2. c \in Coordinator
    BY <1>2 DEF Coordinator
  <2> HIDE DEF c
  <2>3. BeginPrepare(c) \in Coordinator /\ BeginPrepare(c).pc = "scan"
    BY <2>2, CoordinatorMoves
  <2>4. Start(BeginPrepare(c))
    BY <2>1 DEF c
  <2>5. QED BY <1>1, <1>4, <1>7, <2>1, <2>3, <2>4 DEF ManualSwitch
<1>8. CASE CoordinatorDies
  BY <1>1, <1>2, <1>3, <1>8, MoveType DEF CoordinatorDies, Queue
<1>9. CASE \E m \in late : LateCall(m)
  <2>1. PICK m \in late : LateCall(m)
    BY <1>9
  <2>2. /\ m \in Message /\ Served(m.to) /\ late' \subseteq late
        /\ faults' \in {faults, faults + 1}
        /\ UNCHANGED <<ses, acct, creds, Daemon>>
    BY <2>1, LateCallServes
  <2>3. Releasing' /\ co' \in Coordinator /\ late' \subseteq late \cup {m}
    BY <1>1, <2>2 DEF TypeInv, Releasing, Daemon
  <2>4. QED BY <2>2, <2>3, ServedType DEF Daemon
<1>10. CASE UNCHANGED vars
  BY <1>10 DEF vars, TypeInv, TypeOK, Releasing
<1>11. QED
  BY <1>5, <1>6, <1>7, <1>8, <1>9, <1>10, RunnerType, SessionType, CoordinatorType
  DEF Next

(* Every variable keeps its type, whatever the events and the bound on their
   number. *)
THEOREM TypeCorrect == Spec => []TypeOK
<1>1. Spec => []TypeInv
  BY InitType, NextType, PTL DEF Spec
<1>2. TypeInv => TypeOK
  BY DEF TypeInv
<1>3. QED BY <1>1, <1>2, PTL

-----------------------------------------------------------------------------
(* No Claude process runs while the credentials are written.  That alone is *)
(* not inductive.  It rests on what a record says of a process that runs,   *)
(* whether or not its runner is still there, and on what the last scan saw. *)

(* A process that runs is one its runner supervises, or one a killed runner
   left behind; in both cases its record is there and does not say that it
   exited. *)
RecordHolds ==
  \A r \in Runners :
    Alive(r) =>
      /\ run[r].mode \in {"loop", "gone"}
      /\ ~run[r].exited
      /\ disk[r].there /\ ~disk[r].exited

(* No runner starts its session again without claude.lock. *)
NoHandoff == \A r \in Runners : run[r].mode # "handoff"

(* What the last look at the sessions found gone is still gone. *)
SeenGone ==
  co.pc = "scan" /\ co.goal = "recheck" =>
    \A r \in Runners \ co.todo :
      co.view[r].kind = "none" \/ co.view[r].exited => ~Alive(r)

ChildInv == RecordHolds /\ NoHandoff /\ SeenGone /\ NoChildDuringWrite

(* The coordinator is about to write, or looks at the sessions for that. *)
Committing(c) == c.pc = "write" \/ (c.pc = "scan" /\ c.goal = "recheck")

-----------------------------------------------------------------------------
(* What a step can do to a process.  Served(r), above, leaves it alone; the *)
(* others start it, end it, or take its runner away.                        *)

Begins(r) ==
  /\ ~Alive(r) /\ LockFree
  /\ \E s \in RunnerState, prompted \in BOOLEAN : NewChild(r, s, prompted)

Ends(r) ==
  /\ \E t \in RunnerState : /\ t.child # "alive" /\ t.mode # "handoff"
                            /\ run' = [run EXCEPT ![r] = t]
  /\ \E f \in StatusFile : disk' = [disk EXCEPT ![r] = f]

Orphans(r) ==
  /\ run[r].mode \in Live
  /\ run' = [run EXCEPT ![r] = [Gone EXCEPT !.child = run[r].child]]
  /\ UNCHANGED disk

Local(r) ==
  \/ Begins(r)
  \/ /\ Served(r) \/ Ends(r) \/ Orphans(r)
     /\ UNCHANGED <<acct, creds, co>>

(* A served request starts no child and keeps what the records say. *)
LEMMA ServedKeeps ==
  ASSUME TypeInv, ChildInv, NEW r \in Runners, Served(r)
  PROVE  RecordHolds' /\ NoHandoff' /\ \A q \in Runners : Alive(q)' => Alive(q)
<1>1. run \in [Runners -> RunnerState] /\ disk \in [Runners -> StatusFile]
  BY DEF TypeInv, TypeOK
<1>2. CASE UNCHANGED <<run, disk>>
  BY <1>2 DEF ChildInv, RecordHolds, NoHandoff, Alive
<1>3. CASE ~UNCHANGED <<run, disk>>
  <2>1. PICK t \in Same(run[r]) :
          /\ run' = [run EXCEPT ![r] = t]
          /\ disk' \in {disk, [disk EXCEPT ![r] = File(t)]}
    BY <1>3 DEF Served
  <2>2. t.mode = run[r].mode /\ t.child = run[r].child /\ t.exited = run[r].exited
    BY DEF Same, Keeps
  <2>3. File(t).there /\ File(t).exited = t.exited
    BY DEF File
  <2>4. ASSUME NEW q \in Runners
        PROVE  /\ run'[q].mode = run[q].mode /\ run'[q].child = run[q].child
               /\ run'[q].exited = run[q].exited
               /\ \/ disk'[q] = disk[q]
                  \/ disk'[q].there /\ disk'[q].exited = run[q].exited
    BY <1>1, <2>1, <2>2, <2>3
  <2>5. NoHandoff' /\ \A q \in Runners : Alive(q)' => Alive(q)
    BY <2>4 DEF ChildInv, NoHandoff, Alive
  <2>6. RecordHolds'
    BY <2>4 DEF ChildInv, RecordHolds, Alive
  <2>7. QED BY <2>5, <2>6
<1>4. QED BY <1>2, <1>3

(* A step of one runner of the kinds in Local keeps the child invariant. *)
LEMMA LocalKeeps ==
  ASSUME TypeInv, ChildInv, NEW r \in Runners, Local(r)
  PROVE  ChildInv'
<1>1. run \in [Runners -> RunnerState] /\ disk \in [Runners -> StatusFile]
  BY DEF TypeInv, TypeOK
<1>2. CASE Begins(r)
  <2>1. PICK s \in RunnerState, prompted \in BOOLEAN : NewChild(r, s, prompted)
    BY <1>2 DEF Begins
  <2> DEFINE t == Started(s)
  <2>2. t.mode = "loop" /\ t.child = "alive" /\ ~t.exited
    BY LifeHandlers
  <2>3. File(t).there /\ ~File(t).exited
    BY <2>2 DEF File
  <2>4. /\ run' = [run EXCEPT ![r] = t] /\ disk' = [disk EXCEPT ![r] = File(t)]
        /\ co' = co /\ co.pc = "idle"
    BY <1>2, <2>1 DEF Begins, NewChild, Set, Persist, Daemon, LockFree
  <2> HIDE DEF t
  <2>5. RecordHolds' /\ NoHandoff'
    BY <1>1, <2>2, <2>3, <2>4 DEF ChildInv, RecordHolds, NoHandoff, Alive
  <2>6. SeenGone' /\ NoChildDuringWrite'
    BY <2>4 DEF SeenGone, NoChildDuringWrite
  <2>7. QED BY <2>5, <2>6 DEF ChildInv
<1>3. ASSUME co' = co, \A q \in Runners : Alive(q)' => Alive(q)
      PROVE  SeenGone' /\ NoChildDuringWrite'
  BY <1>3 DEF ChildInv, SeenGone, NoChildDuringWrite
<1>4. CASE Served(r) /\ co' = co
  BY <1>3, <1>4, ServedKeeps DEF ChildInv
<1>5. CASE Ends(r) /\ co' = co
  <2>1. PICK t \in RunnerState : /\ t.child # "alive" /\ t.mode # "handoff"
                                 /\ run' = [run EXCEPT ![r] = t]
    BY <1>5 DEF Ends
  <2>2. PICK f \in StatusFile : disk' = [disk EXCEPT ![r] = f]
    BY <1>5 DEF Ends
  <2>3. RecordHolds' /\ NoHandoff' /\ \A q \in Runners : Alive(q)' => Alive(q)
    BY <1>1, <2>1, <2>2 DEF ChildInv, RecordHolds, NoHandoff, Alive
  <2>4. QED BY <1>3, <1>5, <2>3 DEF ChildInv
<1>6. CASE Orphans(r) /\ co' = co
  <2> DEFINE t == [Gone EXCEPT !.child = run[r].child]
  <2>1. t.mode = "gone" /\ t.child = run[r].child /\ ~t.exited
    BY DEF Gone, Unused
  <2>2. run' = [run EXCEPT ![r] = t] /\ disk' = disk
    BY <1>6 DEF Orphans
  <2> HIDE DEF t
  <2>3. RecordHolds' /\ NoHandoff' /\ \A q \in Runners : Alive(q)' => Alive(q)
    BY <1>1, <2>1, <2>2 DEF ChildInv, RecordHolds, NoHandoff, Alive
  <2>4. QED BY <1>3, <1>6, <2>3 DEF ChildInv
<1>7. QED BY <1>2, <1>4, <1>5, <1>6 DEF Local

(* Every step of a runner is of one of these kinds, unless exec fails. *)
LEMMA RunnerEffect ==
  ASSUME TypeInv, ChildInv, NEW r \in Runners, RunnerStep(r), "exec_fails" \notin Events
  PROVE  Local(r)
<1> DEFINE s == run[r]
<1>1. s \in RunnerState /\ disk[r] \in StatusFile
  BY DEF TypeInv, TypeOK
<1>2. /\ NoFile \in StatusFile /\ Ended \in StatusFile
      /\ Gone \in RunnerState /\ Gone.child = "none" /\ Gone.mode = "gone"
  BY LifeHandlers, RecordTypes
<1>3. Alive(r) => s.mode \in {"loop", "gone"} /\ ~s.exited /\ ~disk[r].exited
  BY DEF ChildInv, RecordHolds
<1>4. disk = [disk EXCEPT ![r] = disk[r]] /\ run = [run EXCEPT ![r] = run[r]]
  BY DEF TypeInv, TypeOK
<1>5. ASSUME NEW file \in StatusFile, End(r, file)
      PROVE  Local(r)
  BY <1>2, <1>5 DEF Local, Ends, End, Set, Others, Daemon
<1>6. ASSUME NEW t \in Same(s), run' = [run EXCEPT ![r] = t], disk' = disk, UNCHANGED Others
      PROVE  Local(r)
  BY <1>6 DEF Local, Served, Others, Daemon
<1>7. ASSUME NEW t \in RunnerState, t.child # "alive", t.mode # "handoff",
             run' = [run EXCEPT ![r] = t], disk' = disk, UNCHANGED Others
      PROVE  Local(r)
  BY <1>1, <1>4, <1>7 DEF Local, Ends, Others, Daemon
<1>8. CASE StartRunner(r)
  <2>1. PICK needs \in BOOLEAN : NewChild(r, [Unused EXCEPT !.needs = needs], FALSE)
    BY <1>8 DEF StartRunner
  <2>2. [Unused EXCEPT !.needs = needs] \in RunnerState
    BY LifeHandlers DEF RunnerState
  <2>3. ~Alive(r) /\ LockFree
    BY <1>3, <1>8 DEF StartRunner
  <2>4. QED BY <2>1, <2>2, <2>3 DEF Local, Begins
<1>9. CASE Restart(r)
  <2>1. Continues(s) \in BOOLEAN
    BY <1>1 DEF Continues, RunnerState
  <2>2. ~Alive(r) /\ LockFree /\ NewChild(r, s, Continues(s))
    BY <1>3, <1>9 DEF Restart, MayRestart
  <2>3. QED BY <1>1, <2>1, <2>2 DEF Local, Begins
<1>10. CASE StartHandoff(r)
  <2>1. ~Alive(r) /\ LockFree /\ NewChild(r, s, FALSE)
    BY <1>3, <1>10 DEF StartHandoff, ChildInv, NoHandoff
  <2>2. QED BY <1>1, <2>1 DEF Local, Begins
<1>11. CASE RestartFails(r) \/ ExecDies(r) \/ StopDone(r)
  BY <1>1, <1>2, <1>5, <1>11 DEF RestartFails, ExecDies, StopDone
<1>12. CASE ChildDone(r)
  <2> DEFINE w == [s EXCEPT !.exited = TRUE, !.ready = FALSE]
             x == [w EXCEPT !.mode = "exec"]
  <2>1. s.child \in {"clean", "failed"} /\ s.mode = "loop"
    BY <1>12 DEF ChildDone
  <2>2. /\ w \in RunnerState /\ w.child # "alive" /\ w.mode # "handoff"
        /\ x \in RunnerState /\ x.child # "alive" /\ x.mode # "handoff"
    BY <1>1, <2>1 DEF RunnerState, Modes, Live
  <2>3. File(w) \in StatusFile
    BY <2>2, RecordTypes
  <2>4. \/ \E file \in StatusFile : End(r, file)
        \/ /\ run' \in {[run EXCEPT ![r] = w], [run EXCEPT ![r] = x]}
           /\ disk' \in {disk, [disk EXCEPT ![r] = File(w)]}
           /\ UNCHANGED Others
    BY <1>1, <1>2, <1>12 DEF ChildDone, Set, Persist
  <2> HIDE DEF w, x
  <2>5. CASE \E file \in StatusFile : End(r, file)
    BY <1>5, <2>5
  <2>6. CASE /\ run' \in {[run EXCEPT ![r] = w], [run EXCEPT ![r] = x]}
             /\ disk' \in {disk, [disk EXCEPT ![r] = File(w)]}
             /\ UNCHANGED Others
    <3>1. \E t \in RunnerState : /\ t.child # "alive" /\ t.mode # "handoff"
                                 /\ run' = [run EXCEPT ![r] = t]
      BY <2>2, <2>6
    <3>2. \E f \in StatusFile : disk' = [disk EXCEPT ![r] = f]
      BY <1>1, <1>4, <2>3, <2>6
    <3>3. QED BY <2>6, <3>1, <3>2 DEF Local, Ends, Others, Daemon
  <2>7. QED BY <2>4, <2>5, <2>6
<1>13. CASE Overdue(r)
  <2>1. [s EXCEPT !.forced = TRUE] \in Same(s)
    BY <1>1 DEF Same, Keeps, RunnerState
  <2>2. QED BY <1>6, <1>13, <2>1 DEF Overdue, Set
<1>14. CASE Killed(r) \/ StopChild(r)
  <2>1. s.mode # "handoff"
    BY DEF ChildInv, NoHandoff
  <2>2. /\ [s EXCEPT !.child = "failed"] \in RunnerState
        /\ [s EXCEPT !.child = "failed"].child # "alive"
        /\ [s EXCEPT !.child = "failed"].mode # "handoff"
    BY <1>1, <2>1 DEF RunnerState, Children
  <2>3. QED BY <1>7, <1>14, <2>2 DEF Killed, StopChild, Set
<1>15. CASE UpgradeGrace(r)
  <2>1. [s EXCEPT !.upgrading = FALSE, !.exitReq = FALSE, !.gen = None] \in Same(s)
    BY <1>1 DEF Same, Keeps, RunnerState
  <2>2. QED BY <1>6, <1>15, <2>1 DEF UpgradeGrace, Set
<1>16. CASE Quiet(r)
  <2>1. [s EXCEPT !.ready = FALSE] \in Same(s)
    BY <1>1 DEF Same, Keeps, RunnerState
  <2>2. QED BY <1>6, <1>16, <2>1 DEF Quiet, Set
<1>17. CASE ExecOk(r)
  <2>1. Inherited(s) \in RunnerState /\ Inherited(s).child = "none" /\ Inherited(s).mode = "inherit"
    BY <1>1, LifeHandlers
  <2>2. QED BY <1>7, <1>17, <2>1 DEF ExecOk, Set
<1>18. ~ExecFails(r)
  BY DEF ExecFails, Spend
<1>19. CASE Terminated(r)
  <2> DEFINE t == [s EXCEPT !.stopping = TRUE, !.ready = FALSE]
  <2>1. t \in Same(s)
    BY <1>1 DEF Same, Keeps, RunnerState
  <2>2. /\ run' = [run EXCEPT ![r] = t] /\ disk' = [disk EXCEPT ![r] = File(t)]
        /\ UNCHANGED Others
    BY <1>19 DEF Terminated, Set, Persist
  <2> HIDE DEF t
  <2>3. QED BY <2>1, <2>2 DEF Local, Served, Others, Daemon
<1>20. CASE RunnerKilled(r)
  BY <1>20 DEF RunnerKilled, Set, Local, Orphans, Others, Daemon
<1>21. CASE OrphanExit(r)
  BY <1>2, <1>7, <1>21 DEF OrphanExit, Set
<1>22. CASE Forget(r)
  <2>1. ~Alive(r) /\ s.mode # "handoff"
    BY <1>3, <1>22 DEF Forget
  <2>2. /\ run' = run /\ disk' = [disk EXCEPT ![r] = NoFile] /\ UNCHANGED Others
    BY <1>22 DEF Forget
  <2>3. QED BY <1>1, <1>2, <1>4, <2>1, <2>2 DEF Local, Ends, Alive, Others, Daemon
<1>23. CASE Resume(r)
  <2>1. AfterResume(s) \in Same(s)
    BY <1>1, ChildHandlers
  <2>2. QED BY <1>6, <1>23, <2>1 DEF Resume, Set
<1>24. QED
  BY <1>8, <1>9, <1>10, <1>11, <1>12, <1>13, <1>14, <1>15, <1>16, <1>17,
     <1>18, <1>19, <1>20, <1>21, <1>22, <1>23 DEF RunnerStep

(* Every step of a session is of one of these kinds. *)
LEMMA SessionEffect ==
  ASSUME TypeInv, ChildInv, NEW r \in Runners, SessionStep(r)
  PROVE  Local(r)
<1> DEFINE s == run[r]
           p == ses[r]
<1>1. s \in RunnerState /\ p.needs \in BOOLEAN /\ Settled(p) \in BOOLEAN
  BY DEF TypeInv, TypeOK, Session, Settled
<1>2. disk = [disk EXCEPT ![r] = disk[r]] /\ disk[r] \in StatusFile /\ s.mode # "handoff"
  BY DEF TypeInv, TypeOK, ChildInv, NoHandoff
<1>3. ASSUME NEW t \in Same(s), run' = [run EXCEPT ![r] = t],
             disk' \in {disk, [disk EXCEPT ![r] = File(t)]}, UNCHANGED Others
      PROVE  Local(r)
  BY <1>3 DEF Local, Served, Others, Daemon
<1>4. ASSUME UNCHANGED <<run, disk, Others>>
      PROVE  Local(r)
  BY <1>4 DEF Local, Served, Others, Daemon
<1>5. ASSUME NEW how \in {"clean", "failed"},
             run' = [run EXCEPT ![r] = [s EXCEPT !.child = how]], disk' = disk,
             UNCHANGED Others
      PROVE  Local(r)
  <2>1. /\ [s EXCEPT !.child = how] \in RunnerState
        /\ [s EXCEPT !.child = how].child # "alive"
        /\ [s EXCEPT !.child = how].mode # "handoff"
    BY <1>1, <1>2 DEF RunnerState, Children
  <2>2. QED BY <1>2, <1>5, <2>1 DEF Local, Ends, Others, Daemon
<1>6. ASSUME NEW ready \in BOOLEAN, NEW replaced \in BOOLEAN
      PROVE  AfterState(Heard(s, ready, p.needs), replaced) \in Same(s)
  <2>1. Heard(s, ready, p.needs) \in Same(s)
    BY <1>1, ChildHandlers
  <2>2. Heard(s, ready, p.needs) \in RunnerState
    BY <2>1 DEF Same
  <2>3. AfterState(Heard(s, ready, p.needs), replaced) \in Same(Heard(s, ready, p.needs))
    BY <2>2, ChildHandlers
  <2>4. QED BY <2>1, <2>3 DEF Same, Keeps
<1>7. ASSUME Revoke(r), UNCHANGED Others
      PROVE  Local(r)
  <2> DEFINE t == AfterState(Heard(s, FALSE, p.needs), FALSE)
  <2>1. t \in Same(s)
    BY <1>6
  <2>2. \/ UNCHANGED <<run, disk>>
        \/ run' = [run EXCEPT ![r] = t] /\ disk' = [disk EXCEPT ![r] = File(t)]
    BY <1>7 DEF Revoke, Set, Persist
  <2> HIDE DEF t
  <2>3. QED BY <1>3, <1>4, <1>7, <2>1, <2>2
<1>8. CASE Work(r) \/ Finish(r)
  BY <1>4, <1>8 DEF Work, Finish
<1>9. CASE UserExit(r) \/ ChildCrash(r)
  BY <1>5, <1>9 DEF UserExit, ChildCrash, Set
<1>10. CASE Heartbeat(r)
  <2> DEFINE ready == Settled(p)
             t(replaced) == AfterState(Heard(s, ready, p.needs), replaced)
  <2>1. t(TRUE) \in Same(s) /\ t(FALSE) \in Same(s)
    BY <1>1, <1>6
  <2>2. Failed(t(FALSE)) \in Same(s)
    <3>1. t(FALSE) \in RunnerState
      BY <2>1 DEF Same
    <3> HIDE DEF t
    <3>2. Failed(t(FALSE)) \in Same(t(FALSE))
      BY <3>1, ChildHandlers
    <3>3. QED BY <2>1, <3>2 DEF Same, Keeps
  <2>3. /\ \/ \E replaced \in BOOLEAN :
                /\ run' = [run EXCEPT ![r] = t(replaced)]
                /\ disk' = [disk EXCEPT ![r] = File(t(replaced))]
           \/ run' = [run EXCEPT ![r] = Failed(t(FALSE))] /\ disk' = disk
        /\ UNCHANGED Others
    BY <1>10 DEF Heartbeat, Set, Persist
  <2> HIDE DEF t
  <2>4. QED BY <1>3, <2>1, <2>2, <2>3
<1>11. CASE Acknowledge(r)
  <2> DEFINE new == AfterExiting(s, p.needs)
  <2>1. new \in Same(s)
    BY <1>1, ChildHandlers
  <2> HIDE DEF new
  <2>2. [Failed(new) EXCEPT !.exitAck = FALSE] \in Same(s)
    BY <2>1 DEF Failed, Same, Keeps, RunnerState
  <2>3. [s EXCEPT !.ready = FALSE] \in Same(s)
    BY <1>1 DEF Same, Keeps, RunnerState
  <2>4. /\ \/ UNCHANGED <<run, disk>>
           \/ run' = [run EXCEPT ![r] = new] /\ disk' = [disk EXCEPT ![r] = File(new)]
           \/ run' = [run EXCEPT ![r] = [Failed(new) EXCEPT !.exitAck = FALSE]] /\ disk' = disk
           \/ run' = [run EXCEPT ![r] = [s EXCEPT !.ready = FALSE]] /\ disk' = disk
        /\ UNCHANGED Others
    BY <1>11 DEF Acknowledge, Set, Persist, new
  <2>5. QED BY <1>3, <1>4, <2>1, <2>2, <2>3, <2>4
<1>12. CASE FinalCheck(r)
  BY <1>4, <1>7, <1>12 DEF FinalCheck
<1>13. CASE RunExit(r)
  BY <1>5, <1>7, <1>13 DEF RunExit, Set
<1>14. QED
  BY <1>8, <1>9, <1>10, <1>11, <1>12, <1>13 DEF SessionStep

-----------------------------------------------------------------------------
(* The coordinator's steps. *)

(* Giving up, retrying and starting over never lead to a write. *)
LEMMA NotCommitting ==
  ASSUME NEW c \in Coordinator
  PROVE  /\ ~Committing(Idle) /\ ~Committing(GiveUp(c)) /\ ~Committing(Unanswered(c))
         /\ ~Committing(BeginPrepare(c))
         /\ \A b \in BOOLEAN : ~Committing(BeginRelease(c, b))
         /\ \A goal \in {"blockers", "cancel", "prepare", "release"} :
              ~Committing(Scanning(c, goal))
BY CoordinatorMoves DEF Committing

(* A step of the coordinator, and of requests it made, does not start a
   process; so all that can go wrong is what it concludes. *)
LEMMA ConcludeChild ==
  ASSUME TypeInv, ChildInv,
         UNCHANGED <<run, disk>> \/ \E r \in Runners : Served(r),
         ~Committing(co')
  PROVE  ChildInv'
<1>1. RecordHolds' /\ NoHandoff'
  <2>1. CASE UNCHANGED <<run, disk>>
    BY <2>1 DEF ChildInv, RecordHolds, NoHandoff, Alive
  <2>2. CASE \E r \in Runners : Served(r)
    BY <2>2, ServedKeeps
  <2>3. QED BY <2>1, <2>2
<1>2. SeenGone' /\ NoChildDuringWrite'
  BY DEF Committing, SeenGone, NoChildDuringWrite
<1>3. QED BY <1>1, <1>2 DEF ChildInv

(* The coordinator's steps keep the child invariant, and change a runner at
   most by a request it serves. *)
LEMMA CoordinatorChild ==
  ASSUME TypeInv, ChildInv, CoordinatorStep
  PROVE  ChildInv' /\ (UNCHANGED <<run, disk>> \/ \E r \in Runners : Served(r))
<1>1. /\ co \in Coordinator /\ co.gen \in Generations \cup {None}
      /\ co.committed \in BOOLEAN
      /\ ~Committing(Idle) /\ ~Committing(GiveUp(co)) /\ ~Committing(Unanswered(co))
      /\ ~Committing(BeginPrepare(co))
      /\ ~Committing(Scanning(co, "prepare"))
      /\ ~Committing(BeginRelease(co, TRUE))
  BY CoordinatorTyped, NotCommitting
<1>2. ASSUME UNCHANGED run, co' # co => ~Committing(co') PROVE SeenGone' /\ NoChildDuringWrite'
  BY <1>2 DEF ChildInv, SeenGone, NoChildDuringWrite, Committing, Alive
<1>3. ASSUME UNCHANGED <<run, disk>> PROVE RecordHolds' /\ NoHandoff'
  BY <1>3 DEF ChildInv, RecordHolds, NoHandoff, Alive
<1>4. ASSUME NEW r \in Runners, ScanStep(r)
      PROVE  ChildInv'
  <2> DEFINE See(v) == [co EXCEPT !.view[r] = v, !.todo = @ \ {r}]
  <2>1. UNCHANGED <<run, disk>> /\ co.pc = "scan"
    BY <1>4 DEF ScanStep
  <2>2. CASE co' = Unanswered(co)
    BY <1>1, <1>2, <1>3, <2>1, <2>2 DEF ChildInv
  <2>3. CASE /\ co.goal = "recheck"
             /\ \E v \in View : /\ co' = See(v)
                                /\ v.kind = "none" \/ v.exited => ~Alive(r)
    <3>1. PICK v \in View : co' = See(v) /\ (v.kind = "none" \/ v.exited => ~Alive(r))
      BY <2>3
    <3>2. co'.pc = "scan" /\ co'.goal = "recheck" /\ co'.todo = co.todo \ {r}
      BY <1>1, <2>1, <2>3, <3>1 DEF Coordinator
    <3>3. co'.view = [co.view EXCEPT ![r] = v] /\ co.view \in [Runners -> View]
      BY <1>1, <3>1 DEF Coordinator
    <3>4. SeenGone'
      BY <2>1, <2>3, <3>1, <3>2, <3>3 DEF ChildInv, SeenGone, Alive
    <3>5. NoChildDuringWrite'
      BY <3>2 DEF NoChildDuringWrite
    <3>6. QED BY <1>3, <2>1, <3>4, <3>5 DEF ChildInv
  <2>4. CASE co.goal # "recheck" /\ \E v \in View : co' = See(v)
    <3>1. co'.pc = "scan" /\ co'.goal # "recheck"
      BY <1>1, <2>1, <2>4 DEF Coordinator
    <3>2. QED BY <1>2, <1>3, <2>1, <3>1 DEF ChildInv, Committing
  <2>5. \/ co' = Unanswered(co)
        \/ \E v \in View : co' = See(v) /\ (v.kind = "none" \/ v.exited => ~Alive(r))
    <3>1. disk[r] \in StatusFile /\ run[r] \in RunnerState
      BY DEF TypeInv, TypeOK
    <3>2. Alive(r) => /\ run[r].mode \in {"loop", "gone"} /\ ~run[r].exited
                      /\ disk[r].there /\ ~disk[r].exited
      BY DEF ChildInv, RecordHolds
    <3>3. CASE run[r].mode \notin Live /\ disk[r].there
      <4> DEFINE v == [kind |-> "stale", gen |-> disk[r].gen, exited |-> disk[r].exited]
      <4>1. v \in View /\ (v.kind = "none" \/ v.exited => ~Alive(r))
        BY <3>1, <3>2 DEF View, StatusFile
      <4>2. co' = See(v)
        BY <1>4, <3>3 DEF ScanStep, Answers, Serving, Live
      <4>3. QED BY <4>1, <4>2
    <3>4. CASE run[r].mode \notin Live /\ ~disk[r].there
      <4>1. Unseen \in View /\ ~Alive(r)
        BY <3>2, <3>4 DEF Unseen, View
      <4>2. co' = See(Unseen)
        BY <1>4, <3>4 DEF ScanStep, Answers, Serving, Live
      <4>3. QED BY <4>1, <4>2
    <3>5. CASE run[r].mode \in Live
      <4> DEFINE v == [kind |-> "live", gen |-> run[r].gen, exited |-> run[r].exited]
      <4>1. v \in View /\ (v.kind = "none" \/ v.exited => ~Alive(r))
        BY <3>1, <3>2 DEF View, RunnerState
      <4>2. co' \in {See(v), Unanswered(co)}
        BY <1>4, <3>5 DEF ScanStep
      <4>3. QED BY <4>1, <4>2
    <3>6. QED BY <3>3, <3>4, <3>5
  <2>6. QED BY <2>2, <2>3, <2>4, <2>5
<1>5. ASSUME NEW r \in Runners, CallPrepare(r) \/ CallExit(r) \/ CallRelease(r)
      PROVE  Served(r) /\ ~Committing(co')
  <2>1. /\ r \in co.todo /\ co.pc \in {"prepare", "exit", "release"}
        /\ co.pc = "release" => co.view[r].gen \in Generations
    BY <1>5 DEF CallPrepare, CallExit, CallRelease, TypeInv, Releasing
  <2>2. ASSUME NEW c, c.pc = co.pc PROVE ~Committing(c)
    BY <2>1, <2>2 DEF Committing
  <2>3. CASE CallPrepare(r)
    <3> DEFINE m == Request(r, "prepare", co.gen, FALSE)
    <3>0. PICK v \in BOOLEAN : \E waiting, leaving :
            Call(m, v, [co EXCEPT !.todo = @ \ {r}, !.waiting = waiting, !.leaving = leaving],
                 GiveUp(co), Unanswered(co))
      BY <2>3 DEF CallPrepare
    <3>1. PICK waiting, leaving :
            Call(m, v, [co EXCEPT !.todo = @ \ {r}, !.waiting = waiting, !.leaving = leaving],
                 GiveUp(co), Unanswered(co))
      BY <3>0
    <3>2. m \in Message /\ m.to = r
      BY <1>1 DEF Request, Message
    <3> DEFINE next == [co EXCEPT !.todo = @ \ {r}, !.waiting = waiting, !.leaving = leaving]
    <3>3. next.pc = co.pc
      BY <1>1 DEF Coordinator
    <3> HIDE DEF m, next
    <3>4. Call(m, v, next, GiveUp(co), Unanswered(co))
      BY <3>1 DEF next
    <3>5. Served(m.to) /\ co' \in {next, GiveUp(co), Unanswered(co)}
      BY <3>2, <3>4, CallServes
    <3>6. QED BY <1>1, <2>2, <3>2, <3>3, <3>5
  <2>4. CASE CallExit(r)
    <3> DEFINE m == Request(r, "exit", co.gen, FALSE)
               next == [co EXCEPT !.todo = @ \ {r}]
    <3>1. PICK v \in BOOLEAN : Call(m, v, next, GiveUp(co), Unanswered(co))
      BY <2>4 DEF CallExit
    <3>2. m \in Message /\ m.to = r
      BY <1>1 DEF Request, Message
    <3>3. next.pc = co.pc
      BY <1>1 DEF Coordinator
    <3> HIDE DEF m, next
    <3>4. Served(m.to) /\ co' \in {next, GiveUp(co), Unanswered(co)}
      BY <3>1, <3>2, CallServes
    <3>5. QED BY <1>1, <2>2, <3>2, <3>3, <3>4
  <2>5. CASE CallRelease(r)
    <3> DEFINE m == Request(r, "release", co.view[r].gen, co.goal = "release" /\ co.committed)
               next == [co EXCEPT !.todo = @ \ {r}]
               Failing(how) == [next EXCEPT !.failed = IF @ = "silent" THEN @ ELSE how]
    <3>1. Call(m, TRUE, next, Failing("refused"), Failing("silent"))
      BY <2>5 DEF CallRelease
    <3>2. m \in Message /\ m.to = r
      BY <1>1, <2>1, <2>5 DEF Request, Message, CallRelease
    <3>3. /\ next.pc = co.pc /\ Failing("refused").pc = co.pc /\ Failing("silent").pc = co.pc
      BY <1>1 DEF Coordinator
    <3> HIDE DEF m, Failing, next
    <3>4. TRUE \in BOOLEAN
      OBVIOUS
    <3>5. Served(m.to) /\ co' \in {next, Failing("refused"), Failing("silent")}
      BY <3>1, <3>2, <3>4, CallServes
    <3>6. QED BY <2>2, <3>2, <3>3, <3>5
  <2>6. QED BY <1>5, <2>3, <2>4, <2>5
<1>6. ASSUME NEW r \in Runners, CallStatus(r)
      PROVE  UNCHANGED <<run, disk>> /\ ~Committing(co')
  <2>1. /\ co.pc = "status" /\ UNCHANGED <<run, disk>>
        /\ \/ co' \in {GiveUp(co), Unanswered(co)}
           \/ \E waiting, leaving :
                co' = [co EXCEPT !.todo = @ \ {r}, !.waiting = waiting, !.leaving = leaving]
    BY <1>6 DEF CallStatus
  <2>2. CASE co' \in {GiveUp(co), Unanswered(co)}
    BY <1>1, <2>1, <2>2
  <2>3. CASE \E waiting, leaving :
               co' = [co EXCEPT !.todo = @ \ {r}, !.waiting = waiting, !.leaving = leaving]
    <3>1. co'.pc = "status"
      BY <1>1, <2>1, <2>3 DEF Coordinator
    <3>2. QED BY <2>1, <3>1 DEF Committing
  <2>4. QED BY <2>1, <2>2, <2>3
<1>7. CASE HasBlockers
  <2> DEFINE c == [co EXCEPT !.blockers =
                     {r \in Runners : co.view[r].kind # "none" /\ ~co.view[r].exited}]
  <2>1. c \in Coordinator
    BY <1>1 DEF Coordinator
  <2> HIDE DEF c
  <2>2. ~Committing(BeginPrepare(c))
    BY <2>1, NotCommitting
  <2>3. co' = BeginPrepare(c) /\ UNCHANGED <<run, disk>>
    BY <1>7 DEF HasBlockers, c
  <2>4. QED BY <2>2, <2>3, ConcludeChild
<1>8. CASE Enroll
  <2>1. /\ UNCHANGED <<run, disk>>
        /\ \/ co' = GiveUp(co)
           \/ \E todo : co' = [co EXCEPT !.pc = "prepare", !.todo = todo]
    BY <1>8 DEF Enroll
  <2>2. ~Committing(co')
    <3>1. CASE co' = GiveUp(co)
      BY <1>1, <3>1
    <3>2. CASE \E todo : co' = [co EXCEPT !.pc = "prepare", !.todo = todo]
      <4>1. co'.pc = "prepare"
        BY <1>1, <3>2 DEF Coordinator
      <4>2. QED BY <4>1 DEF Committing
    <3>3. QED BY <2>1, <3>1, <3>2
  <2>3. QED BY <2>1, <2>2, ConcludeChild
<1>9. CASE LoopDone
  <2>1. UNCHANGED <<run, disk>>
    BY <1>9 DEF LoopDone
  <2>2. CASE co' = Scanning(co, "recheck")
    <3>1. co'.pc = "scan" /\ co'.todo = Runners
      BY <1>1, <2>2, CoordinatorMoves
    <3>2. SeenGone' /\ NoChildDuringWrite'
      BY <3>1 DEF SeenGone, NoChildDuringWrite
    <3>3. QED BY <1>3, <2>1, <3>2 DEF ChildInv
  <2>3. CASE co' \in {Idle, GiveUp(co), BeginPrepare(co)}
    BY <1>1, <2>1, <2>3, ConcludeChild
  <2>4. CASE \E pc \in {"exit", "status"} :
               co' = [co EXCEPT !.pc = pc, !.todo = Participants(co)]
    <3>1. co'.pc \in {"exit", "status"}
      BY <1>1, <2>4 DEF Coordinator
    <3>2. QED BY <2>1, <3>1, ConcludeChild DEF Committing
  <2>5. QED BY <1>9, <2>2, <2>3, <2>4 DEF LoopDone, NotReady
<1>10. CASE Recheck
  <2>1. UNCHANGED <<run, disk>> /\ co.pc = "scan" /\ co.goal = "recheck" /\ co.todo = {}
    BY <1>10 DEF Recheck
  <2>2. CASE co' = GiveUp(co)
    BY <1>1, <2>1, <2>2, ConcludeChild
  <2>3. CASE co' # GiveUp(co)
    <3>1. /\ \A r \in Runners : co.view[r].kind = "none" \/ co.view[r].exited
          /\ co' = [co EXCEPT !.pc = "write"]
      BY <1>10, <2>3 DEF Recheck
    <3>2. \A r \in Runners : ~Alive(r)
      BY <2>1, <3>1 DEF ChildInv, SeenGone
    <3>3. co'.pc = "write"
      BY <1>1, <3>1 DEF Coordinator
    <3>4. SeenGone' /\ NoChildDuringWrite'
      BY <2>1, <3>2, <3>3 DEF SeenGone, NoChildDuringWrite, Alive
    <3>5. QED BY <1>3, <2>1, <3>4 DEF ChildInv
  <2>4. QED BY <2>2, <2>3
<1>11. CASE Write
  BY <1>1, <1>11, ConcludeChild DEF Write
<1>12. CASE BeginCalls
  <2>1. /\ UNCHANGED <<run, disk>>
        /\ \/ co' \in {GiveUp(co), Idle}
           \/ \E todo : co' = [co EXCEPT !.pc = "release", !.failed = "no", !.todo = todo]
    BY <1>12 DEF BeginCalls
  <2>2. ~Committing(co')
    <3>1. CASE co' \in {GiveUp(co), Idle}
      BY <1>1, <3>1
    <3>2. CASE \E todo : co' = [co EXCEPT !.pc = "release", !.failed = "no", !.todo = todo]
      <4>1. co'.pc = "release"
        BY <1>1, <3>2 DEF Coordinator
      <4>2. QED BY <4>1 DEF Committing
    <3>3. QED BY <2>1, <3>1, <3>2
  <2>3. QED BY <2>1, <2>2, ConcludeChild
<1>13. CASE ReleaseDone
  <2>1. co.goal \in {"cancel", "release"} /\ co.failed \in {"no", "refused", "silent"}
    BY <1>1, <1>13 DEF ReleaseDone, TypeInv, Releasing, Coordinator
  <2>2. co' \in {Idle, GiveUp(co), Unanswered(co), Scanning(co, "prepare")}
    BY <1>13, <2>1 DEF ReleaseDone
  <2>3. UNCHANGED <<run, disk>>
    BY <1>13 DEF ReleaseDone
  <2>4. QED BY <1>1, <2>2, <2>3, ConcludeChild
<1>14. UNCHANGED <<run, disk>> \/ \E r \in Runners : Served(r)
  BY <1>5 DEF CoordinatorStep, ScanStep, CallStatus, HasBlockers, Enroll, LoopDone,
              Recheck, Write, BeginCalls, ReleaseDone
<1>15. QED
  BY <1>4, <1>5, <1>6, <1>7, <1>8, <1>9, <1>10, <1>11, <1>12, <1>13, <1>14, ConcludeChild
  DEF CoordinatorStep

(* No child runs at first. *)
LEMMA InitChild == Init => ChildInv
BY LifeHandlers DEF Init, ChildInv, RecordHolds, NoHandoff, SeenGone, NoChildDuringWrite,
                    Alive, Idle

(* Every step keeps the child invariant, unless exec fails. *)
LEMMA NextChild ==
  ASSUME TypeInv, ChildInv, [Next]_vars, "exec_fails" \notin Events
  PROVE  ChildInv'
<1>1. ASSUME UNCHANGED <<run, disk, co>> PROVE ChildInv'
  BY <1>1 DEF ChildInv, RecordHolds, NoHandoff, SeenGone, NoChildDuringWrite, Alive
<1>2. ASSUME NEW r \in Runners, RunnerStep(r) \/ SessionStep(r) PROVE ChildInv'
  BY <1>2, RunnerEffect, SessionEffect, LocalKeeps
<1>3. Idle \in Coordinator /\ co \in Coordinator /\ pend \in Generations \cup {None}
  BY CoordinatorTyped, CoordinatorMoves
<1>4. CASE Tick
  <2> DEFINE c == [Idle EXCEPT !.gen = pend]
  <2>1. c \in Coordinator
    BY <1>3 DEF Coordinator
  <2> HIDE DEF c
  <2>2. co' \in {Scanning(Idle, "release"), Scanning(c, "blockers")} /\ UNCHANGED <<run, disk>>
    BY <1>4 DEF Tick, Start, c
  <2>3. QED BY <1>3, <2>1, <2>2, NotCommitting, ConcludeChild
<1>5. CASE ManualSwitch
  <2>1. PICK g \in Generations :
          /\ co' = BeginPrepare([Idle EXCEPT !.gen = g, !.manual = TRUE])
          /\ UNCHANGED <<run, disk>>
    BY <1>5 DEF ManualSwitch, Start
  <2> DEFINE c == [Idle EXCEPT !.gen = g, !.manual = TRUE]
  <2>2. c \in Coordinator
    BY <1>3 DEF Coordinator
  <2> HIDE DEF c
  <2>3. co' = BeginPrepare(c)
    BY <2>1 DEF c
  <2>4. QED BY <2>1, <2>2, <2>3, NotCommitting, ConcludeChild
<1>6. CASE CoordinatorDies
  <2>1. co' = Idle /\ UNCHANGED <<run, disk>>
    BY <1>6 DEF CoordinatorDies
  <2>2. QED BY <1>3, <2>1, NotCommitting, ConcludeChild
<1>7. CASE \E m \in late : LateCall(m)
  <2>1. PICK m \in late : LateCall(m)
    BY <1>7
  <2>2. m.to \in Runners /\ Served(m.to) /\ UNCHANGED <<acct, creds, co>>
    BY <2>1, LateCallServes DEF Message, Daemon
  <2>3. QED BY <2>2, LocalKeeps DEF Local
<1>8. QED
  BY <1>1, <1>2, <1>4, <1>5, <1>6, <1>7, CoordinatorChild DEF Next, QueueSwitch, vars

(* The inductive invariant holds in every reachable state. *)
LEMMA Invariant ==
  ASSUME "exec_fails" \notin Events
  PROVE  Spec => [](TypeInv /\ ChildInv)
<1>1. Init => TypeInv /\ ChildInv
  BY InitType, InitChild
<1>2. TypeInv /\ ChildInv /\ [Next]_vars => (TypeInv /\ ChildInv)'
  BY NextType, NextChild
<1>3. QED BY <1>1, <1>2, PTL DEF Spec

(* As long as exec of a replaced binary succeeds or ends the runner, no Claude
   process runs while the credentials are written: a drain that reached
   Recheck saw every session gone, and none can come back under its lock. *)
THEOREM NoChildWhileWriting ==
  ASSUME "exec_fails" \notin Events
  PROVE  Spec => []NoChildDuringWrite
<1>1. TypeInv /\ ChildInv => NoChildDuringWrite
  BY DEF ChildInv
<1>2. QED BY <1>1, Invariant, PTL

-----------------------------------------------------------------------------
(* Rotation implements AccountRotation. *)

(* The first state is one of AccountRotation. *)
LEMMA InitRefines == Init => Abstract!Init
BY LifeHandlers DEF Init, Abstract!Init, Alive

(* Every step is one of AccountRotation, or changes nothing there. *)
LEMMA StepRefines ==
  ASSUME TypeInv, ChildInv, [Next]_vars, "exec_fails" \notin Events
  PROVE  [Abstract!Next]_Abstract!vars
<1> DEFINE running == {r \in Runners : Alive(r)}
<1>1. run \in [Runners -> RunnerState]
  BY DEF TypeInv, TypeOK
<1>2. ASSUME UNCHANGED <<acct, creds>>, running' = running
      PROVE  UNCHANGED Abstract!vars
  BY <1>2 DEF Abstract!vars
<1>3. ASSUME UNCHANGED run PROVE running' = running
  BY <1>3 DEF Alive
<1>4. ASSUME NEW r \in Runners, Served(r) PROVE running' = running
  <2>1. CASE UNCHANGED run
    BY <1>3, <2>1
  <2>2. CASE \E t \in Same(run[r]) : run' = [run EXCEPT ![r] = t]
    BY <1>1, <2>2 DEF Same, Keeps, Alive
  <2>3. QED BY <1>4, <2>1, <2>2 DEF Served
<1>5. ASSUME NEW r \in Runners, Local(r) PROVE [Abstract!Next]_Abstract!vars
  <2>1. CASE Begins(r)
    <3>1. PICK s \in RunnerState, prompted \in BOOLEAN : NewChild(r, s, prompted)
      BY <2>1 DEF Begins
    <3>2. /\ r \notin running /\ run' = [run EXCEPT ![r] = Started(s)]
          /\ acct' = [acct EXCEPT ![r] = creds] /\ UNCHANGED creds
      BY <2>1, <3>1 DEF Begins, NewChild, Set
    <3>3. Started(s).child = "alive"
      BY LifeHandlers
    <3>4. running' = running \cup {r}
      BY <1>1, <3>2, <3>3 DEF Alive
    <3>5. Abstract!Start(r)
      BY <3>2, <3>4 DEF Abstract!Start
    <3>6. QED BY <3>5 DEF Abstract!Next
  <2>2. CASE Served(r) /\ UNCHANGED <<acct, creds>>
    BY <1>2, <1>4, <2>2
  <2>3. CASE Ends(r) /\ UNCHANGED <<acct, creds>>
    <3>1. PICK t \in RunnerState : t.child # "alive" /\ run' = [run EXCEPT ![r] = t]
      BY <2>3 DEF Ends
    <3>2. running' = running \ {r}
      BY <1>1, <3>1 DEF Alive
    <3>3. CASE r \in running
      BY <2>3, <3>2, <3>3 DEF Abstract!Stop, Abstract!Next
    <3>4. CASE r \notin running
      BY <1>2, <2>3, <3>2, <3>4
    <3>5. QED BY <3>3, <3>4
  <2>4. CASE Orphans(r) /\ UNCHANGED <<acct, creds>>
    <3> DEFINE t == [Gone EXCEPT !.child = run[r].child]
    <3>1. t.child = run[r].child
      BY DEF Gone, Unused
    <3>2. run' = [run EXCEPT ![r] = t]
      BY <2>4 DEF Orphans
    <3> HIDE DEF t
    <3>3. running' = running
      BY <1>1, <3>1, <3>2 DEF Alive
    <3>4. QED BY <1>2, <2>4, <3>3
  <2>5. QED BY <1>5, <2>1, <2>2, <2>3, <2>4 DEF Local
<1>6. ASSUME CoordinatorStep PROVE [Abstract!Next]_Abstract!vars
  <2>1. running' = running
    BY <1>3, <1>4, <1>6, CoordinatorChild
  <2>2. CASE Write
    <3>1. creds' \in Generations \cup {None} /\ UNCHANGED acct /\ running = {}
      BY <2>2, CoordinatorTyped DEF Write, ChildInv, NoChildDuringWrite
    <3>2. Abstract!Switch
      BY <2>1, <3>1 DEF Abstract!Switch
    <3>3. QED BY <3>2 DEF Abstract!Next
  <2>3. CASE ~Write
    <3>1. UNCHANGED <<acct, creds>>
      BY <1>6, <2>3 DEF CoordinatorStep, ScanStep, CallPrepare, CallExit, CallStatus,
         CallRelease, HasBlockers, Enroll, LoopDone, Recheck, BeginCalls, ReleaseDone
    <3>2. QED BY <1>2, <2>1, <3>1
  <2>4. QED BY <2>2, <2>3
<1>7. CASE \E m \in late : LateCall(m)
  <2>1. PICK m \in late : LateCall(m)
    BY <1>7
  <2>2. m.to \in Runners /\ Served(m.to) /\ UNCHANGED <<acct, creds>>
    BY <2>1, LateCallServes DEF Message
  <2>3. QED BY <1>2, <1>4, <2>2
<1>8. CASE QueueSwitch \/ Tick \/ ManualSwitch \/ CoordinatorDies \/ UNCHANGED vars
  <2>1. UNCHANGED <<run, acct, creds>>
    BY <1>8 DEF QueueSwitch, Tick, ManualSwitch, Start, CoordinatorDies, vars
  <2>2. QED BY <1>2, <1>3, <2>1
<1>9. ASSUME NEW r \in Runners, RunnerStep(r) \/ SessionStep(r)
      PROVE  [Abstract!Next]_Abstract!vars
  BY <1>5, <1>9, RunnerEffect, SessionEffect
<1>10. QED
  BY <1>6, <1>7, <1>8, <1>9 DEF Next

(* Under the same assumption every behaviour of the rotation is one that
   AccountRotation allows: the credentials change only while nothing runs, and
   a session reads them only when it starts. *)
THEOREM RotationImplements ==
  ASSUME "exec_fails" \notin Events
  PROVE  Spec => Implements
<1>1. TypeInv /\ ChildInv /\ [Next]_vars => [Abstract!Next]_Abstract!vars
  BY StepRefines
<1>2. QED BY <1>1, InitRefines, Invariant, PTL DEF Spec, Implements, Abstract!Spec

(* Hence every running session uses the account in the credentials file: no
   session spends the quota of an account that was rotated out. *)
THEOREM EverySessionOneAccount ==
  ASSUME "exec_fails" \notin Events
  PROVE  Spec => []Abstract!OneAccount
<1>1. Abstract!Init => Abstract!OneAccount
  BY DEF Abstract!Init, Abstract!OneAccount
<1>2. /\ TypeInv /\ Abstract!OneAccount /\ [Abstract!Next]_Abstract!vars
      => Abstract!OneAccount'
  <2> DEFINE running == {r \in Runners : Alive(r)}
  <2>1. SUFFICES ASSUME TypeInv, Abstract!OneAccount, [Abstract!Next]_Abstract!vars
                 PROVE  Abstract!OneAccount'
    OBVIOUS
  <2>2. acct \in [Runners -> Generations \cup {None}] /\ running \subseteq Runners
    BY <2>1 DEF TypeInv, TypeOK
  <2>3. QED
    BY <2>1, <2>2 DEF Abstract!Next, Abstract!vars, Abstract!Start, Abstract!Stop,
                      Abstract!Switch, Abstract!OneAccount
<1>3. QED
  BY <1>1, <1>2, Invariant, RotationImplements, PTL DEF Implements, Abstract!Spec
=============================================================================
