----------------------- MODULE RotationDecisionProofs -----------------------
(***************************************************************************)
(* Theorems about what a switch leaves behind, for any sets of runners and *)
(* generations, any events and any number of faults:                       *)
(*                                                                         *)
(*   - the decision a released session was told stands;                    *)
(*   - a session that was told its switch is committed finds the account   *)
(*     of that switch in the credentials file;                             *)
(*   - a session that left for a switch is brought back, or leaves its     *)
(*     record.                                                             *)
(***************************************************************************)
EXTENDS RotationProofs

-----------------------------------------------------------------------------
(* The invariant of one runner, its session and its record.                *)

(* A release is for a generation of the daemon's, an upgrade has its own;  *)
(* the binary is replaced only after an upgrade exit.                      *)
Own(s) ==
  /\ s.upgrading => s.mode \in {"loop", "exec"} /\ s.gen = SelfUpgrade /\ ~s.released
  /\ s.released => s.gen \in Generations
  /\ s.mode = "exec" => s.upgrading
  /\ s.mode \in {"exec", "handoff"} => s.exited
  /\ s.stopping => s.mode = "loop"

(* A plugin that submits /exit has an acknowledgement on record, for the
   generation it was asked for. *)
Bound(s, p) ==
  /\ s.mode = "inherit" => p.gen = None
  /\ s.mode = "loop" /\ (s.forced \/ p.step \in {"acked", "changed", "exiting"})
       => s.exitAck
  /\ s.exitAck /\ p.gen \in Generations => s.gen = p.gen

Slot(s, p, d) ==
  /\ Own(s)
  /\ Bound(s, p)
  /\ s.mode \in Live => d.there

Slots == \A r \in Runners : Slot(run[r], ses[r], disk[r])

(* Everything but a release keeps the decision or takes it away. *)
Decides(s, t) ==
  t.released => s.released /\ t.committed = s.committed /\ t.gen = s.gen

(* A handler that leaves the exit handshake to the plugin. *)
Spares(s, t) ==
  /\ Own(t) /\ t.mode = s.mode /\ t.forced = s.forced /\ t.exitAck = s.exitAck
  /\ t.gen = s.gen \/ s.gen = None \/ ~s.exitAck

-----------------------------------------------------------------------------
(* What the handlers do to this. *)

(* A control request keeps the runner's invariant; only a release that is
   accepted the first time makes a decision, the one it carries. *)
LEMMA ControlDecides ==
  ASSUME NEW s \in RunnerState, Own(s), NEW m \in Message, NEW verified \in BOOLEAN,
         m.route = "release" => m.gen \in Generations
  PROVE  LET t == Handled(s, m, verified) IN
         /\ Spares(s, t)
         /\ \/ Decides(s, t)
            \/ /\ m.route = "release" /\ ~s.released
               /\ t.committed = m.commit /\ t.gen = m.gen
<1> DEFINE g == m.gen
<1>1. Spares(s, s) /\ Decides(s, s)
  BY DEF Spares, Decides
<1>2. m.route \in {"prepare", "exit", "release"} /\ g \in Generations \cup {None}
  BY DEF Message
<1>3. ASSUME NEW u \in RunnerState, u = [s EXCEPT !.ready = FALSE] \/ u = [s EXCEPT !.exitReq = TRUE]
      PROVE  Spares(s, u) /\ Decides(s, u)
  BY <1>3 DEF Spares, Decides, Own, RunnerState
<1>4. /\ [s EXCEPT !.ready = FALSE] \in RunnerState
      /\ [s EXCEPT !.exitReq = TRUE] \in RunnerState
  BY DEF RunnerState
<1>5. CASE m.route = "prepare"
  <2>1. ASSUME ~PrepareRefused(s, g), ~s.upgrading, ~s.stopping, s.gen # g
        PROVE  Spares(s, [s EXCEPT !.gen = g]) /\ Decides(s, [s EXCEPT !.gen = g])
    <3>1. ~s.released /\ s.gen = None
      BY <2>1 DEF PrepareRefused
    <3>2. QED BY <1>2, <2>1, <3>1 DEF Spares, Decides, Own, RunnerState
  <2>2. Spares(s, AfterPrepare(s, g, verified)) /\ Decides(s, AfterPrepare(s, g, verified))
    BY <1>1, <1>3, <1>4, <2>1 DEF AfterPrepare
  <2>3. QED BY <1>5, <2>2 DEF Handled
<1>6. CASE m.route = "exit"
  <2>1. Spares(s, AfterExit(s, g, verified)) /\ Decides(s, AfterExit(s, g, verified))
    BY <1>1, <1>3, <1>4 DEF AfterExit
  <2>2. QED BY <1>6, <2>1 DEF Handled
<1>7. CASE m.route = "release"
  <2>1. ASSUME ~ReleaseRefused(s, g, m.commit), ~s.exitAck, ~s.exited
        PROVE  LET t == [s EXCEPT !.gen = None, !.exitReq = FALSE, !.released = FALSE,
                                  !.committed = m.commit]
               IN Spares(s, t) /\ Decides(s, t)
    BY <1>7, <2>1, GenerationsAssumption DEF ReleaseRefused, Spares, Decides, Own, RunnerState
  <2>2. ASSUME ~ReleaseRefused(s, g, m.commit)
        PROVE  LET t == [s EXCEPT !.released = TRUE, !.committed = m.commit]
               IN /\ Spares(s, t)
                  /\ \/ Decides(s, t)
                     \/ ~s.released /\ t.committed = m.commit /\ t.gen = g
    BY <1>7, <2>2, GenerationsAssumption DEF ReleaseRefused, Spares, Decides, Own, RunnerState
  <2>3. LET t == AfterRelease(s, g, m.commit)
        IN /\ Spares(s, t)
           /\ \/ Decides(s, t)
              \/ ~s.released /\ t.committed = m.commit /\ t.gen = g
    BY <1>1, <2>1, <2>2 DEF AfterRelease
  <2>4. QED BY <1>7, <2>3 DEF Handled
<1>8. QED BY <1>2, <1>5, <1>6, <1>7

(* A status that cannot be written keeps the decision that was made. *)
LEMMA FailedDecides ==
  ASSUME NEW s \in RunnerState
  PROVE  /\ Failed(s).mode = s.mode /\ Failed(s).gen = s.gen /\ Failed(s).forced = s.forced
         /\ Failed(s).exitAck = s.exitAck /\ Failed(s).released = s.released
         /\ Failed(s).committed = s.committed
         /\ Own(s) => Own(Failed(s))
BY DEF Failed, RunnerState, Own

(* A heartbeat keeps the runner's invariant and makes no decision.  It takes an
   acknowledgement back unless the exit is forced. *)
LEMMA HeardDecides ==
  ASSUME NEW s \in RunnerState, Own(s), s.mode = "loop", ~s.exited,
         NEW ready \in BOOLEAN, NEW needs \in BOOLEAN, NEW replaced \in BOOLEAN
  PROVE  LET h == Heard(s, ready, needs)
             t == AfterState(h, replaced)
         IN /\ Own(t) /\ Decides(s, t)
            /\ t.mode = s.mode /\ t.forced = s.forced
            /\ t.exitAck = (s.exitAck /\ s.forced)
            /\ s.gen \in Generations /\ t.exitAck => t.gen = s.gen
<1> DEFINE u == Revoked(s)
           v == Abandoned(u, ready)
           h == [v EXCEPT !.ready = ready, !.needs = needs]
<1>1. u \in RunnerState /\ u.mode = s.mode /\ ~u.exited
  BY RevokedSame DEF Same, Keeps
<1>2. /\ Own(u) /\ Decides(s, u) /\ u.forced = s.forced
      /\ u.exitAck = (s.exitAck /\ s.forced)
      /\ u.gen \in {s.gen, None} /\ (u.exitAck => u.gen = s.gen)
  BY DEF Revoked, Own, Decides, RunnerState
<1> HIDE DEF u
<1> DEFINE w == [u EXCEPT !.upgrading = FALSE, !.exitReq = FALSE, !.gen = None]
<1>3. /\ w \in RunnerState
      /\ w.mode = u.mode /\ w.forced = u.forced /\ w.exitAck = u.exitAck /\ w.gen = None
      /\ u.upgrading => Own(w) /\ Decides(u, w)
  <2>1. /\ w \in RunnerState
        /\ w.mode = u.mode /\ w.forced = u.forced /\ w.exitAck = u.exitAck /\ w.gen = None
        /\ ~w.upgrading /\ w.released = u.released /\ w.exited = u.exited
        /\ w.stopping = u.stopping
    BY <1>1 DEF RunnerState
  <2> HIDE DEF w
  <2>2. QED BY <1>1, <1>2, <2>1 DEF Own, Decides
<1>4. /\ v \in RunnerState
      /\ Own(v) /\ Decides(u, v) /\ v.mode = u.mode /\ v.forced = u.forced
      /\ v.exitAck = u.exitAck
      /\ v.gen \in {u.gen, None} /\ (u.gen # SelfUpgrade => v.gen = u.gen)
  <2>1. v = IF u.upgrading /\ ~ready THEN w ELSE u
    BY DEF Abandoned
  <2>2. u.upgrading => u.gen = SelfUpgrade
    BY <1>2 DEF Own
  <2>3. Decides(u, u)
    BY DEF Decides
  <2> HIDE DEF w, v
  <2>4. QED BY <1>1, <1>2, <1>3, <2>1, <2>2, <2>3
<1> HIDE DEF v
<1>5. h \in RunnerState
  BY <1>4 DEF RunnerState
<1>6. /\ Own(h) /\ h.mode = v.mode /\ h.forced = v.forced /\ h.exitAck = v.exitAck
      /\ h.gen = v.gen /\ h.released = v.released /\ h.committed = v.committed
  BY <1>4 DEF Own, RunnerState
<1> HIDE DEF h
<1> DEFINE t == AfterState(h, replaced)
<1>7. /\ Own(t) /\ Decides(h, t) /\ t.mode = h.mode /\ t.forced = h.forced
      /\ t.exitAck = h.exitAck
      /\ t.gen = h.gen \/ h.gen = None
  BY <1>1, <1>4, <1>5, <1>6, GenerationsAssumption
  DEF AfterState, UpgradeDue, Own, Decides, RunnerState
<1> HIDE DEF t
<1>8. Decides(s, t)
  BY <1>2, <1>4, <1>6, <1>7 DEF Decides
<1>9. /\ Own(t) /\ t.mode = s.mode /\ t.forced = s.forced
      /\ t.exitAck = (s.exitAck /\ s.forced)
  BY <1>1, <1>2, <1>4, <1>6, <1>7
<1>10. s.gen \in Generations /\ t.exitAck => t.gen = s.gen
  BY <1>2, <1>4, <1>6, <1>7, GenerationsAssumption
<1>11. h = Heard(s, ready, needs) /\ t = AfterState(h, replaced)
  BY DEF Heard, h, t, u, v
<1>12. QED BY <1>8, <1>9, <1>10, <1>11

-----------------------------------------------------------------------------
(* The steps of a runner and of its session. *)

(* What is true of every such step of r: it makes no decision, keeps the slot's
   invariant, and does not drop a session that left for a switch. *)
Elsewhere(r) ==
  \A q \in Runners \ {r} : run'[q] = run[q] /\ ses'[q] = ses[q] /\ disk'[q] = disk[q]

Kept(r) ==
  run[r].mode \in Live /\ run'[r].mode = "gone" /\ LeftForSwitch(r) => disk'[r].there

Lives(s, t) ==
  /\ t.mode \in Live => s.mode \in Live \/ (s.mode = "unused" /\ LockFree /\ ~t.released)
  /\ t.mode = "unused" => s.mode = "unused"

OwnStep(r) ==
  /\ Elsewhere(r) /\ Kept(r)
  /\ Slot(run'[r], ses'[r], disk'[r])
  /\ Decides(run[r], run'[r]) /\ Lives(run[r], run'[r])
  /\ UNCHANGED <<creds, co, late>>

(* The form in which the steps below show it. *)
LEMMA OwnStepBy ==
  ASSUME TypeInv, NEW r \in Runners, NEW t, NEW p, NEW f,
         run' = [run EXCEPT ![r] = t], ses' = [ses EXCEPT ![r] = p],
         disk' = [disk EXCEPT ![r] = f], UNCHANGED <<creds, co, late>>,
         Slot(t, p, f), Decides(run[r], t), Lives(run[r], t),
         run[r].mode \in Live /\ t.mode = "gone" /\ LeftForSwitch(r) => f.there
  PROVE  OwnStep(r)
<1>1. run'[r] = t /\ ses'[r] = p /\ disk'[r] = f /\ Elsewhere(r)
  BY DEF TypeInv, TypeOK, Elsewhere
<1>2. QED BY <1>1 DEF OwnStep, Kept

(* A session that left for a switch has an acknowledgement for it. *)
LEMMA LeftAcknowledged ==
  ASSUME TypeInv, Slots, NEW r \in Runners, LeftForSwitch(r), run[r].mode \in Live
  PROVE  /\ run[r].mode # "inherit" /\ disk[r].there
         /\ run[r].mode = "loop" => run[r].exitAck /\ run[r].gen \in Generations
BY GenerationsAssumption DEF Slots, Slot, Bound, LeftForSwitch

(* A start leaves nothing of the last exit. *)
LEMMA NewChildOwn ==
  ASSUME TypeInv, NEW r \in Runners, NEW s \in RunnerState, NEW prompted \in BOOLEAN,
         NewChild(r, s, prompted), ~s.stopping, ~s.upgrading,
         run[r].mode \in Live \/ (run[r].mode = "unused" /\ LockFree)
  PROVE  OwnStep(r)
<1> DEFINE t == Started(s)
           p == NewSession(s.needs, prompted)
<1>1. /\ run' = [run EXCEPT ![r] = t] /\ ses' = [ses EXCEPT ![r] = p]
      /\ disk' = [disk EXCEPT ![r] = File(t)]
      /\ UNCHANGED <<creds, co, late>>
  BY DEF NewChild, Set, Told, Persist, Daemon
<1>2. /\ t.mode = "loop" /\ ~t.released /\ ~t.upgrading /\ ~t.forced /\ ~t.exitAck
      /\ ~t.stopping
  BY DEF Started, RunnerState
<1>3. p.gen = None /\ p.step = "idle"
  BY DEF NewSession
<1>4. File(t).there
  BY DEF File
<1> HIDE DEF t, p
<1>5. Slot(t, p, File(t))
  BY <1>2, <1>3, <1>4, GenerationsAssumption DEF Slot, Own, Bound
<1>6. Decides(run[r], t) /\ Lives(run[r], t)
  BY <1>2 DEF Decides, Lives, Live
<1>7. QED BY <1>1, <1>2, <1>4, <1>5, <1>6, OwnStepBy

(* So does an end, which must leave the record of a session that left. *)
LEMMA EndOwn ==
  ASSUME TypeInv, NEW r \in Runners, NEW file, End(r, file),
         run[r].mode \in Live /\ LeftForSwitch(r) => file.there
  PROVE  OwnStep(r)
<1>1. /\ run' = [run EXCEPT ![r] = Gone] /\ ses' = [ses EXCEPT ![r] = NoSession]
      /\ disk' = [disk EXCEPT ![r] = file]
      /\ UNCHANGED <<creds, co, late>>
  BY DEF End, Set, Told, Others, Daemon
<1>2. /\ Gone.mode = "gone" /\ ~Gone.released /\ ~Gone.upgrading /\ ~Gone.forced
      /\ ~Gone.exitAck /\ ~Gone.stopping
  BY DEF Gone, Unused
<1>3. Slot(Gone, NoSession, file)
  BY <1>2 DEF Slot, Own, Bound, Live
<1>4. Decides(run[r], Gone) /\ Lives(run[r], Gone)
  BY <1>2 DEF Decides, Lives, Live
<1>5. QED BY <1>1, <1>3, <1>4, OwnStepBy

(* A step that changes the runner's state alone, and leaves it where it is. *)
LEMMA SetOwn ==
  ASSUME TypeInv, Slots, NEW r \in Runners, NEW t, Set(r, t), UNCHANGED <<ses, Others>>,
         disk' = disk \/ Persist(r, t),
         Own(t), Bound(t, ses[r]), Decides(run[r], t), Lives(run[r], t),
         t.mode \in Live => run[r].mode \in Live,
         t.mode = "gone" => run[r].mode = "gone"
  PROVE  OwnStep(r)
<1>1. run' = [run EXCEPT ![r] = t] /\ ses' = [ses EXCEPT ![r] = ses[r]]
  BY DEF TypeInv, TypeOK, Set
<1>2. Slot(run[r], ses[r], disk[r])
  BY DEF Slots
<1>3. CASE disk' = disk
  <2>1. disk' = [disk EXCEPT ![r] = disk[r]]
    BY <1>3 DEF TypeInv, TypeOK
  <2>2. Slot(t, ses[r], disk[r])
    BY <1>2 DEF Slot
  <2>3. QED BY <1>1, <2>1, <2>2, OwnStepBy DEF Live, Others, Daemon
<1>4. CASE Persist(r, t)
  <2>1. disk' = [disk EXCEPT ![r] = File(t)] /\ File(t).there
    BY <1>4 DEF Persist, File
  <2>2. Slot(t, ses[r], File(t))
    BY <2>1 DEF Slot
  <2>3. QED BY <1>1, <2>1, <2>2, OwnStepBy DEF Live, Others, Daemon
<1>5. QED BY <1>3, <1>4

(* Every step of a runner is such a step. *)
LEMMA RunnerOwn ==
  ASSUME TypeInv, Slots, NEW r \in Runners, RunnerStep(r)
  PROVE  OwnStep(r)
<1> DEFINE s == run[r]
<1>1. s \in RunnerState /\ Own(s) /\ Bound(s, ses[r])
  BY DEF TypeInv, TypeOK, Slots, Slot
<1>2. Ended.there
  BY DEF Ended
<1>3. LeftForSwitch(r) /\ s.mode \in Live
        => /\ disk[r].there /\ s.mode # "inherit"
           /\ s.mode = "loop" => s.exitAck /\ s.gen \in Generations
  BY LeftAcknowledged
<1>4. CASE StartRunner(r)
  <2>1. PICK needs \in BOOLEAN : NewChild(r, [Unused EXCEPT !.needs = needs], FALSE)
    BY <1>4 DEF StartRunner
  <2> DEFINE u == [Unused EXCEPT !.needs = needs]
  <2>2. u \in RunnerState
    BY LifeHandlers DEF RunnerState
  <2>3. ~u.stopping /\ ~u.upgrading
    BY DEF Unused
  <2>4. LockFree /\ s.mode = "unused" /\ NewChild(r, u, FALSE)
    BY <1>4, <2>1 DEF StartRunner
  <2> HIDE DEF u
  <2>5. QED BY <2>2, <2>3, <2>4, NewChildOwn
<1>5. CASE Restart(r)
  <2>1. Continues(s) \in BOOLEAN
    BY <1>1 DEF Continues, RunnerState
  <2>2. ~s.stopping /\ ~s.upgrading /\ s.mode \in Live /\ NewChild(r, s, Continues(s))
    BY <1>1, <1>5 DEF Restart, MayRestart, Own, Live
  <2>3. QED BY <1>1, <2>1, <2>2, NewChildOwn
<1>6. CASE StartHandoff(r)
  <2>1. s.mode \in {"inherit", "handoff"} /\ NewChild(r, s, FALSE)
    BY <1>6 DEF StartHandoff
  <2>2. ~s.stopping /\ ~s.upgrading /\ s.mode \in Live
    BY <1>1, <2>1 DEF Own, Live
  <2>3. QED BY <1>1, <2>1, <2>2, NewChildOwn
<1>7. CASE RestartFails(r)
  BY <1>2, <1>7, EndOwn DEF RestartFails
<1>8. CASE ExecDies(r)
  BY <1>3, <1>8, EndOwn DEF ExecDies
<1>9. CASE StopDone(r)
  <2>1. End(r, IF s.exitAck THEN Ended ELSE NoFile) /\ s.mode = "loop"
    BY <1>1, <1>9 DEF StopDone, Own
  <2>2. QED BY <1>2, <1>3, <2>1, EndOwn
<1>10. CASE ChildDone(r)
  <2> DEFINE w == [s EXCEPT !.exited = TRUE, !.ready = FALSE]
             x == [w EXCEPT !.mode = "exec"]
             kept == w.child = "failed" /\ ~w.forced
  <2>1. s.mode = "loop" /\ ~s.stopping /\ s.child \in {"clean", "failed"}
    BY <1>1, <1>10 DEF ChildDone, RunnerState
  <2>2. /\ w.mode = "loop" /\ w.gen = s.gen /\ w.released = s.released
        /\ w.committed = s.committed /\ w.forced = s.forced /\ w.exitAck = s.exitAck
        /\ w.upgrading = s.upgrading /\ w.stopping = s.stopping /\ w.exited
        /\ w.child = s.child /\ w \in RunnerState
    BY <1>1, <2>1 DEF RunnerState
  <2> HIDE DEF w
  <2>3. /\ x.mode = "exec" /\ x.gen = s.gen /\ x.released = s.released
        /\ x.committed = s.committed /\ x.forced = s.forced /\ x.exitAck = s.exitAck
        /\ x.upgrading = s.upgrading /\ x.stopping = s.stopping /\ x.exited
    BY <2>2 DEF RunnerState
  <2> HIDE DEF x
  <2>4. Own(w) /\ Bound(w, ses[r]) /\ Decides(s, w) /\ Lives(s, w)
    BY <1>1, <2>1, <2>2 DEF Own, Bound, Decides, Lives, Live
  <2>5. s.upgrading => Own(x) /\ Bound(x, ses[r]) /\ Decides(s, x) /\ Lives(s, x)
    BY <1>1, <2>1, <2>3 DEF Own, Bound, Decides, Lives, Live
  <2>6. \/ Set(r, x) /\ UNCHANGED <<ses, disk, Others>> /\ s.upgrading
        \/ Set(r, w) /\ Persist(r, w) /\ UNCHANGED <<ses, Others>>
        \/ End(r, disk[r])
        \/ ~ManagedExit(w) /\ End(r, IF kept THEN Ended ELSE NoFile)
    BY <1>10, <2>2 DEF ChildDone, UpgradeExit, w, x
  <2>7. CASE Set(r, x) /\ UNCHANGED <<ses, disk, Others>> /\ s.upgrading
    BY <2>1, <2>3, <2>5, <2>7, SetOwn DEF Live
  <2>8. CASE Set(r, w) /\ Persist(r, w) /\ UNCHANGED <<ses, Others>>
    BY <2>1, <2>2, <2>4, <2>8, SetOwn DEF Live
  <2>9. CASE End(r, disk[r])
    BY <1>3, <2>9, EndOwn
  <2>10. CASE ~ManagedExit(w) /\ End(r, IF kept THEN Ended ELSE NoFile)
    <3>1. LeftForSwitch(r) /\ s.mode \in Live => s.exitAck /\ s.gen # None
      BY <1>3, <2>1, GenerationsAssumption
    <3>2. s.exitAck /\ s.gen # None => kept
      BY <2>1, <2>2, <2>10 DEF ManagedExit, ExitOK
    <3>3. QED BY <1>2, <2>10, <3>1, <3>2, EndOwn
  <2>11. QED BY <2>6, <2>7, <2>8, <2>9, <2>10
<1>11. CASE Overdue(r)
  <2> DEFINE t == [s EXCEPT !.forced = TRUE]
  <2>1. Own(t) /\ Bound(t, ses[r]) /\ Decides(s, t) /\ Lives(s, t) /\ t.mode = s.mode
    BY <1>1, <1>11 DEF Overdue, Own, Bound, Decides, Lives, RunnerState
  <2>2. Set(r, t) /\ UNCHANGED <<ses, disk, Others>>
    BY <1>11 DEF Overdue
  <2> HIDE DEF t
  <2>3. QED BY <2>1, <2>2, SetOwn
<1>12. CASE Killed(r) \/ StopChild(r)
  <2> DEFINE t == [s EXCEPT !.child = "failed"]
  <2>1. Own(t) /\ Bound(t, ses[r]) /\ Decides(s, t) /\ Lives(s, t) /\ t.mode = s.mode
    BY <1>1 DEF Own, Bound, Decides, Lives, RunnerState
  <2>2. Set(r, t) /\ UNCHANGED <<ses, disk, Others>>
    BY <1>12 DEF Killed, StopChild
  <2> HIDE DEF t
  <2>3. QED BY <2>1, <2>2, SetOwn
<1>13. CASE UpgradeGrace(r)
  <2> DEFINE t == [s EXCEPT !.upgrading = FALSE, !.exitReq = FALSE, !.gen = None]
  <2>1. s.upgrading /\ ~s.exitAck /\ ~s.released /\ s.mode = "loop"
    BY <1>1, <1>13 DEF UpgradeGrace, Own
  <2>2. /\ ~t.upgrading /\ ~t.exitAck /\ ~t.released /\ t.mode = "loop" /\ t.forced = s.forced
    BY <1>1, <2>1 DEF RunnerState
  <2>3. Set(r, t) /\ UNCHANGED <<ses, disk, Others>>
    BY <1>13 DEF UpgradeGrace
  <2> HIDE DEF t
  <2>4. Own(t) /\ Bound(t, ses[r]) /\ Decides(s, t) /\ Lives(s, t)
    BY <1>1, <2>1, <2>2 DEF Own, Bound, Decides, Lives
  <2>5. QED BY <2>1, <2>2, <2>3, <2>4, SetOwn
<1>14. CASE Quiet(r)
  <2> DEFINE t == [s EXCEPT !.ready = FALSE]
  <2>1. Own(t) /\ Bound(t, ses[r]) /\ Decides(s, t) /\ Lives(s, t) /\ t.mode = s.mode
    BY <1>1 DEF Own, Bound, Decides, Lives, RunnerState
  <2>2. Set(r, t) /\ UNCHANGED <<ses, disk, Others>>
    BY <1>14 DEF Quiet
  <2> HIDE DEF t
  <2>3. QED BY <2>1, <2>2, SetOwn
<1>15. CASE ExecOk(r)
  <2> DEFINE t == Inherited(s)
  <2>1. /\ t.mode = "inherit" /\ ~t.released /\ ~t.upgrading /\ ~t.forced /\ ~t.exitAck
        /\ ~t.stopping
    BY DEF Inherited, Unused
  <2>2. NoSession.gen = None
    BY DEF NoSession, NewSession
  <2>3. s.mode = "exec" /\ disk[r].there
    BY <1>15 DEF ExecOk, Slots, Slot, Live
  <2>4. /\ run' = [run EXCEPT ![r] = t] /\ ses' = [ses EXCEPT ![r] = NoSession]
        /\ disk' = [disk EXCEPT ![r] = disk[r]] /\ UNCHANGED <<creds, co, late>>
    BY <1>15 DEF ExecOk, Set, Told, Others, Daemon, TypeInv, TypeOK
  <2> HIDE DEF t
  <2>5. Slot(t, NoSession, disk[r])
    BY <2>1, <2>2, <2>3, GenerationsAssumption DEF Slot, Own, Bound
  <2>6. Decides(s, t) /\ Lives(s, t)
    BY <2>1, <2>3 DEF Decides, Lives, Live
  <2>7. QED BY <2>1, <2>4, <2>5, <2>6, OwnStepBy
<1>16. CASE ExecFails(r)
  <2> DEFINE t == [s EXCEPT !.mode = "handoff", !.upgrading = FALSE, !.gen = None,
                            !.exitReq = FALSE, !.exitAck = FALSE]
  <2>1. s.mode = "exec" /\ ~s.released /\ s.exited /\ ~s.stopping
    BY <1>1, <1>16 DEF ExecFails, Own
  <2>2. t.mode = "handoff" /\ ~t.upgrading /\ ~t.exitAck /\ ~t.released /\ t.exited /\ ~t.stopping
    BY <1>1, <2>1 DEF RunnerState
  <2>3. Set(r, t) /\ UNCHANGED <<ses, disk, Others>>
    BY <1>16 DEF ExecFails
  <2> HIDE DEF t
  <2>4. Own(t) /\ Bound(t, ses[r]) /\ Decides(s, t) /\ Lives(s, t) /\ s.mode \in Live
    BY <2>1, <2>2 DEF Own, Bound, Decides, Lives, Live
  <2>5. QED BY <2>2, <2>3, <2>4, SetOwn
<1>17. CASE Terminated(r)
  <2> DEFINE t == [s EXCEPT !.stopping = TRUE, !.ready = FALSE]
  <2>1. Own(t) /\ Bound(t, ses[r]) /\ Decides(s, t) /\ Lives(s, t) /\ t.mode = s.mode
    BY <1>1, <1>17 DEF Terminated, Own, Bound, Decides, Lives, RunnerState
  <2>2. Set(r, t) /\ Persist(r, t) /\ UNCHANGED <<ses, Others>>
    BY <1>17 DEF Terminated
  <2> HIDE DEF t
  <2>3. QED BY <2>1, <2>2, SetOwn
<1>18. CASE RunnerKilled(r)
  <2> DEFINE t == [Gone EXCEPT !.child = s.child]
  <2>1. /\ t.mode = "gone" /\ ~t.released /\ ~t.upgrading /\ ~t.forced /\ ~t.exitAck
        /\ ~t.stopping
    BY DEF Gone, Unused
  <2>2. /\ run' = [run EXCEPT ![r] = t] /\ ses' = [ses EXCEPT ![r] = NoSession]
        /\ disk' = [disk EXCEPT ![r] = disk[r]] /\ UNCHANGED <<creds, co, late>>
    BY <1>18 DEF RunnerKilled, Set, Told, Others, Daemon, TypeInv, TypeOK
  <2> HIDE DEF t
  <2>3. Slot(t, NoSession, disk[r])
    BY <2>1, GenerationsAssumption DEF Slot, Own, Bound, Live
  <2>4. Decides(s, t) /\ Lives(s, t)
    BY <2>1 DEF Decides, Lives, Live
  <2>5. QED BY <1>3, <2>2, <2>3, <2>4, OwnStepBy
<1>19. CASE OrphanExit(r)
  <2>1. s.mode = "gone" /\ Set(r, Gone) /\ UNCHANGED <<ses, disk, Others>>
    BY <1>19 DEF OrphanExit
  <2>2. Gone.mode = "gone" /\ ~Gone.released /\ ~Gone.upgrading /\ ~Gone.forced
        /\ ~Gone.exitAck /\ ~Gone.stopping
    BY DEF Gone, Unused
  <2>3. Own(Gone) /\ Bound(Gone, ses[r]) /\ Decides(s, Gone) /\ Lives(s, Gone)
    BY <2>2 DEF Own, Bound, Decides, Lives, Live
  <2>4. QED BY <2>1, <2>2, <2>3, SetOwn DEF Live
<1>20. CASE Forget(r)
  <2>1. /\ run' = [run EXCEPT ![r] = s] /\ ses' = [ses EXCEPT ![r] = ses[r]]
        /\ disk' = [disk EXCEPT ![r] = NoFile] /\ UNCHANGED <<creds, co, late>>
        /\ s.mode = "gone"
    BY <1>20 DEF Forget, Others, Daemon, TypeInv, TypeOK
  <2>2. Slot(s, ses[r], NoFile)
    BY <1>1, <2>1 DEF Slot, Live
  <2>3. Decides(s, s) /\ Lives(s, s)
    BY DEF Decides, Lives
  <2>4. QED BY <2>1, <2>2, <2>3, OwnStepBy DEF Live
<1>21. CASE Resume(r)
  <2> DEFINE t == AfterResume(s)
  <2>1. Own(t) /\ Bound(t, ses[r]) /\ Decides(s, t) /\ Lives(s, t) /\ t.mode = s.mode
    BY <1>1 DEF AfterResume, Own, Bound, Decides, Lives, RunnerState
  <2>2. Set(r, t) /\ UNCHANGED <<ses, disk, Others>>
    BY <1>21 DEF Resume
  <2> HIDE DEF t
  <2>3. QED BY <2>1, <2>2, SetOwn
<1>22. QED
  BY <1>4, <1>5, <1>6, <1>7, <1>8, <1>9, <1>10, <1>11, <1>12, <1>13, <1>14,
     <1>15, <1>16, <1>17, <1>18, <1>19, <1>20, <1>21 DEF RunnerStep

(* What the plugin makes of an answer keeps it bound to its runner's exit. *)
LEMMA FollowBound ==
  ASSUME NEW s, NEW p \in Session, Bound(s, p), s.mode = "loop", p.step = "idle",
         NEW t, t.mode = "loop", t.forced = s.forced, t.exitAck = (s.exitAck /\ s.forced),
         s.gen \in Generations /\ t.exitAck => t.gen = s.gen,
         NEW action, NEW ready
  PROVE  Bound(t, Follow(p, action, t.gen, ready))
<1> DEFINE f == Follow(p, action, t.gen, ready)
<1>1. \/ f.gen = None /\ f.step = p.step
      \/ f.gen = p.gen /\ f.step = p.step
      \/ f.gen = t.gen /\ f.step \in {"asked", p.step}
  <2>1. CASE action = "run"
    BY <2>1 DEF Follow, Session
  <2>2. CASE action = "resume"
    BY <2>2 DEF Follow, Session
  <2>3. CASE action \notin {"run", "resume"}
    <3>1. CASE p.gen \notin {None, t.gen}
      BY <2>3, <3>1 DEF Follow, Session
    <3>2. CASE p.gen \in {None, t.gen}
      BY <2>3, <3>2 DEF Follow, Session
    <3>3. QED BY <3>1, <3>2
  <2>4. QED BY <2>1, <2>2, <2>3
<1> HIDE DEF f
<1>2. Bound(t, f)
  BY <1>1, GenerationsAssumption DEF Bound
<1>3. QED BY <1>2 DEF f

(* Every step of a session is such a step too. *)
LEMMA SessionOwn ==
  ASSUME TypeInv, Slots, NEW r \in Runners, SessionStep(r)
  PROVE  OwnStep(r)
<1> DEFINE s == run[r]
           p == ses[r]
<1>1. s \in RunnerState /\ p \in Session /\ Own(s) /\ Bound(s, p) /\ Slot(s, p, disk[r])
  BY DEF TypeInv, TypeOK, Slots, Slot
<1>2. p.needs \in BOOLEAN /\ Settled(p) \in BOOLEAN
  BY <1>1 DEF Session, Settled
<1>3. ~ChildRefused(s) /\ Serving(r) => s.mode = "loop" /\ ~s.exited
  BY <1>1 DEF ChildRefused, Serving, Own
<1>4. Decides(s, s) /\ Lives(s, s)
  BY DEF Decides, Lives
<1>5. run = [run EXCEPT ![r] = s] /\ ses = [ses EXCEPT ![r] = p] /\ disk = [disk EXCEPT ![r] = disk[r]]
  BY DEF TypeInv, TypeOK
(* A step that changes the runner and the plugin, and stays in the loop. *)
<1>6. ASSUME NEW t, NEW n, run' = [run EXCEPT ![r] = t], ses' = [ses EXCEPT ![r] = n],
             disk' = disk \/ disk' = [disk EXCEPT ![r] = File(t)], UNCHANGED Others,
             t.mode = s.mode, s.mode \in Live, Own(t), Bound(t, n), Decides(s, t)
      PROVE  OwnStep(r)
  <2>1. PICK f : disk' = [disk EXCEPT ![r] = f] /\ f.there
    BY <1>1, <1>5, <1>6 DEF Slot, File
  <2>2. Slot(t, n, f) /\ Lives(s, t)
    BY <1>6, <2>1 DEF Slot, Lives, Live
  <2>3. QED BY <1>6, <2>1, <2>2, OwnStepBy DEF Live, Others, Daemon
(* A step of the plugin alone. *)
<1>7. ASSUME NEW n, ses' = [ses EXCEPT ![r] = n], UNCHANGED <<run, disk, Others>>, Bound(s, n)
      PROVE  OwnStep(r)
  <2>1. Slot(s, n, disk[r])
    BY <1>1, <1>7 DEF Slot
  <2>2. s.mode \in Live => s.mode # "gone"
    BY DEF Live
  <2>3. QED BY <1>4, <1>5, <1>7, <2>1, <2>2, OwnStepBy DEF Others, Daemon
<1>8. ASSUME NEW how, Set(r, [s EXCEPT !.child = how]), disk' = disk, UNCHANGED Others,
             NEW n, ses' = [ses EXCEPT ![r] = n], Bound(s, n), s.mode \in Live
      PROVE  OwnStep(r)
  <2> DEFINE t == [s EXCEPT !.child = how]
  <2>1. /\ t.mode = s.mode /\ Own(t) /\ Decides(s, t)
        /\ t.forced = s.forced /\ t.exitAck = s.exitAck /\ t.gen = s.gen
    BY <1>1 DEF Own, Decides, RunnerState
  <2>2. run' = [run EXCEPT ![r] = t]
    BY <1>8 DEF Set
  <2> HIDE DEF t
  <2>3. Bound(t, n)
    BY <1>8, <2>1 DEF Bound
  <2>4. QED BY <1>6, <1>8, <2>1, <2>2, <2>3
(* Back to idle, or on to the next check of an acknowledged exit. *)
<1>9. ASSUME NEW step, step \in {"acked", "changed", "exiting"} /\ s.mode = "loop" => s.exitAck
      PROVE  Bound(s, [p EXCEPT !.step = step])
  <2>1. [p EXCEPT !.step = step].step = step /\ [p EXCEPT !.step = step].gen = p.gen
    BY <1>1 DEF Session
  <2>2. QED BY <1>1, <1>9, <2>1 DEF Bound
<1>10. CASE Work(r)
  <2> DEFINE n == [p EXCEPT !.busy = TRUE, !.step = IF @ = "acked" THEN "changed" ELSE @]
  <2>1. n.gen = p.gen /\ n.step = IF p.step = "acked" THEN "changed" ELSE p.step
    BY <1>1 DEF Session
  <2>2. ses' = [ses EXCEPT ![r] = n] /\ UNCHANGED <<run, disk, Others>>
    BY <1>10 DEF Work, Told
  <2> HIDE DEF n
  <2>3. Bound(s, n)
    BY <1>1, <2>1 DEF Bound
  <2>4. QED BY <1>7, <2>2, <2>3
<1>11. CASE Finish(r)
  <2>1. PICK limited \in BOOLEAN :
          ses' = [ses EXCEPT ![r] = [p EXCEPT !.busy = FALSE, !.needs = limited,
                                              !.resumable = @ /\ ~limited]]
    BY <1>11 DEF Finish, Told
  <2> DEFINE n == [p EXCEPT !.busy = FALSE, !.needs = limited, !.resumable = @ /\ ~limited]
  <2>2. n.gen = p.gen /\ n.step = p.step
    BY <1>1 DEF Session
  <2>3. ses' = [ses EXCEPT ![r] = n] /\ UNCHANGED <<run, disk, Others>>
    BY <1>11, <2>1 DEF Finish
  <2> HIDE DEF n
  <2>4. Bound(s, n)
    BY <1>1, <2>2 DEF Bound
  <2>5. QED BY <1>7, <2>3, <2>4
<1>12. CASE UserExit(r)
  <2>1. Bound(s, [p EXCEPT !.step = "idle"])
    BY <1>9
  <2>2. /\ Set(r, [s EXCEPT !.child = "clean"]) /\ disk' = disk /\ UNCHANGED Others
        /\ ses' = [ses EXCEPT ![r] = [p EXCEPT !.step = "idle"]] /\ s.mode \in Live
    BY <1>12 DEF UserExit, Told, Live
  <2>3. QED BY <1>8, <2>1, <2>2
<1>13. CASE ChildCrash(r)
  <2>1. /\ Set(r, [s EXCEPT !.child = "failed"]) /\ disk' = disk /\ UNCHANGED Others
        /\ ses' = [ses EXCEPT ![r] = p] /\ s.mode \in Live
    BY <1>5, <1>13 DEF ChildCrash, Live
  <2>2. QED BY <1>1, <1>8, <2>1
(* A heartbeat that the runner takes, and what follows from it. *)
<1>14. ASSUME NEW ready \in BOOLEAN, NEW replaced \in BOOLEAN, ~ChildRefused(s), Serving(r)
       PROVE  LET t == AfterState(Heard(s, ready, p.needs), replaced) IN
              /\ t \in RunnerState /\ Own(t) /\ Decides(s, t)
              /\ t.mode = "loop" /\ s.mode = "loop" /\ t.forced = s.forced
              /\ t.exitAck = (s.exitAck /\ s.forced)
              /\ s.gen \in Generations /\ t.exitAck => t.gen = s.gen
  <2>1. Heard(s, ready, p.needs) \in RunnerState
    BY <1>1, <1>2, ChildHandlers DEF Same
  <2>2. AfterState(Heard(s, ready, p.needs), replaced) \in RunnerState
    BY <2>1, ChildHandlers DEF Same
  <2>3. s.mode = "loop" /\ ~s.exited
    BY <1>3, <1>14
  <2>4. QED BY <1>1, <1>2, <2>2, <2>3, HeardDecides
<1>15. ASSUME Revoke(r), Serving(r), UNCHANGED Others
       PROVE  OwnStep(r)
  <2> DEFINE t == AfterState(Heard(s, FALSE, p.needs), FALSE)
             n == [p EXCEPT !.step = "idle"]
  <2>1. ses' = [ses EXCEPT ![r] = n]
    BY <1>15 DEF Revoke, Told
  <2>2. n.gen = p.gen /\ n.step = "idle" /\ Bound(s, n)
    BY <1>1, <1>9 DEF Session
  <2>3. CASE ChildRefused(s)
    <3>1. UNCHANGED <<run, disk, Others>>
      BY <1>15, <2>3 DEF Revoke
    <3> HIDE DEF n
    <3>2. QED BY <1>7, <2>1, <2>2, <3>1
  <2>4. CASE ~ChildRefused(s)
    <3>1. run' = [run EXCEPT ![r] = t] /\ disk' = [disk EXCEPT ![r] = File(t)]
      BY <1>15, <2>4 DEF Revoke, Set, Persist
    <3>2. /\ Own(t) /\ Decides(s, t) /\ t.mode = "loop" /\ s.mode = "loop"
          /\ t.forced = s.forced /\ t.exitAck = (s.exitAck /\ s.forced)
          /\ s.gen \in Generations /\ t.exitAck => t.gen = s.gen
      BY <1>14, <1>15, <2>4
    <3> HIDE DEF t, n
    <3>3. Bound(t, n)
      BY <1>1, <2>2, <3>2, GenerationsAssumption DEF Bound
    <3>4. QED BY <1>6, <1>15, <2>1, <3>1, <3>2, <3>3 DEF Live
  <2>5. QED BY <2>3, <2>4
<1>16. CASE Heartbeat(r)
  <2> DEFINE ready == Settled(p)
             t(replaced) == AfterState(Heard(s, ready, p.needs), replaced)
             n(replaced) == Follow(p, StateAction(Heard(s, ready, p.needs), replaced),
                                   t(replaced).gen, ready)
  <2>1. ~ChildRefused(s) /\ Serving(r) /\ p.step = "idle" /\ UNCHANGED Others
    BY <1>16 DEF Heartbeat, Polls
  <2>2. \A replaced \in BOOLEAN :
          /\ t(replaced) \in RunnerState /\ Own(t(replaced)) /\ Decides(s, t(replaced))
          /\ t(replaced).mode = "loop" /\ s.mode = "loop" /\ t(replaced).forced = s.forced
          /\ t(replaced).exitAck = (s.exitAck /\ s.forced)
          /\ s.gen \in Generations /\ t(replaced).exitAck => t(replaced).gen = s.gen
    BY <1>2, <1>14, <2>1
  <2>3. \/ \E replaced \in BOOLEAN :
             /\ run' = [run EXCEPT ![r] = t(replaced)]
             /\ disk' = [disk EXCEPT ![r] = File(t(replaced))]
             /\ ses' = [ses EXCEPT ![r] = n(replaced)]
        \/ /\ run' = [run EXCEPT ![r] = Failed(t(FALSE))]
           /\ UNCHANGED <<ses, disk>>
    BY <1>16 DEF Heartbeat, Set, Persist, Told
  <2> HIDE DEF t
  <2>4. \A replaced \in BOOLEAN : Bound(t(replaced), n(replaced))
    BY <1>1, <2>1, <2>2, FollowBound
  <2> HIDE DEF n
  <2>5. ASSUME NEW replaced \in BOOLEAN,
               run' = [run EXCEPT ![r] = t(replaced)],
               disk' = [disk EXCEPT ![r] = File(t(replaced))],
               ses' = [ses EXCEPT ![r] = n(replaced)]
        PROVE  OwnStep(r)
    <3>1. /\ Own(t(replaced)) /\ Bound(t(replaced), n(replaced)) /\ Decides(s, t(replaced))
          /\ t(replaced).mode = s.mode /\ s.mode \in Live
      BY <2>2, <2>4 DEF Live
    <3>2. QED BY <1>6, <2>1, <2>5, <3>1
  <2>6. ASSUME run' = [run EXCEPT ![r] = Failed(t(FALSE))], UNCHANGED <<ses, disk>>
        PROVE  OwnStep(r)
    <3> DEFINE u == t(FALSE)
               w == Failed(t(FALSE))
    <3>1. /\ u \in RunnerState /\ Own(u) /\ Decides(s, u) /\ u.mode = "loop" /\ s.mode = "loop"
          /\ u.forced = s.forced /\ u.exitAck = (s.exitAck /\ s.forced)
          /\ s.gen \in Generations /\ u.exitAck => u.gen = s.gen
      BY <2>2
    <3>2. /\ w.mode = u.mode /\ w.gen = u.gen /\ w.forced = u.forced /\ w.exitAck = u.exitAck
          /\ w.released = u.released /\ w.committed = u.committed /\ Own(w)
      BY <3>1, FailedDecides
    <3>3. run' = [run EXCEPT ![r] = w]
      BY <2>6
    <3> HIDE DEF u, w
    <3>4. Decides(s, w) /\ w.mode = s.mode /\ s.mode \in Live
      BY <3>1, <3>2 DEF Decides, Live
    <3>5. Bound(w, p)
      BY <1>1, <2>1, <3>1, <3>2, GenerationsAssumption DEF Bound
    <3>6. ses' = [ses EXCEPT ![r] = p]
      BY <1>5, <2>6
    <3>7. QED BY <1>6, <2>1, <2>6, <3>2, <3>3, <3>4, <3>5, <3>6
  <2>7. QED BY <2>3, <2>5, <2>6
<1>17. CASE Acknowledge(r)
  <2> DEFINE t == AfterExiting(s, p.needs)
             idle == [p EXCEPT !.step = "idle"]
             acked == [p EXCEPT !.step = "acked"]
             u == [Failed(t) EXCEPT !.exitAck = FALSE]
             w == [s EXCEPT !.ready = FALSE]
  <2>1. Serving(r) /\ UNCHANGED Others /\ s.mode \in Live
    BY <1>17 DEF Acknowledge, Polls, Serving, Live
  <2>2. /\ idle.step = "idle" /\ idle.gen = p.gen /\ acked.step = "acked" /\ acked.gen = p.gen
        /\ Bound(s, idle) /\ (s.exitAck => Bound(s, acked))
    BY <1>1, <1>9 DEF Session
  <2>3. \/ /\ ses' = [ses EXCEPT ![r] = idle] /\ UNCHANGED <<run, disk>>
        \/ /\ s.exitAck
           /\ ses' = [ses EXCEPT ![r] = acked] /\ UNCHANGED <<run, disk>>
        \/ /\ run' = [run EXCEPT ![r] = w]
           /\ ses' = [ses EXCEPT ![r] = idle] /\ UNCHANGED disk
        \/ /\ ~ExitingRefused(s, p.gen)
           /\ run' = [run EXCEPT ![r] = t] /\ disk' = [disk EXCEPT ![r] = File(t)]
           /\ ses' \in {[ses EXCEPT ![r] = idle], [ses EXCEPT ![r] = acked]}
        \/ /\ ~ExitingRefused(s, p.gen)
           /\ run' = [run EXCEPT ![r] = u] /\ UNCHANGED disk
           /\ ses' = [ses EXCEPT ![r] = idle]
    BY <1>17 DEF Acknowledge, Told, Set, Persist
  <2>4. /\ w.mode = s.mode /\ Own(w) /\ Decides(s, w)
        /\ w.forced = s.forced /\ w.exitAck = s.exitAck /\ w.gen = s.gen
    BY <1>1 DEF Own, Decides, RunnerState
  <2>5. /\ t \in RunnerState /\ t.mode = s.mode /\ Own(t) /\ Decides(s, t)
        /\ t.forced = s.forced /\ t.exitAck /\ t.gen = s.gen
    <3>1. t \in RunnerState
      BY <1>1, <1>2, ChildHandlers DEF Same
    <3>2. QED BY <1>1, <3>1 DEF AfterExiting, Own, Decides, RunnerState
  <2> HIDE DEF t
  <2>6. /\ u.mode = s.mode /\ Own(u) /\ Decides(s, u)
        /\ u.forced = s.forced /\ ~u.exitAck
    BY <2>5 DEF Failed, Own, Decides, RunnerState
  <2>7. ~ExitingRefused(s, p.gen) =>
          /\ s.gen = p.gen /\ ~s.exitAck /\ s.mode = "loop"
    BY <1>3, <2>1 DEF ExitingRefused
  <2> HIDE DEF idle, acked, u, w
  <2>8. Bound(w, idle)
    BY <2>2, <2>4 DEF Bound
  <2>9. ~ExitingRefused(s, p.gen) => Bound(t, idle) /\ Bound(t, acked) /\ Bound(u, idle)
    BY <1>1, <2>2, <2>5, <2>6, <2>7 DEF Bound
  <2>10. QED BY <1>6, <1>7, <2>1, <2>2, <2>3, <2>4, <2>5, <2>6, <2>8, <2>9
<1>18. CASE FinalCheck(r)
  <2>1. p.step \in {"acked", "changed"} /\ Serving(r) /\ UNCHANGED Others
    BY <1>18 DEF FinalCheck, Polls
  <2>2. CASE Revoke(r)
    BY <1>15, <2>1, <2>2
  <2>3. CASE ~Revoke(r)
    <3>1. ses' = [ses EXCEPT ![r] = [p EXCEPT !.step = "exiting"]] /\ UNCHANGED <<run, disk, Others>>
      BY <1>18, <2>3 DEF FinalCheck, Told
    <3>2. Bound(s, [p EXCEPT !.step = "exiting"])
      BY <1>1, <1>9, <2>1 DEF Bound
    <3>3. QED BY <1>7, <3>1, <3>2
  <2>4. QED BY <2>2, <2>3
<1>19. CASE RunExit(r)
  <2>1. Serving(r) /\ s.mode \in Live /\ UNCHANGED Others
    BY <1>19 DEF RunExit, Polls, Serving, Live
  <2>2. CASE Revoke(r)
    BY <1>15, <2>1, <2>2
  <2>3. CASE ~Revoke(r)
    <3>1. Set(r, [s EXCEPT !.child = "clean"]) /\ disk' = disk /\ ses' = [ses EXCEPT ![r] = p]
      BY <1>5, <1>19, <2>3 DEF RunExit
    <3>2. QED BY <1>1, <1>8, <2>1, <3>1
  <2>4. QED BY <2>2, <2>3
<1>20. QED
  BY <1>10, <1>11, <1>12, <1>13, <1>16, <1>17, <1>18, <1>19 DEF SessionStep

-----------------------------------------------------------------------------
(* The invariant of the whole.  A release that says "committed" names the   *)
(* account in the file, wherever it is: in the coordinator that is about to *)
(* send it, in a request it gave up on, or in the runner that took it.      *)

LateHolds ==
  \A m \in late :
    /\ run[m.to].mode # "unused"
    /\ m.route = "release" => m.gen \in Generations
    /\ m.route = "release" /\ m.commit /\ run[m.to].mode \in Live => creds = m.gen

(* Only a coordinator that releases has a decision, and only the one that
   wrote the credentials has decided to commit. *)
Named ==
  /\ co.goal # "release" => co.gen # None /\ ~co.committed
  /\ co.pc \in {"prepare", "exit", "status"} => co.goal = "prepare"
  /\ co.pc = "write" => co.goal = "recheck"
  /\ co.pc = "idle" => co.goal = "release"

Commits == co.committed => co.gen # None /\ co.gen = creds

Targets ==
  co.pc = "release" /\ co.committed => \A r \in co.todo : co.view[r].gen = co.gen

(* Whoever may still hold claude.lock's place answers every scan. *)
SeenLive ==
  co.pc = "scan" =>
    \A r \in Runners \ co.todo : run[r].mode \in Live => co.view[r].kind = "live"

(* From the last /prepare on, until the credentials are written, no runner has
   the decision of another switch, nor a request that could still bring it. *)
Preparing(c) == c.pc \in {"prepare", "exit", "status"}
InDrain(c) == Preparing(c) \/ c.goal = "recheck"

Excused(r) == \/ Preparing(co) /\ co.waiting
              \/ co.pc = "prepare" /\ r \in co.todo

Cleared(r) ==
  run[r].mode \in Live =>
    /\ \A m \in late : m.to # r
    /\ run[r].released /\ run[r].committed => run[r].gen = co.gen

Drained == InDrain(co) => \A r \in Runners : Excused(r) \/ Cleared(r)

CoordinatorInv == Named /\ Commits /\ Targets /\ SeenLive /\ Drained

DecisionInv == Slots /\ LateHolds /\ CoordinatorInv /\ CommitMeansWritten

-----------------------------------------------------------------------------
(* The steps of runners and sessions keep it ... *)

LEMMA OwnKeeps ==
  ASSUME TypeInv, DecisionInv, NEW r \in Runners, OwnStep(r)
  PROVE  DecisionInv'
<1>1. /\ \A q \in Runners \ {r} :
           run'[q] = run[q] /\ ses'[q] = ses[q] /\ disk'[q] = disk[q]
      /\ creds' = creds /\ co' = co /\ late' = late
      /\ Decides(run[r], run'[r]) /\ Lives(run[r], run'[r])
      /\ Slot(run'[r], ses'[r], disk'[r])
  BY DEF OwnStep, Elsewhere
<1>2. Slots'
  BY <1>1 DEF DecisionInv, Slots
<1>3. \A m \in late : m.to \in Runners
  BY DEF TypeInv, TypeOK, Message
<1>4. \A q \in Runners :
        /\ run'[q].mode \in Live
             => run[q].mode \in Live \/ (run[q].mode = "unused" /\ LockFree /\ ~run'[q].released)
        /\ run'[q].mode = "unused" => run[q].mode = "unused"
        /\ run'[q].released => /\ run[q].released /\ run'[q].committed = run[q].committed
                               /\ run'[q].gen = run[q].gen
  BY <1>1 DEF Decides, Lives
<1>5. CommitMeansWritten'
  BY <1>1, <1>4 DEF DecisionInv, CommitMeansWritten
<1>6. LateHolds'
  <2>1. ASSUME NEW m \in late
        PROVE  /\ run'[m.to].mode # "unused"
               /\ m.route = "release" => m.gen \in Generations
               /\ m.route = "release" /\ m.commit /\ run'[m.to].mode \in Live => creds = m.gen
    BY <1>3, <1>4 DEF DecisionInv, LateHolds
  <2>2. QED BY <1>1, <2>1 DEF LateHolds
<1>7. Named' /\ Commits' /\ Targets'
  BY <1>1 DEF DecisionInv, CoordinatorInv, Named, Commits, Targets
<1>8. SeenLive'
  <2>1. co.pc = "scan" => ~LockFree
    BY DEF LockFree
  <2>2. QED BY <1>1, <1>4, <2>1 DEF DecisionInv, CoordinatorInv, SeenLive
<1>9. Drained'
  <2>1. InDrain(co) => ~LockFree
    BY DEF InDrain, Preparing, LockFree, DecisionInv, CoordinatorInv, Named
  <2>2. ASSUME InDrain(co), NEW q \in Runners, Cleared(q)
        PROVE  Cleared(q)'
    BY <1>1, <1>4, <2>1, <2>2 DEF Cleared
  <2>3. ASSUME NEW q \in Runners, Excused(q)
        PROVE  Excused(q)'
    BY <1>1, <2>3 DEF Excused, Preparing
  <2>4. InDrain(co)' => InDrain(co)
    BY <1>1 DEF InDrain, Preparing
  <2>5. QED BY <2>2, <2>3, <2>4 DEF DecisionInv, CoordinatorInv, Drained
<1>10. QED BY <1>2, <1>5, <1>6, <1>7, <1>8, <1>9 DEF DecisionInv, CoordinatorInv

-----------------------------------------------------------------------------
(* ... requests do, while they are sent and when they are handled late ... *)

(* What a request does to the runners. *)
MessageStep(m) ==
  /\ \A q \in Runners \ {m.to} : run'[q] = run[q]
  /\ run'[m.to].mode = run[m.to].mode
  /\ \/ Decides(run[m.to], run'[m.to])
     \/ /\ m.route = "release" /\ ~run[m.to].released
        /\ run'[m.to].committed = m.commit /\ run'[m.to].gen = m.gen
  /\ Slots'

(* A request that is handled, written or not, is such a step. *)
LEMMA Delivered ==
  ASSUME TypeInv, Slots, NEW m \in Message, m.route = "release" => m.gen \in Generations,
         NEW verified \in BOOLEAN, NEW t,
         t \in {Handled(run[m.to], m, verified), Failed(Handled(run[m.to], m, verified))},
         run' = [run EXCEPT ![m.to] = t], ses' = ses,
         disk' = disk \/ disk' = [disk EXCEPT ![m.to] = File(t)]
  PROVE  MessageStep(m)
<1> DEFINE r == m.to
           s == run[r]
           h == Handled(s, m, verified)
<1>1. r \in Runners /\ s \in RunnerState /\ Slot(s, ses[r], disk[r])
  BY DEF Message, TypeInv, TypeOK, Slots
<1>2. h \in RunnerState
  BY <1>1, HandledSame DEF Same
<1>3. /\ Spares(s, h)
      /\ \/ Decides(s, h)
         \/ m.route = "release" /\ ~s.released /\ h.committed = m.commit /\ h.gen = m.gen
  BY <1>1, ControlDecides DEF Slot
<1> HIDE DEF h
<1>4. /\ t.mode = h.mode /\ t.gen = h.gen /\ t.forced = h.forced /\ t.exitAck = h.exitAck
      /\ t.released = h.released /\ t.committed = h.committed /\ Own(t)
  <2>1. t \in {h, Failed(h)}
    BY DEF h
  <2>2. QED BY <1>2, <1>3, <2>1, FailedDecides DEF Spares
<1>5. Bound(t, ses[r])
  BY <1>1, <1>3, <1>4, GenerationsAssumption DEF Spares, Slot, Bound
<1>6. /\ \A q \in Runners : q # r => run'[q] = run[q] /\ disk'[q] = disk[q] /\ ses'[q] = ses[q]
      /\ run'[r] = t /\ ses'[r] = ses[r]
      /\ disk'[r] = disk[r] \/ disk'[r] = File(t)
  BY <1>1 DEF TypeInv, TypeOK
<1>7. Slot(run'[r], ses'[r], disk'[r])
  BY <1>1, <1>3, <1>4, <1>5, <1>6 DEF Slot, Spares, File
<1>8. Slots'
  BY <1>6, <1>7 DEF Slots
<1>9. /\ t.mode = s.mode
      /\ \/ Decides(s, t)
         \/ m.route = "release" /\ ~s.released /\ t.committed = m.commit /\ t.gen = m.gen
  BY <1>3, <1>4 DEF Spares, Decides
<1>10. QED BY <1>6, <1>8, <1>9 DEF MessageStep

(* A step that leaves the runners alone is one for any request. *)
LEMMA NotDelivered ==
  ASSUME Slots, NEW m \in Message, UNCHANGED <<run, ses, disk>>
  PROVE  MessageStep(m)
<1>1. Slots'
  BY DEF Slots
<1>2. QED BY <1>1 DEF MessageStep, Decides

(* A call of the coordinator ends with the answer of a runner that had no older
   request to handle, or with an error, after which it may still be handled. *)
LEMMA CallSends ==
  ASSUME TypeInv, Slots, NEW m \in Message, m.route = "release" => m.gen \in Generations,
         NEW verified \in BOOLEAN, NEW answered, NEW refused, NEW silence,
         Call(m, verified, answered, refused, silence), ses' = ses
  PROVE  /\ MessageStep(m)
         /\ \/ /\ co' = answered /\ late' = late /\ Answers(m.to)
               /\ ~Refused(run[m.to], m, verified)
               /\ run'[m.to] = Handled(run[m.to], m, verified)
            \/ /\ co' \in {refused, silence}
               /\ \/ late' = late
                  \/ late' = late \cup {m} /\ run[m.to].mode \in Live
<1> DEFINE s == run[m.to]
           h(v) == Handled(s, m, v)
<1>1. m.to \in Runners
  BY DEF Message
<1>2. CASE /\ Answers(m.to) /\ Handle(m, verified) /\ late' = late
           /\ co' = IF Refused(s, m, verified) THEN refused ELSE answered
  <2>1. /\ run' = [run EXCEPT ![m.to] = h(verified)]
        /\ disk' = disk \/ disk' = [disk EXCEPT ![m.to] = File(h(verified))]
    BY <1>2 DEF Handle, Set, Persist
  <2>2. run'[m.to] = h(verified)
    BY <1>1, <2>1 DEF TypeInv, TypeOK
  <2> HIDE DEF h
  <2>3. h(verified) \in {h(verified), Failed(h(verified))}
    OBVIOUS
  <2>4. MessageStep(m)
    BY <2>1, <2>3, Delivered DEF h
  <2>5. QED BY <1>2, <2>2, <2>4 DEF h
<1>3. CASE /\ run' = [run EXCEPT ![m.to] = Failed(h(TRUE))] /\ disk' = disk
           /\ co' = refused /\ late' = late
  <2>1. MessageStep(m)
    BY <1>3, Delivered
  <2>2. QED BY <1>3, <2>1
<1>4. CASE /\ UNCHANGED <<run, disk>> /\ co' = silence
           /\ late' = late \/ (late' = late \cup {m} /\ run[m.to].mode \in Live)
  BY <1>4, NotDelivered
<1>5. QED
  BY <1>2, <1>3, <1>4 DEF Call, Set, Serving, Live

(* A request that stays or becomes late, or is taken from the late ones, keeps
   everything but what the coordinator makes of it. *)
LEMMA MessageKeeps ==
  ASSUME TypeInv, DecisionInv, NEW m \in Message, MessageStep(m), creds' = creds,
         m.route = "release" => m.gen \in Generations,
         m.route = "release" /\ m.commit /\ run[m.to].mode \in Live => creds = m.gen,
         late' \subseteq late \cup {m}, run[m.to].mode = "unused" => m \notin late'
  PROVE  Slots' /\ LateHolds' /\ CommitMeansWritten'
<1>1. \A q \in Runners :
        /\ run'[q].mode = run[q].mode
        /\ \/ Decides(run[q], run'[q])
           \/ /\ q = m.to /\ m.route = "release" /\ ~run[q].released
              /\ run'[q].committed = m.commit /\ run'[q].gen = m.gen
  <2>1. ASSUME NEW q \in Runners, q # m.to
        PROVE  run'[q].mode = run[q].mode /\ Decides(run[q], run'[q])
    BY <2>1 DEF MessageStep, Decides
  <2>2. QED BY <2>1 DEF MessageStep
<1>2. Slots'
  BY DEF MessageStep
<1>3. CommitMeansWritten'
  BY <1>1 DEF DecisionInv, CommitMeansWritten, Decides
<1>4. LateHolds'
  <2>1. ASSUME NEW k \in late'
        PROVE  /\ run'[k.to].mode # "unused"
               /\ k.route = "release" => k.gen \in Generations
               /\ k.route = "release" /\ k.commit /\ run'[k.to].mode \in Live => creds = k.gen
    <3>1. k.to \in Runners /\ k \in late \cup {m}
      BY <2>1 DEF TypeInv, TypeOK, Message
    <3>2. run'[k.to].mode = run[k.to].mode
      BY <1>1, <3>1
    <3>3. CASE k \in late
      BY <3>2, <3>3 DEF DecisionInv, LateHolds
    <3>4. CASE k = m
      BY <2>1, <3>2, <3>4
    <3>5. QED BY <3>1, <3>3, <3>4
  <2>2. QED BY <2>1 DEF LateHolds
<1>5. QED BY <1>2, <1>3, <1>4

(* A late request that is handled keeps the invariant: when it matters, the
   coordinator has waited for it. *)
LEMMA LateKeeps ==
  ASSUME TypeInv, DecisionInv, NEW m \in late, LateCall(m)
  PROVE  DecisionInv'
<1>1. /\ m \in Message /\ m.to \in Runners /\ late' = late \ {m}
      /\ creds' = creds /\ co' = co /\ ses' = ses
  BY DEF TypeInv, TypeOK, LateCall, Message, Daemon
<1>2. Slots /\ (m.route = "release" => m.gen \in Generations)
  BY DEF DecisionInv, LateHolds
<1>3. MessageStep(m)
  <2>1. CASE UNCHANGED <<run, disk>>
    BY <1>1, <1>2, <2>1, NotDelivered
  <2>2. CASE \E verified \in BOOLEAN : Handle(m, verified)
    <3>1. PICK verified \in BOOLEAN : Handle(m, verified)
      BY <2>2
    <3> DEFINE t == Handled(run[m.to], m, verified)
    <3>2. run' = [run EXCEPT ![m.to] = t] /\ (disk' = disk \/ disk' = [disk EXCEPT ![m.to] = File(t)])
      BY <3>1 DEF Handle, Set, Persist
    <3>3. QED BY <1>1, <1>2, <3>2, Delivered
  <2>3. QED BY <2>1, <2>2 DEF LateCall
<1>4. run[m.to].mode \notin Live => run' = run
  BY DEF LateCall, Handle, Serving, Live
<1>5. Slots' /\ LateHolds' /\ CommitMeansWritten'
  BY <1>1, <1>2, <1>3, MessageKeeps DEF DecisionInv, LateHolds
<1>6. \A q \in Runners : run'[q].mode = run[q].mode
  BY <1>3 DEF MessageStep
<1>7. Named' /\ Commits' /\ Targets' /\ SeenLive'
  BY <1>1, <1>6 DEF DecisionInv, CoordinatorInv, Named, Commits, Targets, SeenLive
<1>8. Drained'
  <2>1. ASSUME NEW q \in Runners, Cleared(q)
        PROVE  Cleared(q)'
    <3>1. CASE q = m.to
      BY <1>1, <1>4, <2>1, <3>1 DEF Cleared
    <3>2. CASE q # m.to
      BY <1>1, <1>3, <2>1, <3>2 DEF Cleared, MessageStep
    <3>3. QED BY <3>1, <3>2
  <2>2. ASSUME NEW q \in Runners, Excused(q)
        PROVE  Excused(q)'
    BY <1>1, <2>2 DEF Excused, Preparing
  <2>3. InDrain(co)' => InDrain(co)
    BY <1>1 DEF InDrain, Preparing
  <2>4. QED BY <2>1, <2>2, <2>3 DEF DecisionInv, CoordinatorInv, Drained
<1>9. QED BY <1>5, <1>7, <1>8 DEF DecisionInv, CoordinatorInv

-----------------------------------------------------------------------------
(* ... and so do the coordinator's own steps. *)

(* A coordinator that has ended, or begins a scan that commits nothing. *)
Calm(c) ==
  /\ c.pc \in {"idle", "scan"} /\ ~c.committed /\ c.goal # "recheck"
  /\ c.pc = "idle" => c.goal = "release"
  /\ c.pc = "scan" => c.todo = Runners
  /\ c.goal # "release" => c.gen # None

LEMMA CalmKeeps ==
  ASSUME Calm(co')
  PROVE  CoordinatorInv'
<1>1. Named' /\ Commits' /\ Targets'
  BY DEF Calm, Named, Commits, Targets
<1>2. SeenLive'
  BY DEF Calm, SeenLive
<1>3. Drained'
  BY DEF Calm, Drained, InDrain, Preparing
<1>4. QED BY <1>1, <1>2, <1>3 DEF CoordinatorInv

(* Where a coordinator goes when it gives up, retries or starts over. *)
LEMMA Calms ==
  ASSUME NEW c \in Coordinator
  PROVE  /\ Calm(Idle) /\ Calm(GiveUp(c)) /\ Calm(Unanswered(c))
         /\ ~c.committed /\ c.gen # None => Calm(BeginPrepare(c))
         /\ ~c.committed => Calm(Scanning(c, "release"))
         /\ ~c.committed /\ c.gen # None
              => Calm(Scanning(c, "prepare")) /\ Calm(Scanning(c, "blockers"))
<1>1. Calm(Idle)
  BY DEF Idle, Calm
<1>2. ASSUME NEW d \in Coordinator, NEW goal, goal # "recheck", ~d.committed,
             goal # "release" => d.gen # None
      PROVE  Calm(Scanning(d, goal))
  BY <1>2 DEF Scanning, Calm, Coordinator
<1>3. Calm(GiveUp(c))
  <2> DEFINE d == [c EXCEPT !.committed = FALSE, !.failed = "no"]
  <2>1. d \in Coordinator /\ ~d.committed
    BY DEF Coordinator
  <2> HIDE DEF d
  <2>2. Calm(Scanning(d, "release"))
    BY <1>2, <2>1
  <2>3. GiveUp(c) \in {Idle, Scanning(d, "release")}
    BY DEF GiveUp, BeginRelease, d
  <2>4. QED BY <1>1, <2>2, <2>3
<1>4. Calm(Unanswered(c))
  BY <1>1, <1>3 DEF Unanswered
<1>5. ASSUME ~c.committed, c.gen # None
      PROVE  Calm(BeginPrepare(c))
  <2> DEFINE d == [c EXCEPT !.waiting = FALSE, !.leaving = FALSE]
  <2>1. d \in Coordinator /\ ~d.committed /\ d.gen = c.gen
    BY <1>5 DEF Coordinator
  <2> HIDE DEF d
  <2>2. Calm(Scanning(d, "prepare")) /\ Calm(Scanning(d, "cancel"))
    BY <1>2, <1>5, <2>1
  <2>3. BeginPrepare(c) \in {Scanning(d, "prepare"), Scanning(d, "cancel")}
    BY DEF BeginPrepare, d
  <2>4. QED BY <2>2, <2>3
<1>6. QED BY <1>1, <1>2, <1>3, <1>4, <1>5

(* A step that leaves runners, requests and credentials alone keeps the rest. *)
LEMMA MoveKeeps ==
  ASSUME TypeInv, DecisionInv, UNCHANGED <<run, ses, disk, creds, late>>
  PROVE  Slots' /\ LateHolds' /\ CommitMeansWritten'
BY DEF DecisionInv, Slots, LateHolds, CommitMeansWritten

(* Starting, and ending, a turn of the coordinator. *)
LEMMA TurnKeeps ==
  ASSUME TypeInv, DecisionInv,
         QueueSwitch \/ Tick \/ ManualSwitch \/ CoordinatorDies
  PROVE  DecisionInv'
<1>1. Idle \in Coordinator /\ ~Idle.committed
  BY CoordinatorTyped, CoordinatorMoves DEF Idle
<1>2. \A g \in Generations : LET d == [Idle EXCEPT !.gen = g]
                                 e == [Idle EXCEPT !.gen = g, !.manual = TRUE]
                             IN /\ d \in Coordinator /\ ~d.committed /\ d.gen # None
                                /\ e \in Coordinator /\ ~e.committed /\ e.gen # None
  BY <1>1, GenerationsAssumption DEF Coordinator
<1>3. UNCHANGED <<run, ses, disk, creds, late>>
  BY DEF QueueSwitch, Tick, ManualSwitch, CoordinatorDies, Start
<1>4. CASE QueueSwitch
  <2>1. co' = co
    BY <1>4 DEF QueueSwitch
  <2>2. CoordinatorInv'
    BY <1>3, <2>1 DEF DecisionInv, CoordinatorInv, Named, Commits, Targets, SeenLive,
       Drained, InDrain, Preparing, Excused, Cleared
  <2>3. QED BY <1>3, <2>2, MoveKeeps DEF DecisionInv
<1>5. ASSUME Calm(co')
      PROVE  DecisionInv'
  BY <1>3, <1>5, MoveKeeps, CalmKeeps DEF DecisionInv
<1>6. CASE Tick
  <2>1. \/ co' = Scanning(Idle, "release")
        \/ pend # None /\ co' = Scanning([Idle EXCEPT !.gen = pend], "blockers")
    BY <1>6 DEF Tick, Start
  <2>2. pend # None => pend \in Generations
    BY DEF TypeInv, TypeOK
  <2>3. QED BY <1>1, <1>2, <1>5, <2>1, <2>2, Calms
<1>7. CASE ManualSwitch
  <2>1. PICK g \in Generations : co' = BeginPrepare([Idle EXCEPT !.gen = g, !.manual = TRUE])
    BY <1>7 DEF ManualSwitch, Start
  <2>2. QED BY <1>2, <1>5, <2>1, Calms
<1>8. CASE CoordinatorDies
  BY <1>1, <1>5, <1>8, Calms DEF CoordinatorDies
<1>9. QED BY <1>4, <1>6, <1>7, <1>8

(* The three rounds of requests.  A session that answers /prepare and need not
   be waited for has no decision but this switch's. *)
LEMMA CallKeeps ==
  ASSUME TypeInv, DecisionInv, NEW r \in Runners, CallPrepare(r) \/ CallExit(r)
  PROVE  DecisionInv'
<1>1. co \in Coordinator /\ co.gen \in Generations \cup {None} /\ Calm(GiveUp(co)) /\ Calm(Unanswered(co))
  BY CoordinatorTyped, Calms
<1>2. /\ creds' = creds /\ ses' = ses /\ r \in co.todo
      /\ co.pc \in {"prepare", "exit"} /\ co.goal = "prepare" /\ ~co.committed
      /\ co.gen # None
  BY DEF CallPrepare, CallExit, DecisionInv, CoordinatorInv, Named
<1>3. ASSUME NEW m \in Message, m.to = r, m.route # "release", MessageStep(m),
             late' = late \/ (late' = late \cup {m} /\ run[r].mode \in Live)
      PROVE  Slots' /\ LateHolds' /\ CommitMeansWritten'
  <2>1. r \in Runners /\ (run[r].mode = "unused" => m \notin late')
    BY <1>3 DEF DecisionInv, LateHolds, Live
  <2>2. QED BY <1>2, <1>3, <2>1, MessageKeeps
<1>4. ASSUME co' \in {GiveUp(co), Unanswered(co)}
      PROVE  CoordinatorInv'
  BY <1>1, <1>4, CalmKeeps
(* An answer: the coordinator goes on to the next session. *)
<1>5. ASSUME NEW m \in Message, m.to = r, m.route # "release", MessageStep(m), late' = late,
             co'.pc = co.pc, co'.goal = co.goal, co'.gen = co.gen, ~co'.committed,
             co'.todo = co.todo \ {r}, co.waiting => co'.waiting,
             co.pc = "prepare" => co'.waiting \/ Cleared(r)'
      PROVE  CoordinatorInv'
  <2>1. Named' /\ Commits' /\ Targets' /\ SeenLive'
    BY <1>2, <1>5 DEF Named, Commits, Targets, SeenLive
  <2>2. ASSUME NEW q \in Runners
        PROVE  Excused(q)' \/ Cleared(q)'
    <3>1. \A t \in {run'[q]} : t.mode = run[q].mode /\ Decides(run[q], t)
      BY <1>5 DEF MessageStep, Decides
    <3>2. Cleared(q) => Cleared(q)'
      BY <1>5, <3>1 DEF Cleared, Decides
    <3>3. InDrain(co)
      BY <1>2 DEF InDrain, Preparing
    <3>4. Excused(q) \/ Cleared(q)
      BY <3>3 DEF DecisionInv, CoordinatorInv, Drained
    <3>5. CASE Preparing(co) /\ co.waiting
      BY <1>5, <3>5 DEF Excused, Preparing
    <3>6. CASE co.pc = "prepare" /\ q \in co.todo
      BY <1>2, <1>5, <3>6 DEF Excused, Preparing
    <3>7. QED BY <3>2, <3>4, <3>5, <3>6 DEF Excused
  <2>3. QED BY <2>1, <2>2 DEF CoordinatorInv, Drained
<1>6. CASE CallPrepare(r)
  <2>1. PICK verified \in BOOLEAN :
          LET m == Request(r, "prepare", co.gen, FALSE)
              s == Handled(run[r], m, verified)
              waits == PrepareWaits(s, co.gen)
              next == [co EXCEPT !.todo = @ \ {r}, !.waiting = @ \/ waits,
                         !.leaving = @ \/ (waits /\ ReplyExiting(s)
                                             /\ ~s.upgrading /\ ~s.stopping)]
          IN Call(m, verified, next, GiveUp(co), Unanswered(co))
    BY <1>6 DEF CallPrepare
  <2> DEFINE m == Request(r, "prepare", co.gen, FALSE)
             s == Handled(run[r], m, verified)
             waits == PrepareWaits(s, co.gen)
             next == [co EXCEPT !.todo = @ \ {r}, !.waiting = @ \/ waits,
                        !.leaving = @ \/ (waits /\ ReplyExiting(s)
                                            /\ ~s.upgrading /\ ~s.stopping)]
  <2>2. m \in Message /\ m.to = r /\ m.route = "prepare" /\ m.gen = co.gen
    BY <1>1 DEF Request, Message
  <2>3. /\ next.pc = co.pc /\ next.goal = co.goal /\ next.gen = co.gen
        /\ next.committed = co.committed /\ next.todo = co.todo \ {r}
        /\ next.waiting = (co.waiting \/ waits)
    BY <1>1 DEF Coordinator
  <2> HIDE DEF next
  <2>4. Call(m, verified, next, GiveUp(co), Unanswered(co))
    BY <2>1 DEF next
  <2>5. s = AfterPrepare(run[r], co.gen, verified)
        /\ Refused(run[r], m, verified) = PrepareRefused(run[r], co.gen)
    BY <2>2 DEF Handled, Refused
  <2> HIDE DEF m, s
  <2>6. /\ MessageStep(m)
        /\ \/ /\ co' = next /\ late' = late /\ Answers(r)
              /\ ~PrepareRefused(run[r], co.gen) /\ run'[r] = s
           \/ /\ co' \in {GiveUp(co), Unanswered(co)}
              /\ late' = late \/ (late' = late \cup {m} /\ run[r].mode \in Live)
    <3>1. Slots
      BY DEF DecisionInv
    <3>2. QED BY <1>2, <2>2, <2>4, <2>5, <3>1, CallSends DEF s
  <2>7. CASE /\ co' \in {GiveUp(co), Unanswered(co)}
             /\ late' = late \/ (late' = late \cup {m} /\ run[r].mode \in Live)
    BY <1>3, <1>4, <2>2, <2>6, <2>7 DEF DecisionInv
  <2>8. CASE /\ co' = next /\ late' = late /\ Answers(r)
             /\ ~PrepareRefused(run[r], co.gen) /\ run'[r] = s
    <3>1. waits \/ (run'[r].released => run'[r].gen = co.gen)
      BY <2>8 DEF PrepareWaits
    <3>2. \A k \in late' : k.to # r
      BY <2>8 DEF Answers
    <3>3. co'.waiting \/ Cleared(r)'
      BY <2>3, <2>8, <3>1, <3>2 DEF Cleared
    <3>4. QED BY <1>2, <1>3, <1>5, <2>2, <2>3, <2>6, <2>8, <3>3 DEF DecisionInv
  <2>9. QED BY <2>6, <2>7, <2>8
<1>7. CASE CallExit(r)
  <2> DEFINE m == Request(r, "exit", co.gen, FALSE)
             next == [co EXCEPT !.todo = @ \ {r}]
  <2>1. PICK verified \in BOOLEAN : Call(m, verified, next, GiveUp(co), Unanswered(co))
    BY <1>7 DEF CallExit
  <2>2. m \in Message /\ m.to = r /\ m.route = "exit" /\ m.gen = co.gen
    BY <1>1 DEF Request, Message
  <2>3. /\ next.pc = co.pc /\ next.goal = co.goal /\ next.gen = co.gen
        /\ next.committed = co.committed /\ next.todo = co.todo \ {r}
        /\ next.waiting = co.waiting
    BY <1>1 DEF Coordinator
  <2> HIDE DEF next, m
  <2>4. co.pc = "exit"
    BY <1>7 DEF CallExit
  <2>5. /\ MessageStep(m)
        /\ \/ co' = next /\ late' = late
           \/ /\ co' \in {GiveUp(co), Unanswered(co)}
              /\ late' = late \/ (late' = late \cup {m} /\ run[r].mode \in Live)
    <3>1. Slots
      BY DEF DecisionInv
    <3>2. QED BY <1>2, <2>1, <2>2, <3>1, CallSends
  <2>6. QED BY <1>2, <1>3, <1>4, <1>5, <2>2, <2>3, <2>4, <2>5 DEF DecisionInv
<1>8. QED BY <1>6, <1>7

(* A release says "committed" only for the account in the file. *)
LEMMA ReleaseKeeps ==
  ASSUME TypeInv, DecisionInv, NEW r \in Runners, CallRelease(r)
  PROVE  DecisionInv'
<1> DEFINE m == Request(r, "release", co.view[r].gen, co.goal = "release" /\ co.committed)
           next == [co EXCEPT !.todo = @ \ {r}]
           Failing(how) == [next EXCEPT !.failed = IF @ = "silent" THEN @ ELSE how]
<1>1. /\ co \in Coordinator /\ co.committed \in BOOLEAN
      /\ co.pc = "release" /\ r \in co.todo /\ co.goal \in {"cancel", "release"}
      /\ co.view[r].gen \in Generations
  BY CoordinatorTyped DEF CallRelease, TypeInv, Releasing
<1>2. creds' = creds /\ ses' = ses
  BY DEF CallRelease
<1>3. /\ m \in Message /\ m.to = r /\ m.route = "release"
      /\ m.gen = co.view[r].gen /\ (m.commit => co.committed)
  BY <1>1 DEF Request, Message
<1>4. Call(m, TRUE, next, Failing("refused"), Failing("silent"))
  BY DEF CallRelease
<1>5. \A c \in {next, Failing("refused"), Failing("silent")} :
        /\ c.pc = "release" /\ c.goal = co.goal /\ c.gen = co.gen
        /\ c.committed = co.committed /\ c.view = co.view /\ c.todo = co.todo \ {r}
  <2>1. /\ next.pc = "release" /\ next.goal = co.goal /\ next.gen = co.gen
        /\ next.committed = co.committed /\ next.view = co.view /\ next.todo = co.todo \ {r}
        /\ next \in Coordinator
    BY <1>1 DEF Coordinator
  <2> HIDE DEF next
  <2>2. \A how \in {"refused", "silent"} :
          LET c == Failing(how)
          IN /\ c.pc = next.pc /\ c.goal = next.goal /\ c.gen = next.gen
             /\ c.committed = next.committed /\ c.view = next.view /\ c.todo = next.todo
    BY <2>1 DEF Coordinator
  <2> HIDE DEF Failing
  <2>3. QED BY <2>1, <2>2
<1>6. m.commit => creds = m.gen
  BY <1>1, <1>3 DEF DecisionInv, CoordinatorInv, Commits, Targets
<1> HIDE DEF m, next, Failing
<1>7. /\ MessageStep(m) /\ co' \in {next, Failing("refused"), Failing("silent")}
      /\ late' = late \/ (late' = late \cup {m} /\ run[r].mode \in Live)
  <2>1. Slots
    BY DEF DecisionInv
  <2>2. m.gen \in Generations
    BY <1>1, <1>3
  <2>3. QED BY <1>2, <1>3, <1>4, <2>1, <2>2, CallSends
<1>8. Slots' /\ LateHolds' /\ CommitMeansWritten'
  <2>1. run[r].mode = "unused" => m \notin late'
    BY <1>3, <1>7 DEF DecisionInv, LateHolds, Live
  <2>2. QED BY <1>1, <1>2, <1>3, <1>6, <1>7, <2>1, MessageKeeps
<1>9. CoordinatorInv'
  <2>1. /\ co'.pc = "release" /\ co'.goal = co.goal /\ co'.gen = co.gen
        /\ co'.committed = co.committed /\ co'.view = co.view /\ co'.todo = co.todo \ {r}
    BY <1>5, <1>7
  <2>2. Named' /\ Commits' /\ Targets' /\ SeenLive'
    BY <1>1, <1>2, <2>1 DEF DecisionInv, CoordinatorInv, Named, Commits, Targets, SeenLive
  <2>3. Drained'
    BY <1>1, <2>1 DEF Drained, InDrain, Preparing
  <2>4. QED BY <2>2, <2>3 DEF CoordinatorInv
<1>10. QED BY <1>8, <1>9 DEF DecisionInv

(* A scan misses no runner: who is live answers, or stops the scan. *)
LEMMA ScanKeeps ==
  ASSUME TypeInv, DecisionInv, NEW r \in Runners, ScanStep(r)
  PROVE  DecisionInv'
<1>1. /\ co \in Coordinator /\ Calm(Unanswered(co)) /\ co.pc = "scan"
      /\ UNCHANGED <<run, ses, disk, creds, late>>
  BY CoordinatorTyped, Calms DEF ScanStep
<1>2. CASE co' = Unanswered(co)
  BY <1>1, <1>2, CalmKeeps, MoveKeeps DEF DecisionInv
<1>3. ASSUME NEW v, co' = [co EXCEPT !.view[r] = v, !.todo = @ \ {r}],
             run[r].mode \in Live => v.kind = "live"
      PROVE  CoordinatorInv'
  <2>1. /\ co'.pc = co.pc /\ co'.goal = co.goal /\ co'.gen = co.gen
        /\ co'.committed = co.committed /\ co'.todo = co.todo \ {r}
        /\ co'.waiting = co.waiting
        /\ co'.view[r] = v /\ \A q \in Runners \ {r} : co'.view[q] = co.view[q]
    BY <1>1, <1>3 DEF Coordinator
  <2>2. Named' /\ Commits' /\ Targets'
    BY <1>1, <2>1 DEF DecisionInv, CoordinatorInv, Named, Commits, Targets
  <2>3. SeenLive'
    BY <1>1, <1>3, <2>1 DEF DecisionInv, CoordinatorInv, SeenLive
  <2>4. Drained'
    BY <1>1, <2>1 DEF DecisionInv, CoordinatorInv, Drained, InDrain, Preparing, Excused, Cleared
  <2>5. QED BY <2>2, <2>3, <2>4 DEF CoordinatorInv
<1>4. \/ co' = Unanswered(co)
      \/ \E v : /\ co' = [co EXCEPT !.view[r] = v, !.todo = @ \ {r}]
                /\ run[r].mode \in Live => v.kind = "live"
  <2> DEFINE Found(kd, s) == [kind |-> kd, gen |-> s.gen, exited |-> s.exited]
             See(v) == co' = [co EXCEPT !.view[r] = v, !.todo = @ \ {r}]
  <2>1. \/ run[r].mode \notin Live /\ (See(Found("stale", disk[r])) \/ See(Unseen))
        \/ See(Found("live", run[r]))
        \/ co' = Unanswered(co)
    BY DEF ScanStep
  <2>2. Found("live", run[r]).kind = "live"
    OBVIOUS
  <2>3. QED BY <2>1, <2>2
<1>5. QED BY <1>1, <1>2, <1>3, <1>4, MoveKeeps DEF DecisionInv

(* From Prepare to the write. *)
LEMMA DrainKeeps ==
  ASSUME TypeInv, DecisionInv,
         \/ HasBlockers \/ Enroll \/ LoopDone \/ Recheck
         \/ \E r \in Runners : CallStatus(r)
  PROVE  DecisionInv'
<1>1. /\ co \in Coordinator /\ Calm(Idle) /\ Calm(GiveUp(co)) /\ Calm(Unanswered(co))
      /\ ~co.committed /\ co.gen # None => Calm(BeginPrepare(co))
  BY CoordinatorTyped, Calms
<1>2. UNCHANGED <<run, ses, disk, creds, late>>
  BY DEF HasBlockers, Enroll, LoopDone, Recheck, CallStatus
<1>3. ASSUME Calm(co')
      PROVE  DecisionInv'
  BY <1>2, <1>3, CalmKeeps, MoveKeeps DEF DecisionInv
<1>4. ASSUME CoordinatorInv'
      PROVE  DecisionInv'
  BY <1>2, <1>4, MoveKeeps DEF DecisionInv
<1>5. co.goal # "release" => co.gen # None /\ ~co.committed
  BY DEF DecisionInv, CoordinatorInv, Named
<1>6. CASE HasBlockers
  <2> DEFINE c == [co EXCEPT !.blockers =
                     {r \in Runners : co.view[r].kind # "none" /\ ~co.view[r].exited}]
  <2>1. co' = BeginPrepare(c) /\ co.goal = "blockers"
    BY <1>6 DEF HasBlockers
  <2>2. c \in Coordinator /\ c.gen = co.gen /\ c.committed = co.committed
    BY <1>1 DEF Coordinator
  <2> HIDE DEF c
  <2>3. QED BY <1>3, <1>5, <2>1, <2>2, Calms
<1>7. CASE Enroll
  <2>1. co.pc = "scan" /\ co.todo = {} /\ co.goal = "prepare"
    BY <1>7 DEF Enroll
  <2>2. CASE co' = GiveUp(co)
    BY <1>1, <1>3, <2>2
  <2>3. CASE co' # GiveUp(co)
    <3> DEFINE live == {r \in Runners : co.view[r].kind = "live"}
    <3>1. PICK todo : /\ co' = [co EXCEPT !.pc = "prepare", !.todo = todo]
                      /\ todo = IF pending.gen = None THEN live ELSE Participants(co)
                      /\ pending.gen # None => live \subseteq pending.ids
      BY <1>7, <2>3 DEF Enroll
    <3>2. live \subseteq todo
      BY <3>1 DEF Participants
    <3>3. /\ co'.pc = "prepare" /\ co'.goal = co.goal /\ co'.gen = co.gen
          /\ co'.committed = co.committed /\ co'.todo = todo
      BY <1>1, <3>1 DEF Coordinator
    <3>4. Named' /\ Commits' /\ Targets' /\ SeenLive'
      BY <1>5, <2>1, <3>3 DEF Named, Commits, Targets, SeenLive
    <3>5. Drained'
      <4>1. ASSUME NEW q \in Runners
            PROVE  Excused(q)' \/ Cleared(q)'
        <5>1. run[q].mode \in Live => q \in live
          BY <2>1 DEF DecisionInv, CoordinatorInv, SeenLive
        <5>2. QED BY <1>2, <3>2, <3>3, <5>1 DEF Excused, Cleared
      <4>2. QED BY <4>1 DEF Drained
    <3>6. QED BY <1>4, <3>4, <3>5 DEF CoordinatorInv
  <2>4. QED BY <2>2, <2>3
<1>8. CASE LoopDone
  <2>1. /\ Preparing(co) /\ co.todo = {} /\ co.goal = "prepare"
        /\ co.gen # None /\ ~co.committed
    BY <1>8 DEF LoopDone, Preparing, DecisionInv, CoordinatorInv, Named
  <2>2. CASE co.waiting
    <3>1. co' \in {Idle, GiveUp(co), BeginPrepare(co)}
      BY <1>8, <2>2 DEF LoopDone, NotReady
    <3>2. QED BY <1>1, <1>3, <2>1, <3>1
  <2>3. CASE ~co.waiting
    <3>1. \A r \in Runners : Cleared(r)
      BY <2>1, <2>3 DEF DecisionInv, CoordinatorInv, Drained, InDrain, Excused
    <3>2. /\ co'.gen = co.gen /\ ~co'.committed
          /\ \/ co'.pc \in {"exit", "status"} /\ co'.goal = "prepare"
             \/ co'.pc = "scan" /\ co'.goal = "recheck" /\ co'.todo = Runners
      <4>1. co' \in { [co EXCEPT !.pc = "exit", !.todo = Participants(co)],
                      [co EXCEPT !.pc = "status", !.todo = Participants(co)],
                      Scanning(co, "recheck") }
        BY <1>8, <2>1, <2>3 DEF LoopDone, Preparing
      <4>2. QED BY <1>1, <2>1, <4>1 DEF Scanning, Coordinator
    <3>3. Named' /\ Commits' /\ Targets' /\ SeenLive'
      BY <2>1, <3>2 DEF Named, Commits, Targets, SeenLive
    <3>4. Drained'
      BY <1>2, <3>1, <3>2 DEF Drained, Cleared
    <3>5. QED BY <1>4, <3>3, <3>4 DEF CoordinatorInv
  <2>4. QED BY <2>2, <2>3
<1>9. CASE Recheck
  <2>1. co.pc = "scan" /\ co.goal = "recheck"
    BY <1>9 DEF Recheck
  <2>2. CASE co' = GiveUp(co)
    BY <1>1, <1>3, <2>2
  <2>3. CASE co' = [co EXCEPT !.pc = "write"]
    <3>1. /\ co'.pc = "write" /\ co'.goal = "recheck" /\ co'.gen = co.gen
          /\ co'.committed = co.committed
      BY <1>1, <2>1, <2>3 DEF Coordinator
    <3>2. \A r \in Runners : Cleared(r)
      BY <2>1 DEF DecisionInv, CoordinatorInv, Drained, InDrain, Preparing, Excused
    <3>3. Named' /\ Commits' /\ Targets' /\ SeenLive'
      BY <1>5, <2>1, <3>1 DEF Named, Commits, Targets, SeenLive
    <3>4. Drained'
      BY <1>2, <3>1, <3>2 DEF Drained, Cleared
    <3>5. QED BY <1>4, <3>3, <3>4 DEF CoordinatorInv
  <2>4. QED BY <1>9, <2>2, <2>3 DEF Recheck
<1>10. ASSUME NEW r \in Runners, CallStatus(r)
       PROVE  DecisionInv'
  <2> DEFINE waits == run[r].gen # co.gen \/ ~run[r].exited
             next == [co EXCEPT !.todo = @ \ {r}, !.waiting = @ \/ waits, !.leaving = @ \/ waits]
  <2>1. co.pc = "status" /\ co' \in {GiveUp(co), Unanswered(co), next}
    BY <1>10 DEF CallStatus
  <2>2. CASE co' = next
    <3>1. /\ co'.pc = "status" /\ co'.goal = co.goal /\ co'.gen = co.gen
          /\ co'.committed = co.committed /\ (co.waiting => co'.waiting)
      BY <1>1, <2>1, <2>2 DEF Coordinator
    <3>2. co.goal = "prepare"
      BY <2>1 DEF DecisionInv, CoordinatorInv, Named
    <3>3. Named' /\ Commits' /\ Targets' /\ SeenLive'
      BY <1>5, <3>1, <3>2 DEF Named, Commits, Targets, SeenLive
    <3>4. Drained'
      BY <1>2, <2>1, <3>1 DEF DecisionInv, CoordinatorInv, Drained, InDrain, Preparing, Excused, Cleared
    <3>5. QED BY <1>4, <3>3, <3>4 DEF CoordinatorInv
  <2>3. QED BY <1>1, <1>3, <2>1, <2>2
<1>11. QED BY <1>6, <1>7, <1>8, <1>9, <1>10

(* The write.  Whoever was told of a commit was told of this very switch. *)
LEMMA WriteKeeps ==
  ASSUME TypeInv, DecisionInv, Write
  PROVE  DecisionInv'
<1>1. /\ co \in Coordinator /\ co.pc = "write" /\ co.goal = "recheck"
      /\ co.gen # None /\ ~co.committed /\ Calm(GiveUp(co))
  BY CoordinatorTyped, Calms DEF Write, DecisionInv, CoordinatorInv, Named
<1>2. UNCHANGED <<run, ses, disk, late>> /\ creds' \in {creds, co.gen}
  BY DEF Write
<1>3. \A r \in Runners : Cleared(r)
  BY <1>1 DEF DecisionInv, CoordinatorInv, Drained, InDrain, Preparing, Excused
<1>4. Slots'
  BY <1>2 DEF DecisionInv, Slots
<1>5. CommitMeansWritten'
  BY <1>2, <1>3 DEF DecisionInv, CommitMeansWritten, Cleared
<1>6. LateHolds'
  <2>1. \A m \in late : m.to \in Runners
    BY DEF TypeInv, TypeOK, Message
  <2>2. \A m \in late : run[m.to].mode \notin Live
    BY <1>3, <2>1 DEF Cleared
  <2>3. QED BY <1>2, <2>2 DEF DecisionInv, LateHolds
<1>7. CoordinatorInv'
  <2>1. CASE co' = GiveUp(co)
    BY <1>1, <2>1, CalmKeeps
  <2>2. CASE creds' = co.gen /\ co' = BeginRelease(co, TRUE)
    <3> DEFINE d == [co EXCEPT !.committed = TRUE, !.failed = "no"]
    <3>1. co' \in {Idle, Scanning(d, "release")}
      BY <2>2 DEF BeginRelease
    <3>2. CASE co' = Idle
      BY <1>1, <3>2, CalmKeeps, Calms
    <3>3. CASE co' = Scanning(d, "release")
      <4>1. /\ co'.pc = "scan" /\ co'.goal = "release" /\ co'.todo = Runners
            /\ co'.gen = co.gen /\ co'.committed
        BY <1>1, <3>3 DEF Scanning, Coordinator
      <4>2. QED
        BY <1>1, <2>2, <4>1 DEF CoordinatorInv, Named, Commits, Targets, SeenLive,
           Drained, InDrain, Preparing
    <3>4. QED BY <3>1, <3>2, <3>3
  <2>3. QED BY <2>1, <2>2 DEF Write
<1>8. QED BY <1>4, <1>5, <1>6, <1>7 DEF DecisionInv

(* The calls of a release, and its end. *)
LEMMA CallsKeep ==
  ASSUME TypeInv, DecisionInv, BeginCalls \/ ReleaseDone
  PROVE  DecisionInv'
<1>1. /\ co \in Coordinator /\ Calm(Idle) /\ Calm(GiveUp(co)) /\ Calm(Unanswered(co))
      /\ ~co.committed /\ co.gen # None => Calm(Scanning(co, "prepare"))
  BY CoordinatorTyped, Calms
<1>2. UNCHANGED <<run, ses, disk, creds, late>>
  BY DEF BeginCalls, ReleaseDone
<1>3. ASSUME Calm(co')
      PROVE  DecisionInv'
  BY <1>2, <1>3, CalmKeeps, MoveKeeps DEF DecisionInv
<1>4. co.goal # "release" => co.gen # None /\ ~co.committed
  BY DEF DecisionInv, CoordinatorInv, Named
<1>5. CASE BeginCalls
  <2>1. co.pc = "scan" /\ co.goal \in {"cancel", "release"}
    BY <1>5 DEF BeginCalls
  <2>2. CASE co' \in {Idle, GiveUp(co)}
    BY <1>1, <1>3, <2>2
  <2>3. CASE co' \notin {Idle, GiveUp(co)}
    <3>1. PICK todo : /\ co' = [co EXCEPT !.pc = "release", !.failed = "no", !.todo = todo]
                      /\ \A r \in todo : /\ co.view[r].gen # None
                                         /\ ReleaseGen(co) \in {None, co.view[r].gen}
      BY <1>5, <2>3 DEF BeginCalls
    <3>2. /\ co'.pc = "release" /\ co'.goal = co.goal /\ co'.gen = co.gen
          /\ co'.committed = co.committed /\ co'.todo = todo /\ co'.view = co.view
      BY <1>1, <3>1 DEF Coordinator
    <3>3. Named' /\ Commits' /\ SeenLive'
      BY <1>2, <1>4, <2>1, <3>2 DEF DecisionInv, CoordinatorInv, Named, Commits, SeenLive
    <3>4. Targets'
      BY <1>4, <2>1, <3>1, <3>2 DEF DecisionInv, CoordinatorInv, Commits, Targets, ReleaseGen
    <3>5. Drained'
      BY <2>1, <3>2 DEF Drained, InDrain, Preparing
    <3>6. QED BY <1>2, <3>3, <3>4, <3>5, MoveKeeps DEF DecisionInv, CoordinatorInv
  <2>4. QED BY <2>2, <2>3
<1>6. CASE ReleaseDone
  <2>1. co.goal \in {"cancel", "release"} /\ co.failed \in {"no", "refused", "silent"}
    BY <1>1, <1>6 DEF ReleaseDone, TypeInv, Releasing, Coordinator
  <2>2. \/ co' \in {Idle, GiveUp(co), Unanswered(co)}
        \/ co.goal = "cancel" /\ co' = Scanning(co, "prepare")
    BY <1>6, <2>1 DEF ReleaseDone
  <2>3. QED BY <1>1, <1>3, <1>4, <2>2
<1>7. QED BY <1>5, <1>6

-----------------------------------------------------------------------------
(* The invariant, and what it gives. *)

LEMMA InitDecision == Init => DecisionInv
<1>1. SUFFICES ASSUME Init PROVE DecisionInv
  OBVIOUS
<1>2. /\ Unused.mode = "unused" /\ ~Unused.released /\ ~Unused.upgrading /\ ~Unused.stopping
      /\ ~Unused.exitAck
  BY DEF Unused
<1>3. Slots
  BY <1>1, <1>2, GenerationsAssumption DEF Init, Slots, Slot, Own, Bound, Live
<1>4. LateHolds /\ CommitMeansWritten
  BY <1>1, <1>2 DEF Init, LateHolds, CommitMeansWritten, Live
<1>5. CoordinatorInv
  <2>1. co.pc = "idle" /\ co.goal = "release" /\ ~co.committed
    BY <1>1 DEF Init, Idle
  <2>2. QED BY <2>1 DEF CoordinatorInv, Named, Commits, Targets, SeenLive, Drained,
            InDrain, Preparing
<1>6. QED BY <1>3, <1>4, <1>5 DEF DecisionInv

LEMMA NextDecision == TypeInv /\ DecisionInv /\ [Next]_vars => DecisionInv'
<1>1. SUFFICES ASSUME TypeInv, DecisionInv, [Next]_vars PROVE DecisionInv'
  OBVIOUS
<1>2. CASE UNCHANGED vars
  BY <1>1, <1>2 DEF vars, DecisionInv, Slots, LateHolds, CommitMeansWritten, CoordinatorInv,
     Named, Commits, Targets, SeenLive, Drained, InDrain, Preparing, Excused, Cleared
<1>3. ASSUME NEW r \in Runners, RunnerStep(r) \/ SessionStep(r)
      PROVE  DecisionInv'
  <2>1. OwnStep(r)
    BY <1>1, <1>3, RunnerOwn, SessionOwn DEF DecisionInv
  <2>2. QED BY <1>1, <2>1, OwnKeeps
<1>4. CASE CoordinatorStep
  BY <1>1, <1>4, ScanKeeps, CallKeeps, ReleaseKeeps, DrainKeeps, WriteKeeps, CallsKeep
  DEF CoordinatorStep
<1>5. CASE QueueSwitch \/ Tick \/ ManualSwitch \/ CoordinatorDies
  BY <1>1, <1>5, TurnKeeps
<1>6. ASSUME NEW m \in late, LateCall(m)
      PROVE  DecisionInv'
  BY <1>1, <1>6, LateKeeps
<1>7. QED BY <1>1, <1>2, <1>3, <1>4, <1>5, <1>6 DEF Next

LEMMA DecisionInvariant == Spec => [](TypeInv /\ DecisionInv)
<1>1. Init => TypeInv /\ DecisionInv
  BY InitType, InitDecision
<1>2. TypeInv /\ DecisionInv /\ [Next]_vars => (TypeInv /\ DecisionInv)'
  BY NextType, NextDecision
<1>3. QED BY <1>1, <1>2, PTL DEF Spec

(* A runner that was told the switch is committed finds the account of that
   switch in the credentials file until it restarts its session: the release
   says so only after the write, and no switch writes again before every live
   runner has handled what was sent to it and been released of the last one. *)
THEOREM CommittedIsWritten == Spec => []CommitMeansWritten
<1>1. TypeInv /\ DecisionInv => CommitMeansWritten
  BY DEF DecisionInv
<1>2. QED BY <1>1, DecisionInvariant, PTL

-----------------------------------------------------------------------------
(* The two action properties. *)

(* Who changes a runner: its own steps, and one request that it handles. *)
LEMMA WhoChanges ==
  ASSUME TypeInv, DecisionInv, [Next]_vars, NEW r \in Runners
  PROVE  \/ OwnStep(r)
         \/ \E m \in Message : MessageStep(m)
         \/ run'[r] = run[r]
<1>1. CASE UNCHANGED vars
  BY <1>1 DEF vars
<1>2. ASSUME NEW q \in Runners, RunnerStep(q) \/ SessionStep(q)
      PROVE  OwnStep(r) \/ run'[r] = run[r]
  <2>1. OwnStep(q)
    BY <1>2, RunnerOwn, SessionOwn DEF DecisionInv
  <2>2. QED BY <2>1 DEF OwnStep, Elsewhere
<1>3. ASSUME NEW q \in Runners, CallPrepare(q) \/ CallExit(q)
      PROVE  \E m \in Message : MessageStep(m)
  <2>1. co \in Coordinator /\ co.gen \in Generations \cup {None} /\ ses' = ses /\ Slots
    BY <1>3, CoordinatorTyped DEF CallPrepare, CallExit, DecisionInv
  <2>2. PICK route \in {"prepare", "exit"}, verified \in BOOLEAN :
          \E a, b, c : Call(Request(q, route, co.gen, FALSE), verified, a, b, c)
    BY <1>3 DEF CallPrepare, CallExit
  <2> DEFINE m == Request(q, route, co.gen, FALSE)
  <2>3. m \in Message /\ m.route # "release"
    BY <2>1 DEF Request, Message
  <2> HIDE DEF m
  <2>4. \E a, b, c : Call(m, verified, a, b, c)
    BY <2>2 DEF m
  <2>5. QED BY <2>1, <2>3, <2>4, CallSends
<1>4. ASSUME NEW q \in Runners, CallRelease(q)
      PROVE  \E m \in Message : MessageStep(m)
  <2> DEFINE m == Request(q, "release", co.view[q].gen, co.goal = "release" /\ co.committed)
  <2>1. co \in Coordinator /\ co.view[q].gen \in Generations /\ ses' = ses /\ Slots
    BY <1>4, CoordinatorTyped DEF CallRelease, TypeInv, Releasing, DecisionInv
  <2>2. m \in Message /\ m.gen \in Generations
    BY <2>1 DEF Request, Message, Coordinator
  <2>3. \E a, b, c : Call(m, TRUE, a, b, c)
    BY <1>4 DEF CallRelease
  <2> HIDE DEF m
  <2>4. QED BY <2>1, <2>2, <2>3, CallSends
<1>5. ASSUME NEW m \in late, LateCall(m)
      PROVE  \E k \in Message : MessageStep(k)
  <2>1. m \in Message /\ ses' = ses /\ Slots /\ (m.route = "release" => m.gen \in Generations)
    BY <1>5 DEF TypeInv, TypeOK, LateCall, DecisionInv, LateHolds
  <2>2. CASE UNCHANGED <<run, disk>>
    BY <2>1, <2>2, NotDelivered
  <2>3. CASE \E verified \in BOOLEAN : Handle(m, verified)
    <3>1. PICK verified \in BOOLEAN : Handle(m, verified)
      BY <2>3
    <3> DEFINE t == Handled(run[m.to], m, verified)
    <3>2. run' = [run EXCEPT ![m.to] = t] /\ (disk' = disk \/ disk' = [disk EXCEPT ![m.to] = File(t)])
      BY <3>1 DEF Handle, Set, Persist
    <3>3. QED BY <2>1, <3>2, Delivered
  <2>4. QED BY <1>5, <2>2, <2>3 DEF LateCall
<1>6. CASE UNCHANGED run
  BY <1>6
<1>7. ASSUME NEW q \in Runners, ScanStep(q) \/ CallStatus(q)
      PROVE  UNCHANGED run
  BY <1>7 DEF ScanStep, CallStatus
<1>8. ASSUME HasBlockers \/ Enroll \/ LoopDone \/ Recheck \/ Write \/ BeginCalls \/ ReleaseDone
      PROVE  UNCHANGED run
  BY <1>8 DEF HasBlockers, Enroll, LoopDone, Recheck, Write, BeginCalls, ReleaseDone
<1>9. ASSUME QueueSwitch \/ Tick \/ ManualSwitch \/ CoordinatorDies
      PROVE  UNCHANGED run
  BY <1>9 DEF QueueSwitch, Tick, ManualSwitch, CoordinatorDies, Start
<1>10. QED
  BY <1>1, <1>2, <1>3, <1>4, <1>5, <1>6, <1>7, <1>8, <1>9 DEF Next, CoordinatorStep

(* A session that left Claude is told once how the switch ended: a runner
   refuses a release that contradicts the first one, and nothing else makes a
   decision. *)
THEOREM DecisionGivenOnce == Spec => ReleaseDecisionStands
<1>1. ASSUME TypeInv, DecisionInv, [Next]_vars, NEW r \in Runners,
             run[r].released, run'[r].released
      PROVE  run'[r].committed = run[r].committed
  <2>1. CASE OwnStep(r)
    BY <1>1, <2>1 DEF OwnStep, Decides
  <2>2. ASSUME NEW m \in Message, MessageStep(m)
        PROVE  run'[r].committed = run[r].committed
    BY <1>1, <2>2 DEF MessageStep, Decides
  <2>3. QED BY <1>1, <2>1, <2>2, WhoChanges
<1>2. TypeInv /\ DecisionInv /\ [Next]_vars
        => [\A r \in Runners : run[r].released /\ run[r].exited /\ run'[r].released
              => run'[r].committed = run[r].committed]_vars
  BY <1>1
<1>3. QED BY <1>2, DecisionInvariant, PTL DEF Spec, ReleaseDecisionStands

(* A session that left Claude for a switch is never dropped without a trace: a
   runner that ends first leaves the record. *)
THEOREM RecordIsKept == Spec => RecordKept
<1>1. ASSUME TypeInv, DecisionInv, [Next]_vars, NEW r \in Runners,
             run[r].mode \in Live, run'[r].mode = "gone", LeftForSwitch(r)
      PROVE  disk'[r].there
  <2>1. CASE OwnStep(r)
    BY <1>1, <2>1 DEF OwnStep, Kept
  <2>2. ASSUME NEW m \in Message, MessageStep(m)
        PROVE  run'[r].mode = run[r].mode
    BY <2>2 DEF MessageStep
  <2>3. "gone" \notin Live
    BY DEF Live
  <2>4. QED BY <1>1, <2>1, <2>2, <2>3, WhoChanges
<1>2. TypeInv /\ DecisionInv /\ [Next]_vars
        => [\A r \in Runners :
              run[r].mode \in Live /\ run'[r].mode = "gone" /\ LeftForSwitch(r)
                => disk'[r].there]_vars
  BY <1>1
<1>3. QED BY <1>2, DecisionInvariant, PTL DEF Spec, RecordKept
=============================================================================
