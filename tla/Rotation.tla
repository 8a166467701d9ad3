------------------------------ MODULE Rotation ------------------------------
(***************************************************************************)
(* Account rotation of managed Claude Code sessions.                       *)
(*                                                                         *)
(* One coordinator at a time (a tick of qswitchd, or a manual `qswitch     *)
(* switch`) holds locks/claude.lock and drains every managed session with  *)
(* Prepare, writes the credentials of another account, and lets the        *)
(* sessions restart with Release.  Runners and the plugin inside each      *)
(* Claude process act at any moment in between.  The durable facts are     *)
(* pending.json, the queued switch in SQLite, and each runner's            *)
(* status.json; everything else is lost with its process.                  *)
(*                                                                         *)
(* claude.lock has no variable of its own: only the coordinator keeps it   *)
(* across several steps, so it is held exactly while co.pc # "idle", and a *)
(* runner that needs it takes its step while co.pc = "idle".               *)
(***************************************************************************)
EXTENDS Naturals, FiniteSets, Runner

CONSTANTS
  Runners,    \* runner identities; each is used by one runner at most
  Events,     \* which of the events below the environment may cause
  MaxFaults   \* how many of the counted events may happen

AllEvents ==
  { "work", "exit", "crash", "sigterm", "sigkill", "forget", "quiet",
    "overdue", "upgrade", "exec_fails", "exec_dies", "gate", "disk", "lost",
    "cancel", "replace", "manual", "expiring", "write_fails", "daemon_crash",
    "resume", "adopt" }

ASSUME EventsAssumption == Events \subseteq AllEvents /\ MaxFaults \in Nat

VARIABLES
  run,      \* run[r]: the runner's own state (module Runner)
  ses,      \* ses[r]: what the plugin in its Claude process knows
  disk,     \* disk[r]: status.json of the runner, as a later reader sees it
  acct,     \* acct[r]: the account the current child read when it started
  creds,    \* the account in the shared credentials file, named after the
            \* generation of the switch that wrote it (None: before any)
  pending,  \* pending.json: the generation being drained and its runners
  pend,     \* the queued switch (SQLite), as the generation it stands for
  used,     \* generations that were queued or drained before
  co,       \* the coordinator's local variables while it holds claude.lock
  late,     \* requests the coordinator gave up on, still to be handled
  faults    \* counted events so far

vars == <<run, ses, disk, acct, creds, pending, pend, used, co, late, faults>>

-----------------------------------------------------------------------------
(* Types and start values *)

(* Mutated form: the record carries the mode where the generation belongs. *)
File_mode(s) == [there |-> TRUE, gen |-> s.mode, exited |-> s.exited]

StatusFile == [there : BOOLEAN, exited : BOOLEAN,
               gen : Generations \cup {None, SelfUpgrade}]

NoFile == [there |-> FALSE, gen |-> None, exited |-> FALSE]
File(s) == [there |-> TRUE, gen |-> s.gen, exited |-> s.exited]
Ended == [there |-> TRUE, gen |-> None, exited |-> TRUE]

Session ==
  [ busy : BOOLEAN, needs : BOOLEAN, resumable : BOOLEAN,
    phase : {"run", "prepare"}, gen : Generations \cup {None, SelfUpgrade},
    unknown : BOOLEAN, step : {"idle", "asked", "acked", "changed", "exiting"} ]

NewSession(needs, prompted) ==
  [ busy |-> prompted, needs |-> needs, resumable |-> needs /\ ~prompted,
    phase |-> "run", gen |-> None, unknown |-> FALSE, step |-> "idle" ]
NoSession == NewSession(FALSE, FALSE)

NoTxn == [gen |-> None, ids |-> {}]

Unseen == [kind |-> "none", gen |-> None, exited |-> FALSE]
View == [kind : {"none", "live", "stale"},
         gen : Generations \cup {None, SelfUpgrade}, exited : BOOLEAN]

Idle ==
  [ pc |-> "idle", goal |-> "release", gen |-> None, manual |-> FALSE,
    todo |-> {}, view |-> [r \in Runners |-> Unseen], blockers |-> {},
    waiting |-> FALSE, leaving |-> FALSE, failed |-> "no",
    committed |-> FALSE ]

Coordinator ==
  [ pc : {"idle", "scan", "prepare", "exit", "status", "write", "release"},
    goal : {"blockers", "cancel", "prepare", "recheck", "release"},
    gen : Generations \cup {None}, manual : BOOLEAN,
    todo : SUBSET Runners, view : [Runners -> View],
    blockers : SUBSET Runners, waiting : BOOLEAN, leaving : BOOLEAN,
    failed : {"no", "refused", "silent"}, committed : BOOLEAN ]

Message == [to : Runners, route : {"prepare", "exit", "release"},
            gen : Generations \cup {None}, commit : BOOLEAN]

(* Every variable has its type. *)
TypeOK ==
  /\ run \in [Runners -> RunnerState]
  /\ ses \in [Runners -> Session]
  /\ disk \in [Runners -> StatusFile]
  /\ acct \in [Runners -> Generations \cup {None}]
  /\ creds \in Generations \cup {None}
  /\ pending \in [gen : Generations \cup {None}, ids : SUBSET Runners]
  /\ pend \in Generations \cup {None}
  /\ used \subseteq Generations
  /\ co \in Coordinator
  /\ late \subseteq Message
  /\ faults \in Nat

Init ==
  /\ run = [r \in Runners |-> Unused]
  /\ ses = [r \in Runners |-> NoSession]
  /\ disk = [r \in Runners |-> NoFile]
  /\ acct = [r \in Runners |-> None]
  /\ creds = None
  /\ pending = NoTxn
  /\ pend = None
  /\ used = {}
  /\ co = Idle
  /\ late = {}
  /\ faults = 0

-----------------------------------------------------------------------------
(* Small helpers *)

Spend(event) ==
  event \in Events /\ faults < MaxFaults /\ faults' = faults + 1

Free == UNCHANGED faults

(* What gate() answers: whether the runner's terminal is verified. *)
Gate(verified) == IF verified THEN Free ELSE Spend("gate")

LockFree == co.pc = "idle"

(* The runner's control server answers.  A new binary that waits for
   claude.lock leaves requests in the listener's backlog. *)
Serving(r) == run[r].mode \in {"loop", "exec", "handoff"}

(* Requests to a runner queue up behind its mutex, so a request it answers
   finds every earlier one handled, also those the coordinator gave up on. *)
Answers(r) == Serving(r) /\ \A m \in late : m.to # r

Alive(r) == run[r].child = "alive"

Set(r, new) == run' = [run EXCEPT ![r] = new]

(* The runner's status.json follows its status; when the two are equal
   already, persistChangedLocked writes nothing. *)
Persist(r, new) == disk' = [disk EXCEPT ![r] = File(new)]

Told(r, new) == ses' = [ses EXCEPT ![r] = new]

Queue == <<pend, used>>
Daemon == <<Queue, pending, co>>
Others == <<acct, creds, Daemon, late>>

-----------------------------------------------------------------------------
(* A runner and the Claude process it starts *)

(* cmd.Start and the two records written after it.  The child reads the
   credentials file as it is now. *)
NewChild(r, s, prompted) ==
  /\ Set(r, Started(s))
  /\ Persist(r, Started(s))
  /\ Told(r, NewSession(s.needs, prompted))
  /\ acct' = [acct EXCEPT ![r] = creds]
  /\ UNCHANGED <<creds, Daemon, late>>

(* `qswitch run claude` under claude.lock, refused while a switch drains. *)
StartRunner(r) ==
  /\ run[r].mode = "unused" /\ LockFree /\ pending.gen = None
  /\ \E needs \in IF "adopt" \in Events THEN BOOLEAN ELSE {FALSE} :
       NewChild(r, [Unused EXCEPT !.needs = needs], FALSE)
  /\ Free

(* A released session is started again, unless the next switch already
   drains; only a committed release carries the continuation. *)
Restart(r) ==
  /\ run[r].mode = "loop" /\ MayRestart(run[r]) /\ ~run[r].stopping
  /\ LockFree /\ pending.gen = None
  /\ NewChild(r, run[r], Continues(run[r]))
  /\ Free

(* The runner ends; `file` is what it leaves behind. *)
End(r, file) ==
  /\ Set(r, Gone)
  /\ disk' = [disk EXCEPT ![r] = file]
  /\ Told(r, NoSession)
  /\ UNCHANGED Others

(* The terminal is not the runner's any more, or Claude cannot be started. *)
RestartFails(r) ==
  /\ \/ /\ run[r].mode = "loop" /\ MayRestart(run[r]) /\ ~run[r].stopping
        /\ LockFree /\ pending.gen = None
     \/ run[r].mode = "handoff"
  /\ Spend("gate")
  /\ End(r, Ended)

(* Wait returned.  An upgrade goes on to exec, a managed exit waits for its
   release, and any other exit ends the runner. *)
ChildDone(r) ==
  LET s == [run[r] EXCEPT !.exited = TRUE, !.ready = FALSE]
      kept == s.child = "failed" /\ ~s.forced
  IN /\ s.mode = "loop" /\ s.child \in {"clean", "failed"}
     /\ ~run[r].exited /\ ~s.stopping
     /\ \/ /\ UpgradeExit(s)
           /\ Set(r, [s EXCEPT !.mode = "exec"])
           /\ Free /\ UNCHANGED <<ses, disk, Others>>
        \/ /\ ~UpgradeExit(s) /\ ManagedExit(s)
           /\ \/ Free /\ Set(r, s) /\ Persist(r, s) /\ UNCHANGED <<ses, Others>>
              \/ Spend("disk") /\ End(r, disk[r])
        \/ /\ ~UpgradeExit(s) /\ ~ManagedExit(s)
           /\ \/ Free /\ End(r, IF kept THEN Ended ELSE NoFile)
              \/ kept /\ Spend("disk") /\ End(r, disk[r])

(* The watchdog: an acknowledged exit that takes too long is forced. *)
Overdue(r) ==
  /\ run[r].mode = "loop" /\ ~run[r].stopping
  /\ run[r].exitAck /\ ~run[r].exited /\ ~run[r].forced
  /\ Spend("overdue")
  /\ Set(r, [run[r] EXCEPT !.forced = TRUE])
  /\ UNCHANGED <<ses, disk, Others>>

Killed(r) ==
  /\ run[r].forced /\ Alive(r) /\ run[r].mode = "loop"
  /\ Set(r, [run[r] EXCEPT !.child = "failed"])
  /\ Free /\ UNCHANGED <<ses, disk, Others>>

(* The watchdog: an upgrade exit nobody acknowledged is dropped. *)
UpgradeGrace(r) ==
  /\ run[r].mode = "loop" /\ run[r].upgrading /\ ~run[r].exitAck
  /\ ~run[r].exited /\ ~run[r].stopping
  /\ Set(r, [run[r] EXCEPT !.upgrading = FALSE, !.exitReq = FALSE, !.gen = None])
  /\ Free /\ UNCHANGED <<ses, disk, Others>>

(* No heartbeat for five seconds. *)
Quiet(r) ==
  /\ run[r].mode = "loop" /\ run[r].ready /\ ~run[r].exited
  /\ Spend("quiet")
  /\ Set(r, [run[r] EXCEPT !.ready = FALSE])
  /\ UNCHANGED <<ses, disk, Others>>

-----------------------------------------------------------------------------
(* A runner that replaces its own binary *)

ExecOk(r) ==
  /\ run[r].mode = "exec"
  /\ Set(r, Inherited(run[r])) /\ Told(r, NoSession)
  /\ Free /\ UNCHANGED <<disk, Others>>

ExecFails(r) ==
  /\ run[r].mode = "exec"
  /\ Spend("exec_fails")
  /\ Set(r, [run[r] EXCEPT !.mode = "handoff", !.upgrading = FALSE, !.gen = None,
                           !.exitReq = FALSE, !.exitAck = FALSE])
  /\ UNCHANGED <<ses, disk, Others>>

(* The new binary fails before it starts Claude: while it waits for the lock
   it leaves the old record, later it removes its directory. *)
ExecDies(r) ==
  /\ run[r].mode = "inherit"
  /\ Spend("exec_dies")
  /\ \E file \in {disk[r], NoFile} : End(r, file)

(* The session goes on without a continuation.  The new binary holds
   claude.lock here; after a failed exec nobody does. *)
StartHandoff(r) ==
  /\ \/ run[r].mode = "inherit" /\ LockFree
     \/ run[r].mode = "handoff"
  /\ NewChild(r, run[r], FALSE)
  /\ Free

-----------------------------------------------------------------------------
(* Signals, and what a user may do *)

(* SIGTERM or SIGHUP: the runner ends its child first. *)
Terminated(r) ==
  /\ run[r].mode = "loop" /\ ~run[r].stopping
  /\ Spend("sigterm")
  /\ LET s == [run[r] EXCEPT !.stopping = TRUE, !.ready = FALSE]
     IN Set(r, s) /\ Persist(r, s)
  /\ UNCHANGED <<ses, Others>>

StopChild(r) ==
  /\ run[r].stopping /\ Alive(r)
  /\ Set(r, [run[r] EXCEPT !.child = "failed"])
  /\ Free /\ UNCHANGED <<ses, disk, Others>>

(* Mutated form: the directory goes, although the session had left Claude. *)
StopDone_forgets(r) ==
  /\ run[r].stopping /\ ~Alive(r)
  /\ End(r, NoFile)
  /\ Free

StopDone(r) ==
  /\ run[r].stopping /\ ~Alive(r)
  /\ End(r, IF run[r].exitAck THEN Ended ELSE NoFile)
  /\ Free

(* SIGKILL or the OOM killer: the lease is lost, the child may go on. *)
RunnerKilled(r) ==
  /\ run[r].mode \in Live
  /\ Spend("sigkill")
  /\ Set(r, [Gone EXCEPT !.child = run[r].child])
  /\ Told(r, NoSession)
  /\ UNCHANGED <<disk, Others>>

OrphanExit(r) ==
  /\ run[r].mode = "gone" /\ Alive(r)
  /\ Set(r, Gone)
  /\ Free /\ UNCHANGED <<ses, disk, Others>>

(* Mutated form: a record is forgotten without a look at its process. *)
Forget_unchecked(r) ==
  /\ run[r].mode = "gone" /\ disk[r].there
  /\ Spend("forget")
  /\ disk' = [disk EXCEPT ![r] = NoFile]
  /\ UNCHANGED <<run, ses, Others>>

(* `qswitch sessions --forget`, refused while the recorded child runs. *)
Forget(r) ==
  /\ run[r].mode = "gone" /\ disk[r].there
  /\ disk[r].exited \/ ~Alive(r)
  /\ Spend("forget")
  /\ disk' = [disk EXCEPT ![r] = NoFile]
  /\ UNCHANGED <<run, ses, Others>>

UserExit(r) ==
  /\ Alive(r) /\ run[r].mode = "loop"
  /\ Spend("exit")
  /\ Set(r, [run[r] EXCEPT !.child = "clean"])
  /\ Told(r, [ses[r] EXCEPT !.step = "idle"])
  /\ UNCHANGED <<disk, Others>>

ChildCrash(r) ==
  /\ Alive(r) /\ run[r].mode = "loop"
  /\ Spend("crash")
  /\ Set(r, [run[r] EXCEPT !.child = "failed"])
  /\ UNCHANGED <<ses, disk, Others>>
-----------------------------------------------------------------------------
(* The plugin inside a Claude process.  One poll is a chain of requests:
   /state, and when that answers "exit", /exiting and the final check.  The
   session may become busy between any two of them. *)

Polls(r, step) == Alive(r) /\ Serving(r) /\ ses[r].step = step

Settled(s) == ~s.busy /\ ~s.unknown   \* what snapshot() calls ready

(* A turn starts.  A session that saw its acknowledgement notices. *)
Work(r) ==
  /\ Alive(r) /\ run[r].mode = "loop" /\ ~ses[r].busy
  /\ Spend("work")
  /\ Told(r, [ses[r] EXCEPT !.busy = TRUE,
                !.step = IF @ = "acked" THEN "changed" ELSE @])
  /\ UNCHANGED <<run, disk, Others>>

(* It ends with an answer, or with the usage limit. *)
Finish(r) ==
  /\ Alive(r) /\ ses[r].busy
  /\ \E limited \in BOOLEAN :
       Told(r, [ses[r] EXCEPT !.busy = FALSE, !.needs = limited,
                  !.resumable = @ /\ ~limited])
  /\ Free /\ UNCHANGED <<run, disk, Others>>

(* What poll() does with the answer to its heartbeat. *)
Follow(p, action, g, ready) ==
  CASE action = "run" -> [p EXCEPT !.phase = "run", !.gen = None]
    [] action = "resume" ->
         IF p.phase = "run" /\ ready /\ p.needs /\ p.resumable
         THEN [p EXCEPT !.resumable = FALSE, !.busy = TRUE] ELSE p
    [] p.gen \notin {None, g} -> [p EXCEPT !.unknown = TRUE]
    [] OTHER -> [p EXCEPT !.phase = "prepare", !.gen = g,
                          !.step = IF action = "exit" THEN "asked" ELSE @]

Heartbeat(r) ==
  /\ Polls(r, "idle") /\ ~ChildRefused(run[r])
  /\ LET ready == Settled(ses[r])
         heard == Heard(run[r], ready, ses[r].needs)
         Answered(replaced) ==
           LET new == AfterState(heard, replaced)
           IN /\ Set(r, new) /\ Persist(r, new)
              /\ Told(r, Follow(ses[r], StateAction(heard, replaced), new.gen, ready))
     IN \/ Answered(FALSE) /\ Free
        \/ UpgradeDue(heard) /\ Spend("upgrade") /\ Answered(TRUE)
        \/ /\ Spend("disk") /\ heard # run[r]
           /\ Set(r, Failed(AfterState(heard, FALSE))) /\ UNCHANGED <<ses, disk>>
  /\ UNCHANGED Others

(* The plugin was told to exit: it looks again and acknowledges. *)
Acknowledge(r) ==
  LET s == run[r]
      g == ses[r].gen
      Step(to) == Told(r, [ses[r] EXCEPT !.step = to])
      repeat == s.exitAck /\ ~s.released /\ g # None /\ s.gen = g
  IN /\ Polls(r, "asked")
     /\ \/ /\ ~Settled(ses[r])
           /\ Step("idle") /\ Free /\ UNCHANGED <<run, disk>>
        \/ /\ Settled(ses[r]) /\ ~ChildRefused(s) /\ repeat
           /\ Step("acked") /\ Free /\ UNCHANGED <<run, disk>>
        \/ /\ Settled(ses[r]) /\ ExitingRefused(s, g)
           /\ ChildRefused(s) \/ ~repeat
           /\ Step("idle") /\ Free /\ UNCHANGED <<run, disk>>
        \/ /\ Settled(ses[r]) /\ ~ExitingRefused(s, g) /\ Spend("gate")
           /\ Set(r, [s EXCEPT !.ready = FALSE])
           /\ Step("idle") /\ UNCHANGED disk
        \/ /\ Settled(ses[r]) /\ ~ExitingRefused(s, g)
           /\ LET new == AfterExiting(s, ses[r].needs)
              IN \/ Set(r, new) /\ Persist(r, new) /\ Step("acked") /\ Free
                 \/ Set(r, new) /\ Persist(r, new) /\ Step("idle") /\ Spend("lost")
                 \/ /\ Set(r, [Failed(new) EXCEPT !.exitAck = FALSE])
                    /\ Step("idle") /\ Spend("disk") /\ UNCHANGED disk
     /\ UNCHANGED Others

(* "exit acknowledgement cancelled": a heartbeat that is not ready. *)
Revoke(r) ==
  LET new == AfterState(Heard(run[r], FALSE, ses[r].needs), FALSE)
  IN /\ IF ChildRefused(run[r]) THEN UNCHANGED <<run, disk>>
        ELSE Set(r, new) /\ Persist(r, new)
     /\ Told(r, [ses[r] EXCEPT !.step = "idle"])

(* After the answer to /exiting, before /exit is submitted. *)
FinalCheck(r) ==
  /\ \E step \in {"acked", "changed"} : Polls(r, step)
  /\ IF Settled(ses[r]) /\ ses[r].step = "acked"
     THEN /\ Told(r, [ses[r] EXCEPT !.step = "exiting"])
          /\ UNCHANGED <<run, disk>>
     ELSE Revoke(r)
  /\ Free /\ UNCHANGED Others

(* /exit comes out of Claude's input queue and its hook looks once more. *)
RunExit(r) ==
  /\ Polls(r, "exiting")
  /\ IF Settled(ses[r])
     THEN Set(r, [run[r] EXCEPT !.child = "clean"]) /\ UNCHANGED <<ses, disk>>
     ELSE Revoke(r)
  /\ Free /\ UNCHANGED Others
-----------------------------------------------------------------------------
(* The coordinator's control requests *)

Refused(s, m, verified) ==
  CASE m.route = "prepare" -> PrepareRefused(s, m.gen)
    [] m.route = "exit" -> ExitRefused(s, m.gen, verified)
    [] m.route = "release" -> ReleaseRefused(s, m.gen, m.commit)

Handled(s, m, verified) ==
  CASE m.route = "prepare" -> AfterPrepare(s, m.gen, verified)
    [] m.route = "exit" -> AfterExit(s, m.gen, verified)
    [] m.route = "release" -> AfterRelease(s, m.gen, m.commit)

(* ServeHTTP: refuse, or change the status and write it. *)
Handle(m, verified) ==
  LET s == run[m.to]
      new == Handled(s, m, verified)
  IN /\ Serving(m.to)
     /\ Set(m.to, new)
     /\ IF \/ Refused(s, m, verified)
           \/ m.route = "prepare" /\ PrepareUnwritten(s, m.gen, verified)
        THEN UNCHANGED disk ELSE Persist(m.to, new)

(* One request and how it ends for the coordinator: an answer, an error
   answer (refused, or the runner could not write its status), or nothing
   within three seconds.  A request nobody answered may still be handled. *)
Call(m, verified, answered, refused, silence) ==
  \/ /\ Answers(m.to) /\ Handle(m, verified)
     /\ co' = IF Refused(run[m.to], m, verified) THEN refused ELSE answered
     /\ Gate(verified) /\ UNCHANGED late
  \/ /\ Answers(m.to) /\ ~Refused(run[m.to], m, TRUE)
     /\ File(Handled(run[m.to], m, TRUE)) # disk[m.to]
     /\ Spend("disk")
     /\ Set(m.to, Failed(Handled(run[m.to], m, TRUE)))
     /\ co' = refused /\ UNCHANGED <<disk, late>>
  \/ /\ Serving(m.to) /\ Spend("lost")
     /\ late' = late \cup {m}
     /\ co' = silence /\ UNCHANGED <<run, disk>>
  \/ /\ ~Serving(m.to) /\ Free
     /\ late' = IF run[m.to].mode = "inherit" THEN late \cup {m} ELSE late
     /\ co' = silence /\ UNCHANGED <<run, disk>>

LateCall(m) ==
  /\ m \in late
  /\ late' = late \ {m}
  /\ \/ \E verified \in BOOLEAN : Handle(m, verified) /\ Gate(verified)
     \/ ~Serving(m.to) /\ UNCHANGED <<run, disk>> /\ Free
  /\ UNCHANGED <<ses, acct, creds, Daemon>>

-----------------------------------------------------------------------------
(* Where the coordinator goes next: each operator is the record after a
   call or a return in coordinator.go and app.go. *)

Scanning(c, goal) ==
  [c EXCEPT !.pc = "scan", !.goal = goal, !.todo = Runners,
            !.view = [r \in Runners |-> Unseen]]

(* Prepare; a pending.json of another generation is cancelled first. *)
BeginPrepare(c) ==
  Scanning([c EXCEPT !.waiting = FALSE, !.leaving = FALSE],
           IF pending.gen \in {None, c.gen} THEN "prepare" ELSE "cancel")

(* The deferred Release of TryApply and Switch. *)
BeginRelease(c, commit) ==
  IF c.gen # None /\ pending.gen \notin {None, c.gen} THEN Idle
  ELSE Scanning([c EXCEPT !.committed = commit, !.failed = "no"], "release")

GiveUp(c) == BeginRelease(c, FALSE)

(* ErrRunnerUnavailable: the daemon retries on its next tick, with
   everything as it is; not so in a manual switch, in the last look at the
   sessions (switchLocked), or in Release itself. *)
Unanswered(c) ==
  IF c.goal = "release" THEN Idle
  ELSE IF c.manual \/ c.goal = "recheck" THEN GiveUp(c)
  ELSE Idle

Participants(c) == {r \in pending.ids : c.view[r].kind = "live"}

(* remainingIDs fails: a runner of this switch vanished with its record open. *)
LostParticipant(c) ==
  \E r \in pending.ids :
    c.view[r].kind = "stale" /\ (c.view[r].gen # None \/ ~c.view[r].exited)

-----------------------------------------------------------------------------
(* The switch, step by step *)

Start(c) ==
  LockFree /\ co' = c /\ UNCHANGED <<run, ses, disk, acct, creds, pending, late>>

(* considerSwitch queues a switch, or replaces the one that is queued; it does
   not hold the tool lock when it does. *)
QueueSwitch ==
  /\ \/ pend = None /\ Free
     \/ pend # None /\ Spend("replace")
  /\ \E g \in Generations \ used : pend' = g /\ used' = used \cup {g}
  /\ UNCHANGED <<run, ses, disk, acct, creds, pending, co, late>>

(* TryApply: nothing is queued; the queued switch is cancelled, or is one for
   expiring quota and a session is busy; or the sessions are drained. *)
Tick ==
  \/ /\ pend = None
     /\ Start(Scanning(Idle, "release"))
     /\ Free /\ UNCHANGED Queue
  \/ /\ pend # None /\ Spend("cancel")
     /\ Start(Scanning(Idle, "release"))
     /\ pend' = None /\ UNCHANGED used
  \/ /\ pend # None /\ Spend("expiring")
     /\ Start(Scanning(Idle, "release"))
     /\ UNCHANGED Queue
  \/ /\ pend # None
     /\ Start(Scanning([Idle EXCEPT !.gen = pend], "blockers"))
     /\ Free /\ UNCHANGED Queue

(* `qswitch switch claude`, which waits for the sessions. *)
ManualSwitch ==
  /\ Spend("manual")
  /\ \E g \in Generations \ used :
       /\ used' = used \cup {g} /\ UNCHANGED pend
       /\ Start(BeginPrepare([Idle EXCEPT !.gen = g, !.manual = TRUE]))

(* Mutated form: a directory without a lease holder is skipped. *)
ScanStep_live(r) ==
  /\ co.pc = "scan" /\ r \in co.todo /\ Free
  /\ LET See(v) == co' = [co EXCEPT !.view[r] = v, !.todo = @ \ {r}]
     IN \/ run[r].mode \notin Live /\ See(Unseen)
        \/ /\ Answers(r)
           /\ See([kind |-> "live", gen |-> run[r].gen, exited |-> run[r].exited])
        \/ run[r].mode = "inherit" /\ co' = Unanswered(co)
  /\ UNCHANGED <<run, ses, disk, acct, creds, Queue, pending, late>>

(* scan: the lease tells a live runner, which must answer, from a record. *)
ScanStep(r) ==
  /\ co.pc = "scan" /\ r \in co.todo
  /\ LET See(v) == co' = [co EXCEPT !.view[r] = v, !.todo = @ \ {r}]
         Found(kd, s) == See([kind |-> kd, gen |-> s.gen, exited |-> s.exited])
     IN \/ /\ run[r].mode \notin Live /\ Free
           /\ IF disk[r].there THEN Found("stale", disk[r]) ELSE See(Unseen)
        \/ /\ Answers(r) /\ Free /\ Found("live", run[r])
        \/ /\ run[r].mode = "inherit" /\ Free /\ co' = Unanswered(co)
        \/ /\ Serving(r) /\ Spend("lost") /\ co' = Unanswered(co)
  /\ UNCHANGED <<run, ses, disk, acct, creds, Queue, pending, late>>

(* AutoBlockers: the children a switch has to see end. *)
HasBlockers ==
  /\ co.pc = "scan" /\ co.todo = {} /\ co.goal = "blockers"
  /\ co' = BeginPrepare([co EXCEPT !.blockers =
             {r \in Runners : co.view[r].kind # "none" /\ ~co.view[r].exited}])
  /\ Free /\ UNCHANGED <<run, ses, disk, acct, creds, Queue, pending, late>>

(* Prepare checks what it saw and writes the participants down. *)
Enroll ==
  LET live == {r \in Runners : co.view[r].kind = "live"}
      fails ==
        \/ \E r \in Runners : co.view[r].kind = "stale" /\ co.view[r].gen # None
        \/ \E r \in co.blockers : r \notin live \/ co.view[r].exited
        \/ LostParticipant(co)
        \/ pending.gen # None /\ ~(live \subseteq pending.ids)
  IN /\ co.pc = "scan" /\ co.todo = {} /\ co.goal = "prepare"
     /\ \/ fails /\ co' = GiveUp(co) /\ UNCHANGED pending
        \/ /\ ~fails
           /\ pending' = IF pending.gen = None THEN [gen |-> co.gen, ids |-> live]
                         ELSE pending
           /\ co' = [co EXCEPT !.pc = "prepare",
                        !.todo = IF pending.gen = None THEN live ELSE Participants(co)]
     /\ Free /\ UNCHANGED <<run, ses, disk, acct, creds, Queue, late>>

Request(r, route, gen, commit) ==
  [to |-> r, route |-> route, gen |-> gen, commit |-> commit]

CallPrepare(r) ==
  /\ co.pc = "prepare" /\ r \in co.todo
  /\ \E verified \in BOOLEAN :
       LET m == Request(r, "prepare", co.gen, FALSE)
           s == Handled(run[r], m, verified)
           waits == PrepareWaits(s, co.gen)
           next == [co EXCEPT !.todo = @ \ {r}, !.waiting = @ \/ waits,
                      !.leaving = @ \/ (waits /\ ReplyExiting(s)
                                          /\ ~s.upgrading /\ ~s.stopping)]
       IN Call(m, verified, next, GiveUp(co), Unanswered(co))
  /\ UNCHANGED <<ses, acct, creds, Queue, pending>>

(* Some session is not there yet: the daemon comes back on its next tick, an
   expiring-quota switch lets the sessions go again, a manual one asks again
   until its time is up. *)
NotReady ==
  \/ ~co.manual /\ co' = Idle /\ Free
  \/ ~co.manual /\ ~co.leaving /\ co' = GiveUp(co) /\ Spend("expiring")
  \/ co.manual /\ co' = BeginPrepare(co) /\ Free
  \/ co.manual /\ co' = GiveUp(co) /\ Free

(* Every /prepare was answered; then every /exit; then every /status. *)
LoopDone ==
  /\ co.pc \in {"prepare", "exit", "status"} /\ co.todo = {}
  /\ IF co.waiting THEN NotReady
     ELSE /\ co' = CASE co.pc = "prepare" -> [co EXCEPT !.pc = "exit", !.todo = Participants(co)]
                     [] co.pc = "exit" -> [co EXCEPT !.pc = "status", !.todo = Participants(co)]
                     [] co.pc = "status" -> Scanning(co, "recheck")
          /\ Free
  /\ UNCHANGED <<run, ses, disk, acct, creds, Queue, pending, late>>

CallExit(r) ==
  /\ co.pc = "exit" /\ r \in co.todo
  /\ \E verified \in BOOLEAN :
       Call(Request(r, "exit", co.gen, FALSE), verified,
            [co EXCEPT !.todo = @ \ {r}], GiveUp(co), Unanswered(co))
  /\ UNCHANGED <<ses, acct, creds, Queue, pending>>

(* Only a child whose Wait returned counts as gone. *)
CallStatus(r) ==
  LET waits == run[r].gen # co.gen \/ ~run[r].exited
  IN /\ co.pc = "status" /\ r \in co.todo
     /\ \/ /\ Answers(r) /\ Free
           /\ co' = IF run[r].recovery /\ ~waits THEN GiveUp(co)
                    ELSE [co EXCEPT !.todo = @ \ {r}, !.waiting = @ \/ waits,
                                    !.leaving = @ \/ waits]
        \/ ~Serving(r) /\ Free /\ co' = Unanswered(co)
        \/ Serving(r) /\ Spend("lost") /\ co' = Unanswered(co)
     /\ UNCHANGED <<run, ses, disk, acct, creds, Queue, pending, late>>

(* switchLocked looks at the sessions again before it writes. *)
Recheck ==
  /\ co.pc = "scan" /\ co.todo = {} /\ co.goal = "recheck"
  /\ co' = IF \E r \in Runners : co.view[r].kind # "none" /\ ~co.view[r].exited
           THEN GiveUp(co) ELSE [co EXCEPT !.pc = "write"]
  /\ Free /\ UNCHANGED <<run, ses, disk, acct, creds, Queue, pending, late>>

(* Mutated form: the release is committed although the switch failed. *)
Write_commits ==
  /\ co.pc = "write"
  /\ \/ creds' = co.gen /\ pend' = None /\ Free
     \/ Spend("write_fails") /\ creds' \in {creds, co.gen} /\ UNCHANGED pend
  /\ co' = BeginRelease(co, TRUE)
  /\ UNCHANGED <<run, ses, disk, acct, used, pending, late>>

(* switchLocked writes the credentials, then the pointer, and clears the
   queue.  It may fail before the first write or between the two. *)
Write ==
  /\ co.pc = "write"
  /\ \/ /\ creds' = co.gen /\ pend' = None
        /\ co' = BeginRelease(co, TRUE) /\ Free
     \/ /\ Spend("write_fails") /\ creds' \in {creds, co.gen}
        /\ co' = GiveUp(co) /\ UNCHANGED pend
  /\ UNCHANGED <<run, ses, disk, acct, used, pending, late>>

(* Release takes the runners it saw in a generation of the daemon's. *)
ReleaseGen(c) == IF c.goal = "cancel" THEN None ELSE c.gen

BeginCalls ==
  LET gen == ReleaseGen(co)
      Matches(v) == v.gen # None /\ gen \in {None, v.gen}
  IN /\ co.pc = "scan" /\ co.todo = {} /\ co.goal \in {"cancel", "release"}
     /\ IF LostParticipant(co)
           \/ \E r \in Runners : co.view[r].kind = "stale" /\ Matches(co.view[r])
        THEN co' = IF co.goal = "cancel" THEN GiveUp(co) ELSE Idle
        ELSE co' = [co EXCEPT !.pc = "release", !.failed = "no", !.todo =
               {r \in Runners : /\ co.view[r].kind = "live"
                                /\ Matches(co.view[r]) /\ co.view[r].gen # SelfUpgrade}]
     /\ Free /\ UNCHANGED <<run, ses, disk, acct, creds, Queue, pending, late>>

CallRelease(r) ==
  LET next == [co EXCEPT !.todo = @ \ {r}]
      Failing(how) == [next EXCEPT !.failed = IF @ = "silent" THEN @ ELSE how]
  IN /\ co.pc = "release" /\ r \in co.todo
     /\ Call(Request(r, "release", co.view[r].gen, co.goal = "release" /\ co.committed),
             TRUE, next, Failing("refused"), Failing("silent"))
     /\ UNCHANGED <<ses, acct, creds, Queue, pending>>

(* Mutated form: pending.json is left behind. *)
ReleaseDone_keeps ==
  /\ co.pc = "release" /\ co.todo = {}
  /\ co' = Idle
  /\ Free /\ UNCHANGED <<run, ses, disk, acct, creds, Queue, pending, late>>

(* One runner that did not confirm keeps pending.json for the next tick. *)
ReleaseDone ==
  /\ co.pc = "release" /\ co.todo = {}
  /\ LET ok == co.failed = "no"
     IN /\ pending' = IF ok /\ ReleaseGen(co) \in {None, pending.gen} THEN NoTxn
                      ELSE pending
        /\ co' = CASE co.goal = "release" -> Idle
                   [] co.goal = "cancel" /\ ok -> Scanning(co, "prepare")
                   [] co.goal = "cancel" /\ co.failed = "refused" -> GiveUp(co)
                   [] co.goal = "cancel" /\ co.failed = "silent" -> Unanswered(co)
  /\ Free /\ UNCHANGED <<run, ses, disk, acct, creds, Queue, late>>

(* qswitchd, or the process of a manual switch, dies; the lock goes with it. *)
CoordinatorDies ==
  /\ co.pc # "idle" /\ Spend("daemon_crash")
  /\ co' = Idle
  /\ UNCHANGED <<run, ses, disk, acct, creds, Queue, pending, late>>

(* continueInterrupted, with nothing queued and nothing draining. *)
Resume(r) ==
  /\ pend = None /\ pending.gen = None
  /\ LockFree \/ co.manual
  /\ run[r].mode = "loop" /\ ~ResumeRefused(run[r])
  /\ Spend("resume")
  /\ Set(r, AfterResume(run[r]))
  /\ UNCHANGED <<ses, disk, Others>>
-----------------------------------------------------------------------------
RunnerStep(r) ==
  \/ StartRunner(r) \/ Restart(r) \/ RestartFails(r) \/ ChildDone(r)
  \/ Overdue(r) \/ Killed(r) \/ UpgradeGrace(r) \/ Quiet(r)
  \/ ExecOk(r) \/ ExecFails(r) \/ ExecDies(r) \/ StartHandoff(r)
  \/ Terminated(r) \/ StopChild(r) \/ StopDone(r)
  \/ RunnerKilled(r) \/ OrphanExit(r) \/ Forget(r) \/ Resume(r)

SessionStep(r) ==
  \/ Work(r) \/ Finish(r) \/ UserExit(r) \/ ChildCrash(r)
  \/ Heartbeat(r) \/ Acknowledge(r) \/ FinalCheck(r) \/ RunExit(r)

CoordinatorStep ==
  \/ \E r \in Runners : \/ ScanStep(r) \/ CallPrepare(r) \/ CallExit(r)
                        \/ CallStatus(r) \/ CallRelease(r)
  \/ HasBlockers \/ Enroll \/ LoopDone \/ Recheck \/ Write
  \/ BeginCalls \/ ReleaseDone

Next ==
  \/ \E r \in Runners : RunnerStep(r) \/ SessionStep(r)
  \/ CoordinatorStep
  \/ QueueSwitch \/ Tick \/ ManualSwitch \/ CoordinatorDies
  \/ \E m \in late : LateCall(m)

Spec == Init /\ [][Next]_vars

-----------------------------------------------------------------------------
(* Fairness.  The daemon ticks, and a process that holds the lock goes on;
   Claude finishes its turns and polls its runner; a runner serves its wake
   channel.  A start that waits for claude.lock polls it, and the coordinator
   gives it back within every tick, hence strong fairness there. *)

Poll(r) == Heartbeat(r) \/ Acknowledge(r) \/ FinalCheck(r) \/ RunExit(r)

Supervise(r) ==
  \/ ChildDone(r) \/ Killed(r) \/ UpgradeGrace(r)
  \/ StopChild(r) \/ StopDone(r) \/ ExecOk(r)

FairSpec ==
  /\ Spec
  /\ WF_vars(CoordinatorStep) /\ WF_vars(Tick)
  /\ WF_vars(\E m \in late : LateCall(m))
  /\ \A r \in Runners :
       /\ WF_vars(Finish(r)) /\ WF_vars(Poll(r)) /\ WF_vars(Supervise(r))
       /\ SF_vars(Restart(r) \/ StartHandoff(r))

-----------------------------------------------------------------------------
(* Safety *)

(* The credentials of the next account are written only while no Claude
   process runs, the one a killed runner left behind included (README.md:116;
   Prepare, switchLocked). *)
NoChildDuringWrite == co.pc = "write" => \A r \in Runners : ~Alive(r)

(* The rotation implements AccountRotation: a session never runs with
   credentials that were replaced under it. *)
Abstract == INSTANCE AccountRotation WITH
  Sessions <- Runners, Accounts <- Generations \cup {None}, FirstAccount <- None,
  account <- creds, running <- {r \in Runners : Alive(r)}, uses <- acct

Implements == Abstract!Spec

(* A runner that was told the switch is committed finds the account of that
   switch in the credentials file until it restarts its session, whatever
   other switch, crash or late request came in between. *)
CommitMeansWritten ==
  \A r \in Runners :
    run[r].mode \in Live /\ run[r].released /\ run[r].committed
      => creds = run[r].gen

(* A session that left Claude is told once how the switch ended; a repeated,
   late or contradicting release does not change what it restarts with. *)
ReleaseDecisionStands ==
  [][\A r \in Runners :
       run[r].released /\ run[r].exited /\ run'[r].released
         => run'[r].committed = run[r].committed]_vars

(* The child is gone because the switch asked it to go, or because its
   acknowledged exit was overdue, and not because the user closed it. *)
LeftForSwitch(r) ==
  /\ ~Alive(r) /\ ses[r].gen \in Generations
  /\ ses[r].step = "exiting" \/ run[r].forced

(* A session that left Claude for a switch is never dropped without a trace:
   if its runner ends first, the record that shows how to resume it is kept
   (stoppedLocked, restartFailedLocked, unmanagedExitLocked). *)
RecordKept ==
  [][\A r \in Runners :
       run[r].mode \in Live /\ run'[r].mode = "gone" /\ LeftForSwitch(r)
         => disk'[r].there]_vars

-----------------------------------------------------------------------------
(* Liveness, under FairSpec *)

(* Every drain ends: pending.json, which keeps the sessions from restarting
   and new ones from starting, is removed again. *)
DrainEnds == \A g \in Generations : pending.gen = g ~> pending.gen # g

(* A session that exited for a switch is started again, unless its runner
   ends. *)
SessionsReturn ==
  \A r \in Runners :
    (run[r].mode = "loop" /\ run[r].exited) ~> (Alive(r) \/ run[r].mode = "gone")

(* A session that joined a switch, and holds what its user types, is let go
   again unless it exits. *)
LetGo ==
  \A r \in Runners :
    (Alive(r) /\ run[r].gen \in Generations) ~> (~Alive(r) \/ run[r].gen = None)

-----------------------------------------------------------------------------
(* What the code's documentation says and the code does not do. *)

(* "Closing a session during a switch does not hold it up, the other sessions
   are switched" (README.md:87) and "a runner that does not answer for a
   moment does not cancel the switch" (README.md:116): with no reason to
   cancel, a session that left for a switch is never released uncommitted. *)
NeverCancelled ==
  \A r \in Runners : run[r].released => run[r].committed
=============================================================================
