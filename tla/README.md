# A specification of qswitch

qswitch keeps several accounts of AI command-line tools (Claude Code, Codex,
Grok, Kimi, ...) in an encrypted vault, watches how much of each account's quota
is used, and switches the shared credentials file of a tool to another account
when the current one runs out. A daemon (`qswitchd`) ticks in the background; a
user runs `qswitch` beside it. For Claude Code the switch has to happen without
a session ever running with another account's credentials, so interactive
sessions run under a *runner* (`qswitch run claude`) that can leave Claude for a
switch and resume it afterwards.

This directory holds TLA+ models of that program, the TLC configurations that
check them, and proofs for TLAPS. `PROJECT.json` lists every modelled
definition with the lines it translates, every run, and every hazard of the code
with the properties that speak of it.

    tlc -workers 2 -config rotation_pair.cfg MCRotation.tla
    tlc -workers 2 -config claude_tokens.cfg MCClaudeTokens.tla
    tlc -workers 2 -config live_account.cfg  MCLiveAccount.tla
    tlc -workers 2 -config quota.cfg         MCQuota.tla
    tlc -workers 2 -config answers.cfg       MCAnswers.tla

The runs of section 6, each of which ends with a counterexample:

    tlc -workers 2 -config rotation_half_released.cfg MCRotation.tla
    tlc -workers 2 -config rotation_exit_race.cfg     MCRotation.tla
    tlc -workers 2 -config claude_stale_switch.cfg    MCClaudeTokens.tla
    tlc -workers 2 -config live_consumed.cfg          MCLiveAccount.tla

The proofs:

    tlapm RotationProofs.tla
    tlapm RotationDecisionProofs.tla
    tlapm ClaudeTokensProofs.tla
    tlapm ClaudeFencingProofs.tla
    tlapm LiveAccountProofs.tla
    tlapm QuotaProofs.tla
    tlapm AnswersProofs.tla
    tlapm IntervalProofs.tla

## 1. The system

| Component | State | Operations | Talks to |
|---|---|---|---|
| **Managed runner** (`managed/run.go`, `upgrade.go`) | `status.json`, a lease lock, and in memory the child, the switch's generation, the exit handshake and the release decision | control server `/prepare /exit /release /resume /status /state /exiting`; `Wait` for the child; watchdog; restart; exec of a replaced binary; signals | coordinator and plugin by HTTP over a socket; `pending.json`; `claude.lock` |
| **Session plugin** (`managed/plugin/hooks/register.js`) | phase, generation, readiness, held messages, all inside one Claude process | polls `/state`; on "exit" checks, posts `/exiting`, checks again, submits `/exit` | its runner |
| **Rotation coordinator** (`managed/coordinator.go`) | `pending.json` | `Prepare`, `Release`, `AutoBlockers` | runners, by way of the registry; called from `app` |
| **Runner registry** (`managed/registry.go`) | runner directories | `scan`, `request`, `Resume`, `Forget` | leases, `status.json` |
| **Applying a switch** (`app/app.go`) | queued switch, pointer, fingerprints (SQLite); credentials file | `Switch`, `TryApply`, `switchLocked`, `cancelSwitch` | coordinator, adapter, vault |
| **Quota probing and switch decisions** (`app/app.go`, `automatic_quota.go`, `quota_schedule.go`, `expiring.go`) | observations, attempt and retry times | `ProbeQuota`, `considerSwitch`, backoff, cooling | providers over HTTP, SQLite |
| **Claude token refresh and recovery** (`app/claude.go`, `claude_recovery.go`) | recovery records on disk | refresh token exchange, vault and live file | provider, vault, the official CLI |
| **Ingest and writeback protection** (`app/app.go`) | fingerprint of the last own write, apply time, revert count | `Ingest`, revert once, disable | live files, which the official CLI changes |
| **Grok and Kimi live refresh** (`app/grok_live.go`, `kimi_live.go`, the `auth_lock.go` files) | – | refresh while holding the official client's lock | official clients |
| **Snapshot restore** (`snapshot/`, `adapter/claude`, `livefile/`) | – | restore of several files with rollback | file system |
| **State database** (`state/`) | every row | queries, `PruneQuotaLog` | SQLite |
| **Quota intervals, retry delays** (`quota/interval.go`, `retry.go`) | – | pure functions | – |
| **Web server and login** (`web/`, `app/login_*.go`) | login sessions in memory | start, cancel, finish | app, providers |
| **Quota response parsing** (`quota/classify.go`, `cursor.go`, `devin.go`, `kimi.go`, `zcode.go`) | - | a verdict on each provider's document | called by the probe |

The rest are the formats of the other tools' adapters, the encrypted vault and
its keys, process list and desktop control, configuration and paths, the command
line, and deployment. They have no protocol of their own; `PROJECT.json` lists
them with the reason.

### How a switch of Claude goes

1. `considerSwitch` queues a switch. On its next tick the daemon takes
   `claude.lock` and calls `TryApply`, which lists the running children, may ask
   for quota, and calls `Prepare` with the time of the queued switch as the
   generation.
2. `Prepare` scans the runners, writes `pending.json`, and sends every runner
   `/prepare`, then `/exit`, then `/status`. It returns "not ready" at the end of
   the first of the three rounds in which one session is not there yet. The
   daemon comes back on its next tick; `claude.lock` is free in between.
3. The plugin learns of the switch from its heartbeat, holds what the user
   types, and at the "exit" answer acknowledges (`/exiting`) and submits `/exit`.
   A heartbeat after the acknowledgement that says "not ready" takes the
   acknowledgement back. An acknowledged exit that takes too long is forced.
4. When `Wait` returned for every child, `switchLocked` looks once more at all
   sessions, writes the credentials, then the pointer, and clears the queue.
5. `Release(generation, committed)` tells every runner the decision and removes
   `pending.json`; a released runner takes `claude.lock` and starts its session
   again, with a continuation prompt if the switch was committed and the session
   had hit its limit.

### What is hard about it

Everything may happen between any two of these steps: the session starts a turn,
is closed or crashes; the runner is killed, stopped, or execs a new version of
itself; the daemon dies with the lock; the request times out after three seconds
and is handled later; the queued switch is cancelled or replaced; writing a
status fails. The three durable records (`pending.json`, the queue, each
`status.json`) are written one at a time, and nobody but the runner's `Wait`
knows that a child is gone. `PROJECT.json` lists these hazards line by line.

### What makes each component correct

* *Rotation*: no Claude process runs while credentials are written; every session
  uses one account from start to end; a runner told "committed" finds that account
  in the file; a decision is given once; a session that left for a switch comes
  back or leaves a record; every drain ends.
* *Quota and decisions*: an observation from before a reset never authorizes a
  switch; a failing account does not starve the others; a provider that throttles
  is not asked before the time it named; a queued switch keeps its `QueuedAt`.
* *Claude recovery*: a refresh token is spent once and its successor never lost,
  whatever step the process dies at; a newer login is never overwritten.
* *Ingest*: what qswitch wrote itself is not taken for a login; a writeback is
  reverted once, then the tool is disabled, never an endless loop.
* *Live refresh*: the spent token never overwrites its successor.
* *Restore*: it succeeds as a whole or leaves what was there.
* *Pure functions*: intervals stay within their bounds at every input; pruning
  keeps what the scheduler still reads.

## 2. Plan

| # | Module | Models | State |
|---|---|---|---|
| 1 | `Runner`, `Rotation`, `AccountRotation` | runner, plugin handshake, coordinator, registry, applying a switch | done |
| 1p | `RotationProofs`, `RotationDecisionProofs` | types, `NoChildDuringWrite`, refinement; the decisions (`CommitMeansWritten`, `ReleaseDecisionStands`, `RecordKept`) | done |
| 2 | `ClaudeTokens` | the refresh tokens of Claude over crashes: recovery record, vault, live file, and a CLI that takes no part in the lock | done |
| 2p | `ClaudeTokensProofs`, `ClaudeFencingProofs` | types, `ForeignLoginKept`; the fencing (`SpentOnce`, `OldPairsFenced`, `KeepsLast`) | done |
| 3 | `LiveAccount` | the login files of Codex, Grok and Kimi: renewal under the client's lock, captures, Ingest, pointer and writeback | done |
| 3p | `LiveAccountProofs` | types and the three properties of the pairs | done |
| 4 | `Quota` | the worker and the web server: renewals of sign-ins, probing, deadlines, cooling, what queues, starts or cancels a switch | done |
| 4p | `QuotaProofs` | types, `FailureIsNoEvidence`, `DeadlineKept`, `Evidence` | done |
| 5 | `Answers` | pure computations: the verdict on an answer, the time until the next request, pruning of the log | done |
| 5p | `AnswersProofs`, `IntervalProofs` | the verdict on an answer, the pruning and the interval, for every input | done |
| 6 | `SnapshotRestore` | restore and rollback, a failure at each write | left |
| 7 | `LoginSession`, `Plugin` | sign-in in the web server; held messages and readiness in the plugin | left |

## 3. The modules

* **`Runner.tla`** - the state of one runner as a record, and what each handler
  does to it. The runner serialises its handlers with `r.mu`, so each is a
  function of the record (`AfterPrepare`, `AfterExit`, `AfterRelease`, `Heard`,
  `AfterState`, `AfterExiting`, `Started`, ...) with a predicate for its error
  answers (`PrepareRefused`, ...). It has no variables.
* **`Rotation.tla`** EXTENDS `Runner` - the system: runners, plugin, one
  coordinator, daemon ticks, manual switches, late requests, crashes.
* **`AccountRotation.tla`** - the abstract specification in three actions
  (`Start`, `Stop`, `Switch`): the credentials change only while no process runs.
  `Rotation` implements it under `Abstract == INSTANCE AccountRotation WITH ...`,
  which maps the running set to the live children (orphans included).
* **`ClaudeTokens.tla`** - one operation at a time under `locks/claude.lock`
  (keep-alive, capture, switch, sign-in), each step of it a durable write or a
  look at the outside; a provider that accepts a refresh token once; an official
  CLI that starts, renews, logs in and logs out between any two steps.
* **`LiveAccount.tla`** - the same question for Codex, Grok and Kimi, whose client
  renews the login file under a lock of its own, together with the daemon's
  Ingest, which decides what a changed file means.
* **`Quota.tla`** - two actors, the worker of a tool and the web server, over the
  accounts' rows. Rotation takes "a switch is queued or cancelled" as an event;
  this module says when.
* **`Answers.tla`** - the pure functions below it: what class, use and reset time
  `Quota`'s `Answer` gets from a document, what interval its deadlines use, and
  what rows it still finds. Each input is one behaviour: computed, compared with a
  definition of what the answer should be, done.
* **`MC*.tla`** - names for model values, symmetry sets and bounded inputs.
* **`RotationProofs.tla`**, **`RotationDecisionProofs.tla`**, **`ClaudeTokensProofs.tla`**,
  **`ClaudeFencingProofs.tla`**, **`LiveAccountProofs.tla`**, **`QuotaProofs.tla`**, **`AnswersProofs.tla`**,
  **`IntervalProofs.tla`** - the theorems.

### State and code: `Rotation`

| Variable | Code |
|---|---|
| `run[r]` | `runner` fields: `mode` is where `Run` stands (serving, between `Wait` and exec, after a failed exec, new binary waiting for the lock), `gen`/`ready`/`exited`/`needs`/`recovery` are `status`, `exitReq`/`exitAck`/`released`/`committed`/`upgrading`/`resumePending`/`forced` the fields of the same meaning; `child` is the operating system's view |
| `ses[r]` | the plugin's variables in `register.js`; `step` is where one `poll()` stands |
| `disk[r]` | `status.json` and whether the directory is there |
| `creds`, `acct[r]` | the account in the credentials file; the one the child read at its start |
| `pending`, `pend` | `pending.json`; the queued switch |
| `co` | the coordinator's locals: the phase, what it saw in `scan`, what remains to be asked, whether it is a manual switch |
| `late` | requests given up after three seconds that the runner still handles |

Each call of the coordinator to one runner is an action of its own
(`ScanStep`, `CallPrepare`, `CallExit`, `CallStatus`, `CallRelease`), so
everything else interleaves with it. `BeginPrepare`, `BeginRelease`, `GiveUp` and
`Unanswered` are the paths between `TryApply`, `Switch`, `Prepare` and `Release`:
`Unanswered` is `ErrRunnerUnavailable`, which the daemon retries with everything
left in place, but which cancels a manual switch and the last look before the
write. `claude.lock` has no variable: only the coordinator keeps it over several
steps, so it is held exactly while `co.pc # "idle"`.

### State and code: `ClaudeTokens`

| Variable | Code |
|---|---|
| `vault`, `live` | the token pair in an account's vault entry, and in the live credentials file; a pair is an account and a number |
| `recs` | the files of `claude-recovery/`: `old`, `new` (absent while the outcome of the exchange is unknown), `acct`, `path` (whether `LivePath` is set) |
| `op` | the operation holding `claude.lock` and its locals: where it stands, what it loaded, its last look at the live file |
| `cli` | `claudeRunning()`: an unmanaged CLI, which blocks a writeback but no switch |
| `valid`, `issued`, `sent` | the provider, and what was presented to it |

`recoverClaudeLocked` is `RecoverSkip`, `RecoverRefused`, `RecoverSave`,
`Writeback`, `Rewrite`, `Recovered`, `RecoverDone`; a renewal `Look`, `Intent`
(`beginClaudeRecovery`), `Exchange`, `Store`; `saveClaudeBlob` is `SaveRecord`,
once for each record, and `Save`. `Fails` ends any of them between two steps.

### State and code: `LiveAccount`

| Variable | Code |
|---|---|
| `world` | the tool, and the events that may happen together; fixed in `Init` |
| `vault`, `live`, `pointer`, `auto` | vault entries, the login file, `state.Pointer`, automatic switching of the tool |
| `lastFP`, `selfFP` | the daemon's last fingerprint, and that of the last write of its own (`rememberFP`) |
| `ing` | the daemon's Ingest: between its look at the file and the lock, under the lock, or waiting to renew the account the pointer left |
| `op` | the operation holding `locks/<tool>.lock` |
| `client`, `old` | the official client, which honours the auth lock or not; the pair an old process remembers and writes back |

### State and code: `Quota`

| Variable | Code |
|---|---|
| `q[a]` | an account's rows: confirmed and last observation, attempts, deadline and delay, cooling, the last reset |
| `pending`, `pointer`, `applied` | the queued switch and its age, the live account, `LastApplyAt` |
| `act[x]` | the worker and the web server: the stack of calls still to be made, and whether the tool lock is held |
| `due`, `late` | which of the worker's tickers fired; the clock moved during the request that is out |
| `deadline[a]`, `hidden` | not in the code: how long the provider said not to ask for `a`, and the accounts for which something else than a request covered that answer up |
| `truth`, `expires`, `busy`, `hit`, `event` | the provider's view of the accounts and what the tool's log says of it |

A call the code makes without the lock is a step; a request holds the lock from
`Ask` to `Answer`. Times are relative to now and saturate at `Cap`. `KeepAlive`, the
first call of the http tick and of a web refresh, chooses one account whose token is to
be renewed and `Renew` looks at it again under the lock. `considerSwitch` is
`Consider`, `pickNext` (one step for each candidate, under the lock), `Queue`
(`GetPending`) and `SetPending`, the last two without the lock, so the other actor may
queue, apply or cancel a switch between them.

### Abstractions

Of `Rotation`:

* An account is named after the generation of the switch that writes it; `used`
  keeps a generation from being used twice. This is how timestamps behave.
* A session is ready when no turn runs (`~busy`) and its plugin is not
  `unknown`. Held messages, drafts, background tasks and prompt absorption are
  left for a module of their own; so is the list of stopped work.
* `Started` is `cmd.Start` and the two records after it in one step. A runner that
  dies in between leaves an orphan no scan sees; the hazard is listed, not
  modelled.
* The runner's terminal is a Boolean (`gate()`); a failure to verify is an event.
* Requests reach a runner in order: one that is answered finds earlier ones
  handled. The disk failing while a late request is handled is left out.
* Why a switch is queued, cancelled, replaced or postponed is nondeterministic;
  `"expiring"` stands for the busy check of an expiring-quota switch and also for
  a failing quota lookup.
* Other tools, desktop apps, and the capture of the outgoing account are left out
  of `Write`.

Of `ClaudeTokens`: comparing the live file and renaming the new one over it is one
step; an unreadable record, `Forget`, and Ingest's writeback revert for Claude are
left out; the keep-alive's second call of the recovery, which finds what the first
one left, is not repeated. A pair belongs to one account, so the refusal to save a pair
that a record of another account names (`claude_recovery.go:311-313`) has no step.

Of `LiveAccount`: comparing and replacing the login file is one step; the delay
before a Kimi capture is tried again is a choice; turning automatic switching on
again after the tool was disabled is left out; the two clients' lock files are one
predicate (`AuthLock`). Cursor, Devin and ZCode have neither a lock nor a renewal.

Of `Quota`: a soft limit is an OK that ranks lower, the used percentage is part of
the rank, and the order of expiry dates is fixed in a behaviour. Grok's 402 rule,
Cursor's local files, unreadable snapshots, notifications, `switchToEnrolled`, and
what `Rotation` models (`Prepare`, `switchLocked`) are left out. A token is due for
renewal when its account is expired, and otherwise at any time (in the worlds with
`"renews"`); what the exchange does to the tokens is in `ClaudeTokens` and
`LiveAccount`, here it succeeds or fails at once. `considerExpiring` reads the queue, the
pointer and the rows one after the other; here it reads them at once and writes in a
later step (`TryApply` checks what it wrote again). A line of a local log is dated when
it is read.

Of `Answers`: a document is its windows, each present, missing or malformed, and a
set of flags for all else the parser looks at; use is in tenths of a percent. Lines
of local logs, plan labels, the merging of displayed windows, and HTTP are left
out.

## 4. The runs

In the runs of `Rotation`, `ClaudeTokens` and `LiveAccount` every event that costs
something (a turn, an exit, a crash, a lost message, ...) is counted in `faults`
and limited by `MaxFaults`; `Events` or `Worlds` says which are possible. Steps of
the protocol are never counted: operations, sessions, ticks and drains are
unlimited in number. Deadlock is checked in every run but `answers`, whose
behaviours end when the value is computed.

| Run | Instance | Shows |
|---|---|---|
| `rotation_pair` | 2 runners, 1 generation, 2 events of any kind but a failing exec (and without adoption of an interrupted session) | `TypeOK`, `NoChildDuringWrite`, `CommitMeansWritten`, `RecordKept`, refinement of `AccountRotation` |
| `rotation_one` | 1 runner, 2 generations, 3 events of any kind | `CommitMeansWritten`, `ReleaseDecisionStands`, `RecordKept` |
| `rotation_live` | 2 runners, 1 generation, fairness, 1 event | `DrainEnds`, `SessionsReturn`, `LetGo` |
| `claude_tokens` | 2 accounts, 3 pairs each, 2 events, symmetry | `TypeOK`, `SpentOnce`, `OldPairsFenced`, `KeepsLast`, `ForeignLoginKept` |
| `claude_tokens_live` | the same with 1 event and fairness | `PendingFinished` |
| `live_account` | 2 accounts, 2 pairs issued, 7 worlds, 1 event, fairness | `TypeOK`, `NoDoubleSpend`, `NewestKept`, `LiveNewest`, `PointerFollows` |
| `quota` | 2 or 3 accounts, 12 worlds, 1 failing request or renewal, times up to 4, fairness | `TypeOK`, `Evidence`, `FailureIsNoEvidence`, `NoStarvation`, `Rotates`, `DeadlineKept` |
| `answers` | every input of `MCAnswers`, 389,085 of them | `TypeOK`, `NeverTooEarly`, `NeverMissed`, `ResetWaits`, `InTime`, `PruneKeepsReads` |
| `rotation_half_released`, `rotation_exit_race`, `claude_stale_switch`, `live_consumed` | small | the divergences of section 6 |

What they show, in the words of the code:

* No refresh token is presented twice, none that was presented is left unfenced where it
  could be read again, and no step of qswitch drops the last usable pair of an account
  (valid and not fenced off), whatever step the process dies at and whatever the CLI does
  meanwhile. The run shows it within two events; the proof for any number of them, as long
  as nobody signs in again, in isolation, to an account with a recovery pending, and no
  switch takes a saved pair that is fenced off. Each of these two undoes the fencing, the
  first within ten events (section 6). `KeepsLast` leaves out one window of a capture
  (section 6, "a save of what was captured before"). A writeback replaces only what a record
  fences off, without any condition. A recovery that knows the successor is finished as soon
  as no CLI stands in its way.
* For Codex, Grok and Kimi, without crashes, lost writes and a pair that is written
  back later, qswitch spends a pair only if the provider accepts it or no better one is
  stored (`NoDoubleSpend`), and no step of qswitch drops the last good pair of an
  account (`NewestKept`), unless another process replaced the file between the capture
  and the save or the restore. The case of the save came out of a larger instance
  (three pairs, two events) when the invariant of the proof was checked: a login of
  another account replaces the file, and the pair captured before is saved over a
  newer one that only the file had. In every world, no step of qswitch leaves a spent
  pair in the login file while a good one of its account is stored (`LiveNewest`).
  Under fairness, with crashes and old processes, the pointer ends up at the account
  in the file or automatic switching is turned off (`PointerFollows`), unless the
  file holds what qswitch wrote last. That exception is the code's: Ingest ignores
  bytes equal to its last own write (`state.go:364-384`), so the pointer stays wrong
  after a crash between `rememberFP` and `SetPointer`, after a renewal of a login that
  was not ingested yet, and when the same bytes come back.
* An automatic switch for a used-up account leaves one that was used up and goes to one
  that had quota, no longer ago than an observation is trusted, and whose last request did
  not fail (`Evidence`; where the worker reads a client's log the first of these is left
  out, see section 6, and a switch for an expiring quota may be one unit of time older,
  as it does not look at the time again); a failed request
  neither makes nor withdraws an exhaustion; every account is asked again and again, one
  that fails for good included; a used-up account is left or gets its quota back if another
  one has quota. No request is made before the deadline a throttling provider gave, unless
  a line of the client's log or a renewal of that account's sign-in came in between
  (`DeadlineKept`; without the exception it does not hold, nor does a queued switch keep its
  `QueuedAt`, see section 6).
* No answer is read as "exhausted" unless it shows that the account is used up, and none
  as "ok" that does; the reset reported is not before that of any window that is used
  up; the next request comes before the quota is gone at the measured rate, or as
  early as is allowed; pruning changes nothing for the three queries that read the
  log, also after a clock that was set back.

*Why these bounds are enough for the question.* Every mutant in `PROJECT.json` is
found within the bounds of its run, and the four numbered counterexamples of section 6 within
smaller ones.

The hazards of the rotation need two sessions that are not in the same place (one
gone, one busy), or two switches that meet at one session; the two safety runs have
one each, with three events where there is one runner. `rotation_pair` reduces by
the symmetry of the runners (`Interchangeable`): no definition of `Rotation` names
a runner, and the run has no liveness property. For `NoChildDuringWrite`, `CommitMeansWritten`,
`ReleaseDecisionStands`, `RecordKept` and the refinement the bounds do not matter:
section 5 proves them for all.

A loss of tokens takes a crash inside a recovery or a renewal, and something that
happens around it: two events, on the account and its neighbour. Three pairs are a
pair, its successor, and the one that replaces that. `claude_tokens` reduces by the
symmetry of the accounts. `LiveAccount`'s events are tool-specific, so its worlds
pair each with those it can meet; more issued pairs only repeat a renewal.

`Quota`'s delays are small numbers in the order of the configured ones (`RetryMin`
below `RetryMax`, `IntervalMin` below `Interval`, the window longer than both);
`Cap` is above every threshold, and an age is not compared with anything else.
The two worlds with requests on demand (`"probe"`) after a throttled answer are `"unused"`:
no account is used up in them. One failure is not enough to cover up a deadline by a
renewal; with two, `DeadlineKept` was checked in the world of Codex apart (40,639
states), and section 5 proves it for any number.
`IntervalMin` is 2 and not 1, because with ticks of one unit a used-up account
without a known reset would be forgotten and asked for again in the same instant.
`MCAnswers` takes for every parser the values at its thresholds and beside them (99.4,
99.5 and 100 %), windows missing and malformed, and all flags the parser reads.

*Fairness (`FairSpec`).* In `Rotation`: weak fairness of the coordinator's steps and of the
tick: the daemon ticks on a timer, and a process that holds the lock goes on
(its requests have time limits). Weak fairness of `Finish` and `Poll`: a turn
ends, and the plugin polls every 750 ms. Weak fairness of `Supervise`: the runner
serves its wake channel, its watchdog and `Wait`. Strong fairness of `Restart`
and `StartHandoff`: they poll `claude.lock` every 50 or 100 ms, and the
coordinator gives it back at the end of every tick, so they find it free again
and again, though not always. Nothing is assumed of users, crashes and lost
messages.

In `ClaudeTokens`: weak fairness of `Work` (the holder of the lock goes on) and of
`CliExit` (a CLI is closed in the end, since a writeback waits for that), and strong
fairness of `StartKeepAlive`: the daemon's pass comes around to every account
though other operations take the lock in between. In `LiveAccount`: weak fairness
of the work under the lock and of `IngestLook`, the daemon's timer, and strong
fairness of what waits for the lock (`IngestLock`, `StartParked`) and of `Verified`:
a profile request does not fail for ever. In `Quota`: weak fairness of `Work`, of
`Tick` (time passes) and of `Settle` (a busy tool comes to rest).

*Limits of the liveness runs.* `rotation_live` has one generation, because with two
a plugin can take itself out of rotation (section 6, "a replaced switch") and the
drain then waits for it without end; and it has neither a daemon crash nor a lost
answer, because of `rotation_half_released`. `claude_tokens_live` has one event:
with two, a record can be superseded by a pair whose own exchange then has an
unknown outcome, and only a new sign-in ends that. Both are behaviour of the code,
not of the model.

## 5. The proofs

`RotationProofs.tla` proves, for any sets of runners and generations, any events
and any `MaxFaults`:

* `TypeCorrect`: `Spec => []TypeOK`.

and, for the specification in which the exec of a replaced binary does not fail
(`"exec_fails" \notin Events`):

* `NoChildWhileWriting`: `Spec => []NoChildDuringWrite`;
* `RotationImplements`: `Spec => Implements`, every step of the rotation is a
  step of `AccountRotation` or stutters;
* `EverySessionOneAccount`: every running session uses the account in the file.

The assumption is needed: with the event `"exec_fails"` added to `rotation_pair`,
TLC finds a counterexample (section 6). The other assumptions are those on the constants (`GenerationsAssumption`,
`EventsAssumption`), which TLC evaluates in every run.

*The argument.* `NoChildDuringWrite` is not inductive: nothing in it says why the
last look at the sessions found every child gone. The invariant is `TypeInv /\
ChildInv`:

* `TypeInv` is `TypeOK` and `Releasing`: a runner that is to be released was seen
  in a generation of the daemon's, which types the requests of `CallRelease`.
* `RecordHolds`: whoever runs Claude has a `status.json` that says so, and either
  a runner in its main loop or none. So a scan cannot miss a child, whether its
  runner answers or is dead. This is what the order of the code's writes is for
  (the record before `Exited`, the check in `Forget`, the records a dying runner
  leaves).
* `NoHandoff`: nobody is about to start Claude without the lock.
* `SeenGone`: what the last scan saw as gone is gone still, because a start
  needs `claude.lock`, which the coordinator holds.

The lemmas sort the actions by what they do to a process: `Served` leaves it
alone, `Begins` starts it under the lock, `Ends` ends it, `Orphans` takes its
runner away. Each action is in one of them, and each of them keeps the
invariant and maps to a step of `AccountRotation` or to a stutter.

`ClaudeTokensProofs.tla` proves, for any accounts, number of token pairs, events
and faults (`TokensAssumption`):

* `TokensTypes`: `Spec => []TypeOK`;
* `WritebackKeepsLogins`: `Spec => ForeignLoginKept`, the writeback of a recovery
  replaces a pair that a record fences off, and nothing else.

*The argument.* The invariant is `TokensInv`, the types with `Pending`: what a
recovery works on is a record that is still on disk with a known successor, and
between the two looks at the live file what the first one saw is among the old pairs
of that record. The second look compares the file with the first, so what is replaced
is one of them. The types need a part of their own too: where `op` goes on after a
recovery says whether it holds a pair or has yet to read one.

`ClaudeFencingProofs.tla` proves, from the same assumption, for every behaviour in which no
step is one of `UndoesFencing` (`Spec /\ [][~UndoesFencing]_vars`):

* `TokensSpentOnce`: `[]SpentOnce`;
* `OldPairsStayFenced`: `[]OldPairsFenced`;
* `LastUsablePairKept`: `KeepsLast`.

`UndoesFencing` names two operations, an isolated sign-in of an account with a record and a
switch to an account whose saved pair is fenced off. The condition cannot be dropped: with
the second `claude_stale_switch` violates `OldPairsFenced` in a few steps, and with the first
the chain of section 6 does. Everything else is in: crashes at every step, lost answers,
captures, recoveries, keep-alives, switches, first sign-ins, and a CLI that starts, renews,
logs in and logs out at any time, any number of times.

*The argument.* A record is deleted in the end, so `OldPairsFenced` is not inductive: what is
to keep the pairs it fenced off from coming back? The invariant `Fencing` says that there is
a set `D` of dead pairs: every pair that was sent is in `D` or fenced off by a record
(`Covered`), and no pair of `D` is in the vault, in the live file or
in the hands of an operation. Deleting a record moves into `D` what it fenced off and what
the records of those pairs had replaced before. For that to be allowed, the successor must
not be among them (`NoCycle`: each record has a set, closed under what records replaced,
that has its old pairs and lacks its successor) and the live pair must not be either
(`LiveRecords`: a record that knows the live file's pair as old has `path` set and is the
only one with its successor, so it is kept until the writeback). `OneAccount` keeps the
records of one account out of another's vault entry, and `Phases` says for each step of an
operation what it relies on, e.g. that between the intent and the exchange the pair about to
be sent was not sent before. Each action is shown to keep `D` or to extend it so
(`FencingStep`).

`RotationDecisionProofs.tla` proves, for any sets of runners and generations, any events
(a failing exec included) and any `MaxFaults`:

* `CommittedIsWritten`: `Spec => []CommitMeansWritten`;
* `DecisionGivenOnce`: `Spec => ReleaseDecisionStands`;
* `RecordIsKept`: `Spec => RecordKept`.

*The argument.* The invariant is `TypeInv /\ DecisionInv`. `Slots` says of each runner,
its session and its record that a release is for a generation of the daemon's, that
upgrades and releases exclude each other, that a plugin about to submit `/exit` has an
acknowledgement on record for the generation it was asked for, and that a runner in its
main loop has a record. `CoordinatorInv` and `LateHolds` say that a release on its way,
in the coordinator's hands or given up after three seconds, carries "committed" only
for the generation whose account is in the file, and `Drained` that from the last
`/prepare` to the write no runner has the decision of another switch, nor a late request
that could still bring it. Each handler of the runner is shown
once to keep this and to keep the decision, take it away, or make the one it carries
(`ControlDecides`, `FailedDecides`, ...). A first candidate (a runner about to restart is
not released) was refuted by TLC and dropped.

`LiveAccountProofs.tla` proves, for any set of accounts, number of token pairs, events
and faults (`LiveAssumption`):

* `LiveTypes`: `Spec => []TypeOK`;
* `FileNeverOlder`: `Spec => LiveNewest`;
* `SpendsTheNewest`: `Spec => NoDoubleSpend`;
* `LastPairKept`: `Spec => NewestKept`.

*The argument.* The invariant is `Inv`, the types in parts with what an operation works on:
pairs are numbered as they are issued, so a new one is nobody's yet; until a renewal asks
for the lock it holds the vault's pair; what a switch restores is in the vault; a renewed
pair is neither in the file nor with an old process before it is stored. The last two
theorems need `Agree` besides, which holds without crashes, lost writes and pairs that are
written back later: of an account whose pair in the vault is good, the file holds a good
one too, except between an exchange under the client's lock and the write that follows
it; and what was captured, or read under that lock, is still in the file, unless the
file was renewed since.

`QuotaProofs.tla` proves, for any worlds, intervals, delays and number of failed requests
(`QuotaAssumption`: the intervals and delays are between 1 and `Cap`, two of them are in
order; at most three accounts, as in the module):

* `TypesKept`: `Spec => []TypeOK`;
* `FailuresSayNothing`: `Spec => FailureIsNoEvidence`;
* `DeadlinesStand`: `Spec => DeadlineKept`;
* `EvidenceStands`: `Spec => Evidence`.

*The argument.* The types are not inductive: what an actor does next is in its plan. The
invariant is `Inv`, the types with `PlanInv` and `PendingInv`. `PlanInv` says what plans
look like: an actor holds the tool lock exactly while its next call is one of `Locking`;
behind another call such a call stands only where `Leads` has the two together (a
confirmation behind a request, a target behind a confirmation, ...); and a call names
accounts that exist. Plans are built by putting calls before a plan that starts without
the lock (`ChainJoin`) and by taking the first one off (`ChainTail`), so every action is
shown to move its actor to such a plan (`Moved`), never to a second holder of the lock.
`FailureIsNoEvidence` then follows from the steps that write a row (`RowSteps`) and from
what each outcome of a request stores (`AnsweredType`, `FailedType`, `RefusedType`,
`RefreshType`).
`DeadlineKept` needs a second invariant, `DeadlineInv`: while a throttling server's
deadline is ahead and not covered up, the account's last row is the one that names it, its
`HTTPBackoffUntil` is no earlier, and no actor is between `Ask` and `Answer` for that
account. Three calls come to a request (`Probe`, `ProbeAuto`, `pickNext`), each of which
looks at the row first (`Asks`); no other does (`QuietCalls`); while one answer is stored
no other actor waits for one (`AnswersAlone`); and `Renew` and `ProbeLocal`, the two other
steps that touch what the row says of the deadline, are those that `hidden` records
(`HidingSteps`).

`Evidence` relates a switch to the provider's past, and nothing a switch looks at names
it: a row has an age, a plan a class. The third invariant, `EvidenceInv`, has three parts.
*Rows agree* (`Agrees`): what a row says of an account was true as long ago as the row is
old, and a reset that is ahead is the provider's; without a local log this holds of
exhaustions too. *Plans are aimed* (`Aimed`, `AimedNext`): a confirmation and a switch
stand behind a call for the same account, and a switch leaves the live account, which
nobody else can change while the lock is held. *The target is vouched for* (`Vouched`, `VouchedNext`): the
class an actor holds behind "ok" is that of the target's row, no older than an interval.
The clock is what makes the last part hard. It may move between the answer and the switch,
while the web server holds the lock with an answer that is an interval old. It cannot move
twice: by then the worker is due to ask for the live account and waits for the lock
(`Stalled`, `StalledStays`), and `Tick` waits for the worker.

`AnswersProofs.tla` proves, for any set of documents, samples and logs that satisfy
`AnswersAssumption`, `DocumentsAssumption` (the windows a parser looks for are there,
missing or malformed; use is between 0 and 100 %) and `LogsAssumption` (a log is
finite and its rows have times):

* `NotTooEarly`: `Spec => []NeverTooEarly`;
* `NotMissed`: `Spec => []NeverMissed`;
* `ResetIsLast`: `Spec => []ResetWaits`;
* `PruneSafe`: `Spec => []PruneKeepsReads`.

*The argument.* A result is that of its input (`Outcomes`), so each theorem is one
about `Classify` or `PruneQuotaLog`. The verdict is proved parser by parser
(`CodexFair`, ..., `KimiFair`, `ClassifyFair`): where every window stops the account
alone, the one that is used most decides (`HottestDecides`), and Cursor's two pools,
Grok's balances and Kimi's merged statistics are cases of their own. The reset follows
from `LastResetOf`: the last of at most three resets. For pruning, `Newer` is a strict
total order of the rows (time, then rowid), a row that is not among the n newest has n
rows before it (`NewestAreBefore`), and so a query finds the same rows in any part of
a log that still holds them (`NewestInPart`); the third query reads the confirmed rows
only, which is why the pruning has to keep the newest of these as well.

`IntervalProofs.tla` proves, from the same assumptions and `SamplesAssumption` (samples are
numbers and a class; a use may be outside of 0 to 100 %, and times may go back):

* `AsksInTime`: `Spec => []InTime`;
* `ResultsTyped`: `Spec => []TypeOK`.

*The argument.* `usable` is a recursive function over the samples; that it returns
samples of a sensible use is shown by the first step at which it would not
(`CollectsExists`, `UsableType`), as the library's induction theorems cannot be used.
`SinceStart` identifies the code's search for the last drop with the first sample after
which there is none, and `AtRate` is the arithmetic: an integer division below the
estimate, times the use, is not above what is left. The types of the verdicts go parser
by parser again (`ClaudeOK`, ..., `ClassifyOK`).

The invariants of these proofs were checked with TLC before they were proved: those of
`LiveAccountProofs` in nine worlds with three pairs and two events, those of
`RotationDecisionProofs` in the instances of `rotation_one` and `rotation_pair`, those of
`QuotaProofs` in worlds with the events of `quota`, and that of `ClaudeFencingProofs` with any number
of events but those of `UndoesFencing`, on all states of one account with four pairs
(3,600,044) and of two accounts with two pairs each (1,933,050).

*Only model-checked*: of `LiveAccount`, `PointerFollows`, a liveness property; and every
other liveness property (liveness under fairness, and `ENABLED`, are beyond the proof
system). Every invariant and every action property that a run checks is a theorem.

## 6. Where the code and its documentation differ

1. **`rotation_half_released` - a half-finished release is never finished.** When
   the daemon dies after a runner confirmed a committed release and before
   `pending.json` is removed, or the answer to that release is lost, the next tick
   calls `Release("", false)`. The runner refuses a release that contradicts the
   first (409) on every tick; the drain never ends and the session never returns.
   `coordinator.go:184-185` says an empty generation cancels every outstanding one.
2. **`rotation_exit_race` - a session that leaves in time cancels the switch.**
   `TryApply` lists the live children, then may spend up to 45 seconds on quota
   requests. A child that exits for this switch in between makes `Prepare` fail
   (`coordinator.go:102-105`), and the sessions already gone are released without
   their continuation. No fault is needed. `README.md:87` and the comments at
   `app.go:2091-2093` and `run.go:322-327` say that this must not happen.
3. **`claude_stale_switch` - a spent pair comes back by a manual switch.** A
   keep-alive spent a parked account's pair and died before the vault had the
   successor. `switchLocked` loads the vault entry as it is (`app.go:499`), so a
   manual switch writes the spent pair into the live file, and the next recovery of
   the vault entry deletes the record that fenced it, because its `LivePath` is
   empty. `claude_recovery.go:279-281` says that old pairs remain fenced. The runs
   `claude_tokens` and `claude_tokens_live` leave this event out.
4. **`live_consumed` - a consumed pair replaces the newer one.** A renewal saves the
   new pair in the vault and then writes the login file. When that second write
   fails, the file keeps the consumed pair and the next capture saves it over the
   newer one. `kimi_live.go:98-99` says that this must never happen.

Met while modelling and without a run of their own:

* *A queued switch is queued again.* `considerSwitch` reads the queue (`app.go:1899`) and
  writes it (`app.go:1904`) without the tool lock. The worker and a web refresh may both
  find the live account used up and the queue empty; the worker queues the switch and its
  `TryApply` asks the provider; then the refresh queues the same accounts with a later
  `QueuedAt`. The sessions that prepared for the first generation are released and have to
  prepare again. `app.go:1897-1898` says that probing again must not restart a queued
  switch. TLC violates `QueueKept` (`MCQuota.tla`) with `quota.cfg`'s constants in the world
  `{"claude", "refresh"}`.
* *A throttling provider is asked before its deadline.* Whether a provider said "try again
  later" is read off the newest row of the log (`serverThrottled`, `app.go:1672-1675`). The
  keep-alive does not look at that deadline: a renewal that fails logs a row of its own
  (`app.go:1641`), and one that succeeds for an expired account clears the deadline
  (`app.go:1630-1632`). A request on demand then goes out before the time that
  `app.go:1690-1691` says it must wait for. TLC violates `NeverBeforeDeadline`
  (`MCQuota.tla`) in the world `{"codex", "probe", "throttled", "renews", "unused"}` with two
  failures. `DeadlineKept` is what remains true. A row of the tool's local log covers up
  the answer in the same way. A renewal that a probe tries itself is no way round the
  deadline, as the probe looks at it first (`DeadlineInv`).
* *A recovery that absorbs another record.* `beginClaudeRecovery` takes the old pairs of
  a record whose successor it is about to spend, and overwrites its `LivePath` with its
  own (`claude_recovery.go:115-134`), which is empty when the renewal is that of the
  vault entry. If the record was kept because the live file still holds one of its old
  pairs, then after the renewal it is deleted without the writeback, and the presented
  pair in the live file is fenced by nothing, though old pairs are to "remain fenced
  until a later safe writeback completes" (`claude_recovery.go:279-281`). It takes ten
  events and nine pairs of one account: two renewals that die after the
  record and before the vault write, one after the exchange, sign-ins of the same account
  between them, and a logout. TLC finds it in stages with the sequence of events fixed;
  the bounds of `claude_tokens` are far below. The proof shows that sign-ins of an account
  with a record pending are essential to it: without them it cannot happen at any length.
* *A save of what was captured before.* A capture reads the live file, asks the provider for
  the account, and saves the pair it read. If the CLI renews the pair and is logged out in
  between, the live file has neither pair, and the save writes the spent one over whatever
  the vault had, which may be a usable pair of the same account. The code looks at
  the live file once more before it saves, so the window is short; `KeepsLast` leaves it out.
* *A start without the lock.* After a failed exec, `run.go:964` starts Claude outside
  `claude.lock` while `Exited` is already visible, so a coordinator may write
  credentials under the new child. `coordinator.go:160` rules this out. Adding the
  event `"exec_fails"` to `rotation_pair.cfg` shows it.
* *A replaced switch is taken for a lost one.* `Prepare` releases the old generation
  and prepares the new one (`coordinator.go:79`) between two polls of the plugin,
  which then reports "changed generation without releasing" (`register.js:260-263`)
  and is not ready again until its session restarts.
* An overdue upgrade exit followed by a not-ready heartbeat clears the generation,
  and the session ends as an unmanaged one.
* `ErrRunnerUnavailable` in the last look of `switchLocked` cancels the switch, though
  elsewhere it means a retry.
* A failing quota lookup (`app.go:2109-2119`) releases the sessions and keeps the
  switch queued.
* A second held message is lost while the first one's request is pending
  (`register.js:209-212`).
* A line of a client's log is stored as an exhaustion of this moment when it is read
  (`app.go:1039`), however long the worker waited for the web server's
  requests before. If the account was reset in between, a switch leaves an account that
  has quota. With larger bounds than those of `quota` TLC finds it; `Evidence` therefore
  says nothing of the source where a log is read.
* Kimi: "Every exhausted window must reset before subscription use resumes." holds of
  one document, but not after the web statistics are merged into it: with the
  5-hour window and the monthly one both used up the earlier reset is kept.
  `ResetWaits` excludes that window.
* Outside of Codex, an exhausted account without a known reset is neither known nor
  due again between `IntervalMin` and its interval: a switch queued for it is
  cancelled and queued again.

## 7. Not modelled, and why

Left by the plan: the rollback of one snapshot restore (a restore is one step that
succeeds or fails as a whole in `ClaudeTokens` and `LiveAccount`), sign-in sessions
of the web server (a map entry that one goroutine completes; what a finished
sign-in does to the tokens is in `ClaudeTokens`), and the plugin's held messages
and drafts.

Not planned, because they have no states or interleavings that a model would tell
apart: the file formats, key stores and editor databases of the adapters;
encryption and the system key store; the process list and desktop control, whose
report is an input of the other modules; configuration, paths and identities; the
command line; migration and SQL of the state database; the deployment scripts,
whose one effect, a replaced binary, is an event of `Rotation`.
