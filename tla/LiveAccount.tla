------------------------------ MODULE LiveAccount ------------------------------
(***************************************************************************)
(* The live credentials of Codex, Grok or Kimi: what is captured from the  *)
(* official login file, what is written to it, and the pointer that says   *)
(* which account is in it.                                                 *)
(*                                                                         *)
(* Every operation of qswitch holds locks/<tool>.lock, so there is one     *)
(* `op` at a time.  The daemon's Ingest looks at the file before it waits  *)
(* for that lock.  The official client renews the pair in the file under a *)
(* lock of its own; an old process, left over from before a switch, writes *)
(* the pair it remembers without any.  The provider accepts a refresh      *)
(* token once.  A token pair is known by its account and number, the       *)
(* fingerprint of the file is the pair in it.                              *)
(***************************************************************************)
EXTENDS Naturals, FiniteSetsExt

CONSTANTS
  Accounts,    \* the accounts
  None,        \* no token, no account
  MaxIssued,   \* how many token pairs the provider issues in all, after the first
  Worlds,      \* a tool, and the events that may happen together
  MaxFaults    \* how many of them; clients, old processes and Forget apart

Tools == {"codex", "grok", "kimi"}
AllEvents ==
  { "client", "login", "logout", "old", "again", "race", "dies", "forget", "half" }

ASSUME LiveAssumption ==
  /\ Accounts # {} /\ None \notin Accounts
  /\ MaxIssued \in Nat /\ MaxFaults \in Nat
  /\ \A w \in Worlds : w \subseteq Tools \cup AllEvents /\ Cardinality(w \cap Tools) = 1

Token == [acct : Accounts, n : 1..(MaxIssued + 1)]
NoToken == [acct |-> None, n |-> 0]
Slot == Token \cup {NoToken}

(* state.Pointer: `to` and `window` are LastApplyTo and whether LastApplyAt is
   less than 60 seconds ago. *)
Pointer == [id : Accounts \cup {None}, to : Accounts \cup {None}, window : BOOLEAN, retries : 0..1]

VARIABLES
  world,   \* it never changes
  vault,   \* vault[a]: the token pair saved for account a
  live,    \* the token pair in the official login file
  pointer,
  auto,    \* automatic switching of the tool is on
  lastFP,  \* the daemon's last fingerprint
  selfFP,  \* the fingerprint of the last write of qswitch
  ing,     \* the daemon's Ingest
  op,      \* the operation that holds the tool lock
  client,  \* the official client runs
  old,     \* the pair an old process remembers
  valid,   \* the token pairs the provider still accepts
  issued,  \* issued[a]: how many it issued
  faults

vars == << world, vault, live, pointer, auto, lastFP, selfFP, ing, op, client, old, valid,
           issued, faults >>

tool == CHOOSE t \in Tools : t \in world

(* Ingest waits with the fingerprint it read, works under the lock, or waits
   to renew the account `id` the pointer left. *)
Quiet == [pc |-> "quiet", fp |-> NoToken, id |-> None]

(* What an operation remembers: `tok` and `id` the credentials it works on,
   `goal` the pair it will restore, `seen` its last look at the file, `lock`
   the official client's lock. *)
Idle ==
  [ pc |-> "idle", kind |-> "none", tok |-> NoToken, id |-> None, goal |-> NoToken,
    seen |-> NoToken, lock |-> FALSE ]

(* Every variable has its type. *)
TypeOK ==
  /\ world \in Worlds
  /\ vault \in [Accounts -> Slot] /\ {live, lastFP, selfFP, old} \subseteq Slot
  /\ pointer \in Pointer /\ auto \in BOOLEAN /\ client \in BOOLEAN
  /\ ing \in [pc : {"quiet", "waits", "runs", "parked"}, fp : Slot, id : Accounts \cup {None}]
  /\ op \in
       [ pc : {"idle", "capture", "verify", "save", "judge", "restore", "applied", "point",
               "revert", "reverted", "keep", "me", "reread", "auth", "exchange", "store",
               "writeback", "remember"},
         kind : {"none", "capture", "switch", "ingest", "keepalive", "parked"},
         tok : Slot, id : Accounts \cup {None}, goal : Slot, seen : Slot, lock : BOOLEAN ]
  /\ valid \subseteq Token /\ issued \in [Accounts -> 1..(MaxIssued + 1)] /\ faults \in 0..MaxFaults

First(a) == [acct |-> a, n |-> 1]

(* Every account was signed in once; one of them, whichever, is live and
   ingested. *)
Init ==
  /\ world \in Worlds
  /\ vault = [a \in Accounts |-> First(a)]
  /\ live = First(CHOOSE a \in Accounts : TRUE)
  /\ pointer = [id |-> live.acct, to |-> None, window |-> FALSE, retries |-> 0]
  /\ auto = TRUE /\ lastFP = live /\ selfFP = NoToken
  /\ ing = Quiet /\ op = Idle /\ client = FALSE /\ old = NoToken
  /\ valid = {First(a) : a \in Accounts}
  /\ issued = [a \in Accounts |-> 1] /\ faults = 0

-----------------------------------------------------------------------------
Spend(event) == event \in world /\ faults < MaxFaults /\ faults' = faults + 1

Provider == <<valid, issued>>
Outer == <<world, Provider, client, old, faults>>
Daemon == <<lastFP, selfFP, ing>>
Known(t) == t # NoToken

Step(pc) == op.pc = pc /\ UNCHANGED Outer
Goto(pc) == op' = [op EXCEPT !.pc = pc]

(* The operation ends and its locks are released; an Ingest ends with it. *)
Return ==
  /\ op' = Idle
  /\ ing' = IF op.kind \in {"ingest", "parked"} THEN Quiet ELSE ing
  /\ lastFP' = IF op.kind = "parked" THEN ing.fp ELSE lastFP

Total == MapThenSumSet(LAMBDA b : issued[b] - 1, Accounts)

(* The provider issues the next pair of account a and accepts `spent` no more.
   (MaxIssued bounds the sum, hence each account's number.) *)
Fresh(a) == [acct |-> a, n |-> issued[a] + 1]
Issue(a, spent) ==
  /\ issued[a] <= MaxIssued
  /\ Total < MaxIssued
  /\ issued' = [issued EXCEPT ![a] = @ + 1]
  /\ valid' = (valid \ {spent}) \cup {Fresh(a)}

-----------------------------------------------------------------------------
(* Ingest, before it has the lock *)

(* The daemon looks at the fingerprint; its own writes are taken as seen. *)
IngestLook ==
  /\ ing.pc = "quiet" /\ Known(live) /\ live # lastFP
  /\ IF live = selfFP
     THEN lastFP' = live /\ UNCHANGED ing
     ELSE ing' = [Quiet EXCEPT !.pc = "waits", !.fp = live] /\ UNCHANGED lastFP
  /\ UNCHANGED <<Outer, vault, live, pointer, auto, selfFP, op>>

IngestLock ==
  /\ Step("idle") /\ ing.pc = "waits"
  /\ ing' = [ing EXCEPT !.pc = "runs"]
  /\ op' = [Idle EXCEPT !.pc = "capture", !.kind = "ingest"]
  /\ UNCHANGED <<vault, live, pointer, auto, lastFP, selfFP>>

-----------------------------------------------------------------------------
(* Other operations get the lock *)

StartCapture ==
  /\ Step("idle") /\ op' = [Idle EXCEPT !.pc = "capture", !.kind = "capture"]
  /\ UNCHANGED <<vault, live, pointer, auto, Daemon>>

(* switchLocked: the target is loaded, the client stopped.  A client may start
   again, and an old process may have been overlooked. *)
StartSwitch(a) ==
  /\ op.pc = "idle" /\ Known(vault[a])
  /\ op' = [Idle EXCEPT !.pc = "capture", !.kind = "switch", !.goal = vault[a]]
  /\ client' = FALSE
  /\ UNCHANGED <<world, Provider, old, faults, vault, live, pointer, auto, Daemon>>

(* A keep-alive of one account, or a probe that renews it first. *)
StartKeepAlive(a) ==
  /\ Step("idle") /\ Known(vault[a])
  /\ op' = [Idle EXCEPT !.pc = "keep", !.kind = "keepalive", !.tok = vault[a], !.id = a]
  /\ UNCHANGED <<vault, live, pointer, auto, Daemon>>

(* refreshParkedCodex, after Ingest released the lock *)
StartParked ==
  /\ Step("idle") /\ ing.pc = "parked"
  /\ IF Known(vault[ing.id])
     THEN /\ op' = [Idle EXCEPT !.pc = "keep", !.kind = "parked", !.tok = vault[ing.id],
                                !.id = ing.id]
          /\ UNCHANGED <<ing, lastFP>>
     ELSE op' = op /\ ing' = Quiet /\ lastFP' = ing.fp
  /\ UNCHANGED <<vault, live, pointer, auto, selfFP>>

(* Forget refuses the account the pointer names. *)
Forget(a) ==
  /\ op.pc = "idle" /\ Known(vault[a]) /\ pointer.id # a /\ "forget" \in world
  /\ vault' = [vault EXCEPT ![a] = NoToken]
  /\ UNCHANGED <<Outer, live, pointer, auto, Daemon, op>>

-----------------------------------------------------------------------------
(* captureBlobs and the save of what was captured *)

(* A switch goes on without a login to save. *)
CaptureRead ==
  /\ Step("capture") /\ UNCHANGED <<vault, live, pointer, auto, selfFP>>
  /\ IF Known(live)
     THEN /\ op' = [op EXCEPT !.tok = live, !.pc = IF tool = "kimi" THEN "verify" ELSE "save"]
          /\ UNCHANGED <<ing, lastFP>>
     ELSE IF op.kind = "switch" THEN Goto("restore") /\ UNCHANGED <<ing, lastFP>>
     ELSE Return

(* enrichKimiCapture: /me names the account, and the file has not changed. *)
Verified ==
  /\ Step("verify") /\ live = op.tok /\ Goto("save")
  /\ UNCHANGED <<vault, live, pointer, auto, Daemon>>

(* Mutated form: a failed capture counts as seen. *)
NotVerified_seen ==
  /\ Step("verify") /\ op' = Idle
  /\ ing' = IF op.kind = "ingest" THEN Quiet ELSE ing
  /\ lastFP' = IF op.kind = "ingest" THEN ing.fp ELSE lastFP
  /\ UNCHANGED <<vault, live, pointer, auto, selfFP>>

NotVerified ==
  /\ Step("verify") /\ Return /\ UNCHANGED <<vault, live, pointer, auto, selfFP>>

(* Mutated form: what was captured is saved for the account the pointer
   names. *)
SavedAs_pointer(t) == IF pointer.id = None THEN t.acct ELSE pointer.id

(* The account credentials are saved for is the one they name. *)
SavedAs(t) == t.acct

(* Mutated form: the target loaded before the capture is restored. *)
Target_loaded == op.goal

(* A switch to the captured account restores what was captured. *)
Target == IF op.goal.acct = op.tok.acct THEN op.tok ELSE op.goal

(* saveBlob, and the pointer of `qswitch capture`. *)
Save ==
  /\ Step("save") /\ vault' = [vault EXCEPT ![SavedAs(op.tok)] = op.tok]
  /\ CASE op.kind = "capture" -> Return /\ pointer' = [pointer EXCEPT !.id = op.tok.acct]
       [] op.kind = "switch" ->
            op' = [op EXCEPT !.pc = "restore", !.goal = Target] /\ UNCHANGED <<pointer, ing, lastFP>>
       [] OTHER -> Goto("judge") /\ UNCHANGED <<pointer, ing, lastFP>>
  /\ UNCHANGED <<live, auto, selfFP>>

-----------------------------------------------------------------------------
(* switchLocked, the write *)

(* MergeLiveTokens: Codex and Grok take the newest pair of the same account
   from the file. *)
Merged(t) == IF tool # "kimi" /\ live.acct = t.acct THEN live ELSE t

(* A process that uses the account may be overlooked and stay behind. *)
Restore ==
  /\ op.pc = "restore"
  /\ live' = Merged(op.goal) /\ Goto("applied")
  /\ old' \in IF "old" \in world THEN {old, live} ELSE {old}
  /\ UNCHANGED <<world, Provider, client, faults, vault, pointer, auto, Daemon>>

(* rememberFP; in a process other than the daemon only the database remembers
   the fingerprint. *)
Applied ==
  /\ Step("applied") /\ Goto("point")
  /\ selfFP' = live /\ lastFP' \in {live, lastFP}
  /\ UNCHANGED <<vault, live, pointer, auto, ing>>

(* SetPointer *)
Pointed ==
  /\ Step("point") /\ op' = Idle
  /\ pointer' = [id |-> op.goal.acct, to |-> op.goal.acct, window |-> TRUE, retries |-> 0]
  /\ UNCHANGED <<vault, live, auto, Daemon>>

-----------------------------------------------------------------------------
(* Ingest, after the save *)

(* Mutated form: the account is remembered in place of the fingerprint. *)
Seen_account(prev) ==
  op' = Idle /\ ing' = Quiet /\ lastFP' = op.tok.acct

(* Ingest ends with the fingerprint it read first; Codex renews the account
   that was left, under the lock taken anew. *)
Seen(prev) ==
  /\ op' = Idle
  /\ IF tool = "codex" /\ prev \notin {None, op.tok.acct}
     THEN ing' = [ing EXCEPT !.pc = "parked", !.id = prev] /\ UNCHANGED lastFP
     ELSE ing' = Quiet /\ lastFP' = ing.fp

Expected == pointer.id \in {None, op.tok.acct}

JudgeSame ==
  /\ Step("judge") /\ Expected
  /\ pointer' = [pointer EXCEPT !.id = op.tok.acct] /\ Seen(pointer.id)
  /\ UNCHANGED <<vault, live, auto, selfFP>>

(* The first writeback after a switch is reverted, to the snapshot in the
   vault. *)
JudgeRevert ==
  /\ Step("judge") /\ ~Expected /\ pointer.window /\ pointer.retries = 0
  /\ IF Known(vault[pointer.to])
     THEN op' = [op EXCEPT !.pc = "revert", !.goal = vault[pointer.to]]
          /\ UNCHANGED <<auto, ing, lastFP>>
     ELSE auto' = FALSE /\ Return
  /\ UNCHANGED <<vault, live, pointer, selfFP>>

Revert ==
  /\ Step("revert") /\ live' = op.goal /\ Goto("reverted")
  /\ UNCHANGED <<vault, pointer, auto, Daemon>>

Reverted ==
  /\ Step("reverted") /\ op' = Idle /\ ing' = Quiet
  /\ pointer' = [pointer EXCEPT !.retries = 1]
  /\ selfFP' = live /\ lastFP' = live /\ UNCHANGED <<vault, live, auto>>

(* The second one turns automatic switching off. *)
JudgeDisable ==
  /\ Step("judge") /\ ~Expected /\ pointer.window /\ pointer.retries = 1
  /\ auto' = FALSE /\ Seen(pointer.id) /\ UNCHANGED <<vault, live, pointer, selfFP>>

(* A login of another account is adopted. *)
JudgeAdopt ==
  /\ Step("judge") /\ ~Expected /\ ~pointer.window
  /\ pointer' = [pointer EXCEPT !.id = op.tok.acct, !.retries = 0]
  /\ Seen(pointer.id) /\ UNCHANGED <<vault, live, auto, selfFP>>

-----------------------------------------------------------------------------
(* Renewal *)

KeepUnchanged == UNCHANGED <<vault, live, pointer, auto, selfFP>>

(* The tokens are not due, the service does not answer, the account is in
   backoff, a lock is not free, or a client renews the live account. *)
KeepLeaves ==
  /\ op.pc \in {"keep", "me", "auth"} /\ UNCHANGED Outer /\ Return /\ KeepUnchanged

(* keepAliveKimiLocked: only the stored tokens, or /me, tell whether the
   account is live. *)
KeepKimi ==
  /\ Step("keep") /\ tool = "kimi" /\ KeepUnchanged /\ UNCHANGED <<ing, lastFP>>
  /\ op' = [op EXCEPT !.seen = live,
              !.pc = CASE live = op.tok -> "auth" [] Known(live) /\ live # op.tok -> "me"
                       [] OTHER -> "reread"]

Me ==
  /\ Step("me") /\ KeepUnchanged /\ UNCHANGED <<ing, lastFP>>
  /\ Goto(IF op.seen.acct = op.id THEN "auth" ELSE "reread")

(* A parked account: the file is read again before its token is spent. *)
Reread ==
  /\ Step("reread") /\ KeepUnchanged
  /\ IF live = op.seen THEN Goto("exchange") /\ UNCHANGED <<ing, lastFP>> ELSE Return

(* keepAliveGrokLocked: the file names its account. *)
KeepGrok ==
  /\ Step("keep") /\ tool = "grok" /\ KeepUnchanged /\ UNCHANGED <<ing, lastFP>>
  /\ op' = [op EXCEPT !.seen = live, !.pc = IF live.acct = op.id THEN "auth" ELSE "exchange"]

(* keepAliveCodexLocked: a live account is left to its client. *)
KeepCodex ==
  /\ Step("keep") /\ tool = "codex" /\ KeepUnchanged
  /\ IF live.acct = op.id THEN Return ELSE Goto("exchange") /\ UNCHANGED <<ing, lastFP>>

(* Mutated form: the pair read before the lock was taken is spent. *)
AuthLock_stale ==
  /\ Step("auth") /\ ~client /\ KeepUnchanged /\ UNCHANGED <<ing, lastFP>>
  /\ op' = [op EXCEPT !.pc = "exchange", !.tok = op.seen, !.lock = TRUE]

(* keepAliveLiveKimiLocked and keepAliveLiveGrokLocked: under the client's
   lock the file is read again; Kimi refuses a pair it has not verified, Grok
   takes the new pair of the same account. *)
AuthLock ==
  /\ Step("auth") /\ ~client /\ KeepUnchanged /\ UNCHANGED <<ing, lastFP>>
  /\ IF tool = "kimi" THEN live = op.seen ELSE live.acct = op.id
  /\ op' = [op EXCEPT !.pc = "exchange", !.tok = live, !.seen = live, !.lock = TRUE]

(* The provider accepts the pair, or refuses it. *)
Exchange ==
  /\ op.pc = "exchange" /\ UNCHANGED <<world, client, old, faults>> /\ KeepUnchanged
  /\ \/ /\ op.tok \in valid /\ Issue(op.tok.acct, op.tok)
        /\ op' = [op EXCEPT !.pc = "store", !.tok = Fresh(op.tok.acct)]
        /\ UNCHANGED <<ing, lastFP>>
     \/ Return /\ UNCHANGED Provider

(* The new pair is saved first. *)
Store ==
  /\ Step("store") /\ vault' = [vault EXCEPT ![op.id] = op.tok]
  /\ IF op.lock THEN Goto("writeback") /\ UNCHANGED <<ing, lastFP>> ELSE Return
  /\ UNCHANGED <<live, pointer, auto, selfFP>>

(* The file is written if it still holds the pair that was spent. *)
Writeback ==
  /\ Step("writeback") /\ UNCHANGED <<vault, pointer, auto, selfFP>>
  /\ IF live = op.seen
     THEN live' = op.tok /\ Goto("remember") /\ UNCHANGED <<ing, lastFP>>
     ELSE Return /\ UNCHANGED live

(* The client's lock was lost, or the write fails. *)
WritebackFails ==
  /\ op.pc = "writeback" /\ Spend("half") /\ Return
  /\ UNCHANGED <<world, Provider, client, old>> /\ KeepUnchanged

Remember ==
  /\ Step("remember") /\ op' = Idle
  /\ selfFP' = live /\ lastFP' \in {live, lastFP}
  /\ UNCHANGED <<vault, live, pointer, auto, ing>>

-----------------------------------------------------------------------------
(* The outside *)

Outside == UNCHANGED <<world, vault, pointer, auto, Daemon, op>>

(* Whether others may write between a write of qswitch and the look at its
   fingerprint. *)
MayWrite == op.pc \in {"applied", "reverted", "remember"} => "race" \in world

ClientStart ==
  /\ ~client /\ "client" \in world /\ client' = TRUE
  /\ Outside /\ UNCHANGED <<Provider, live, old, faults>>
ClientExit ==
  /\ client /\ client' = FALSE /\ Outside /\ UNCHANGED <<Provider, live, old, faults>>

(* The client renews the pair in the file, under its lock. *)
ClientRenews ==
  /\ client /\ MayWrite /\ ~op.lock /\ live \in valid
  /\ Issue(live.acct, live) /\ live' = Fresh(live.acct)
  /\ Outside /\ UNCHANGED <<client, old, faults>>

Login(a) ==
  /\ MayWrite /\ Spend("login") /\ Issue(a, NoToken) /\ live' = Fresh(a)
  /\ Outside /\ UNCHANGED <<client, old>>

Logout ==
  /\ MayWrite /\ Known(live) /\ Spend("logout") /\ live' = NoToken
  /\ Outside /\ UNCHANGED <<Provider, client, old>>

(* An old process renews the pair it remembers, and writes it; or it does not
   renew, and writes the pair as it is. *)
OldRenews ==
  /\ MayWrite /\ old \in valid /\ "again" \notin world
  /\ Issue(old.acct, old) /\ old' = Fresh(old.acct) /\ live' = old'
  /\ Outside /\ UNCHANGED <<client, faults>>
OldWrites ==
  /\ MayWrite /\ Known(old) /\ live # old /\ Spend("again") /\ live' = old
  /\ Outside /\ UNCHANGED <<Provider, client, old>>

(* A minute after the switch *)
WindowEnds ==
  /\ pointer.window /\ pointer' = [pointer EXCEPT !.window = FALSE]
  /\ UNCHANGED <<Outer, vault, live, auto, Daemon, op>>

(* The daemon dies, and the operation with it. *)
Dies ==
  /\ Spend("dies") /\ op' = Idle /\ ing' = Quiet /\ lastFP' = NoToken
  /\ UNCHANGED <<world, Provider, client, old, vault, live, pointer, auto, selfFP>>

-----------------------------------------------------------------------------
Apply ==
  \/ CaptureRead \/ NotVerified \/ Save \/ Restore \/ Applied \/ Pointed
  \/ JudgeSame \/ JudgeRevert \/ Revert \/ Reverted \/ JudgeDisable \/ JudgeAdopt

Renew ==
  \/ KeepLeaves \/ KeepKimi \/ Me \/ Reread \/ KeepGrok \/ KeepCodex \/ AuthLock
  \/ Exchange \/ Store \/ Writeback \/ Remember

Next ==
  \/ IngestLook \/ IngestLock \/ Verified \/ Apply \/ Renew \/ WritebackFails
  \/ StartCapture \/ StartParked
  \/ \E a \in Accounts : StartSwitch(a) \/ StartKeepAlive(a) \/ Forget(a) \/ Login(a)
  \/ ClientStart \/ ClientExit \/ ClientRenews \/ Logout
  \/ OldRenews \/ OldWrites \/ WindowEnds \/ Dies

Spec == Init /\ [][Next]_vars

(* The lock holder goes on, the daemon keeps looking, gets the lock among
   others, and the service confirms a login in the end. *)
FairSpec ==
  /\ Spec
  /\ WF_vars(Apply \/ Renew) /\ WF_vars(IngestLook)
  /\ SF_vars(IngestLock) /\ SF_vars(StartParked) /\ SF_vars(Verified)

-----------------------------------------------------------------------------
(* Properties *)

Holds(v, l) == {l} \cup {v[a] : a \in Accounts}

(* The provider accepts a pair of account a that the vault or the file
   holds. *)
Held(a) == \E t \in valid \cap Holds(vault, live) : t.acct = a

(* No operation is cut off, and no process writes a pair again that it did not
   renew. *)
Steady == world \cap {"dies", "half", "again"} = {}

(* qswitch decides to spend a refresh token only if the provider accepts it, or
   nobody has a better one of the account: not one the client has spent, or an
   earlier renewal.  Without crashes, lost writes and stale rewrites. *)
NoDoubleSpend ==
  [][ op'.pc = "exchange" /\ op.pc # "exchange" /\ Steady
      => op'.tok \in valid \/ ~Held(op'.id) ]_vars

(* No step of qswitch drops the last good pair of an account.  (Left out: a
   login of another account, or an old process, that wrote the file after the
   capture and before the save or the restore; and a spent pair that stays in
   the file, or is put back there.) *)
NewestKept ==
  [][ /\ op' # op /\ valid' = valid /\ Steady
      /\ op.pc = "save" => live.acct = op.tok.acct
      /\ op.pc \in {"restore", "revert"} => live = op.tok
      => \A a \in Accounts : Held(a) => Held(a)' ]_vars

(* A switch, a revert or a renewal never leaves a spent pair in the official
   login file while a good one of the account is stored. *)
LiveNewest ==
  [][ op' # op /\ live' # live
      => live' \in valid' \/ \A a \in Accounts : live'.acct = a => ~Held(a)' ]_vars

(* A login ends up as the account of the pointer, or automatic switching is
   turned off, unless the file holds what qswitch wrote last: that Ingest never
   looks at.  (Left out: an old process that writes the same bytes again, and
   a write between a write of qswitch and the look at its fingerprint.) *)
PointerFollows ==
  world \cap {"again", "race"} = {}
    => []<>(~Known(live) \/ live = selfFP \/ pointer.id = live.acct \/ ~auto)

(* A consumed token never replaces a newer vault snapshot. *)
NeverBackToSpent ==
  [][ \A a \in Accounts : vault'[a] # vault[a] => vault'[a] \in valid' ]_vars
=============================================================================
