----------------------------- MODULE ClaudeTokens -----------------------------
(***************************************************************************)
(* The refresh tokens of Claude accounts.                                  *)
(*                                                                         *)
(* The provider accepts a refresh token once and answers with its          *)
(* successor.  qswitch keeps the tokens of every account in its vault, the *)
(* official CLI keeps those of one account in the live credentials file,   *)
(* and each of them renews its own copy.  Before qswitch spends a token it *)
(* writes a recovery record; the record keeps the spent tokens fenced off, *)
(* and later the successor, until the vault and the live file hold it.     *)
(*                                                                         *)
(* All operations of qswitch hold locks/claude.lock, so there is one `op`  *)
(* at a time; the CLI takes no part in that lock.  A token pair is known   *)
(* by its account and its number.                                          *)
(***************************************************************************)
EXTENDS Naturals, FiniteSets

CONSTANTS
  Accounts,    \* the accounts
  None,        \* no token, no account
  MaxTokens,   \* how many token pairs the provider issues for an account
  Events,      \* which of the events below may happen
  MaxFaults    \* how many of them

AllEvents == {"fails", "cli", "rotate", "login", "logout", "enroll", "stale_switch"}

ASSUME TokensAssumption ==
  /\ None \notin Accounts
  /\ MaxTokens \in Nat \ {0} /\ MaxFaults \in Nat
  /\ Events \subseteq AllEvents

Token == [acct : Accounts, n : 1..MaxTokens]
NoToken == [acct |-> None, n |-> 0]
Slot == Token \cup {NoToken}

(* claudeRecovery: `new` is NoToken while the outcome of the exchange is
   unknown, `path` says whether the live file is written back. *)
Record == [old : SUBSET Token, new : Slot, acct : Accounts \cup {None}, path : BOOLEAN]

VARIABLES
  vault,   \* vault[a]: the token pair saved for account a
  live,    \* the token pair in the live credentials file
  recs,    \* the recovery records
  cli,     \* a Claude process runs
  op,      \* the operation that holds claude.lock
  valid,   \* the token pairs the provider still accepts
  issued,  \* issued[a]: how many it issued
  sent,    \* the token pairs qswitch presented for an exchange
  faults

vars == <<vault, live, recs, cli, op, valid, issued, sent, faults>>

NoRecord == [old |-> {}, new |-> NoToken, acct |-> None, path |-> FALSE]

(* What the operation in progress remembers: `next` is where it goes on after
   a recovery, `goal` the pair a switch will restore, `tok` and `id` the
   credentials it works on, `path` whether they are the live ones, `seen` its
   last look at the live file, `todo` the records it has not compared yet,
   `rec` the record it works on. *)
Idle ==
  [ pc |-> "idle", next |-> "idle", kind |-> "none", goal |-> NoToken, tok |-> NoToken,
    id |-> None, seen |-> NoToken, path |-> FALSE, todo |-> {}, rec |-> NoRecord ]

(* Every variable has its type. *)
TypeOK ==
  /\ vault \in [Accounts -> Slot] /\ live \in Slot /\ cli \in BOOLEAN
  /\ \A r \in recs \cup op.todo \cup {op.rec} :
       r.old \subseteq Token /\ r.new \in Slot /\ r.acct \in Accounts \cup {None}
         /\ r.path \in BOOLEAN
  /\ op.pc \in {"idle", "recover", "writeback", "rewrite", "recovered", "refresh",
                "intent", "exchange", "store", "capture", "profile", "save", "restore"}
  /\ op.next \in {"idle", "refresh", "capture", "profile"}
  /\ op.kind \in {"none", "keepalive", "capture", "switch", "enroll"}
  /\ {op.goal, op.tok, op.seen} \subseteq Slot
  /\ op.id \in Accounts \cup {None} /\ op.path \in BOOLEAN
  /\ valid \subseteq Token /\ sent \subseteq Token
  /\ issued \in [Accounts -> 0..MaxTokens] /\ faults \in 0..MaxFaults

(* Every account was signed in once; one of them is the live one. *)
First(a) == [acct |-> a, n |-> 1]

Init ==
  /\ vault = [a \in Accounts |-> First(a)]
  /\ live \in {First(a) : a \in Accounts}
  /\ recs = {} /\ cli = FALSE /\ op = Idle
  /\ valid = {First(a) : a \in Accounts}
  /\ issued = [a \in Accounts |-> 1]
  /\ sent = {} /\ faults = 0

-----------------------------------------------------------------------------
Spend(event) == event \in Events /\ faults < MaxFaults /\ faults' = faults + 1

Provider == <<valid, issued>>
Stores == <<vault, live, recs>>

(* A step of the operation, and an event of the outside. *)
Step(pc) == op.pc = pc /\ UNCHANGED <<cli, issued, valid, sent, faults>>
Outside == UNCHANGED <<vault, recs, op, sent>>

Known(t) == t # NoToken
Consumed(t) == \E r \in recs : t \in r.old

(* The provider issues the next pair of account a; `spent` is accepted no
   more. *)
Fresh(a) == [acct |-> a, n |-> issued[a] + 1]

Issue(a, spent) ==
  /\ issued[a] < MaxTokens
  /\ issued' = [issued EXCEPT ![a] = @ + 1]
  /\ valid' = (valid \ {spent}) \cup {Fresh(a)}

Return == op' = Idle
Goto(pc) == op' = [op EXCEPT !.pc = pc]
Recover(o, next) == [o EXCEPT !.pc = "recover", !.next = next, !.todo = recs]

-----------------------------------------------------------------------------
(* Operations begin when they get the tool lock. *)

(* keepAliveClaudeAccounts, and a quota probe of one account. *)
StartKeepAlive(a) ==
  /\ Step("idle") /\ Known(vault[a])
  /\ op' = Recover([Idle EXCEPT !.kind = "keepalive", !.tok = vault[a], !.id = a],
                   "refresh")
  /\ UNCHANGED Stores

(* `qswitch capture`, or Ingest after the live file changed. *)
StartCapture ==
  /\ Step("idle")
  /\ op' = Recover([Idle EXCEPT !.kind = "capture"], "capture")
  /\ UNCHANGED Stores

(* switchLocked: the target is loaded, then the current account is captured.
   The daemon probes a target before it switches, which recovers it; a manual
   switch loads it as it is.  Only managed sessions block it: any other CLI
   may run. *)
StartSwitch(a) ==
  /\ op.pc = "idle" /\ Known(vault[a])
  /\ IF Consumed(vault[a]) THEN Spend("stale_switch") ELSE UNCHANGED faults
  /\ op' = Recover([Idle EXCEPT !.kind = "switch", !.goal = vault[a]], "capture")
  /\ UNCHANGED <<Stores, Provider, cli, sent>>

(* enrollClaudeBlob: an isolated sign-in, with tokens of its own. *)
StartEnroll(a) ==
  /\ op.pc = "idle" /\ Spend("enroll") /\ Issue(a, NoToken)
  /\ op' = [Idle EXCEPT !.pc = "save", !.kind = "enroll", !.tok = Fresh(a),
                        !.id = a, !.todo = recs]
  /\ UNCHANGED <<Stores, cli, sent>>

(* The process dies, an answer is lost, or a write fails and every caller
   returns: what is durable stays as it is. *)
Fails ==
  /\ op.pc # "idle" /\ Spend("fails") /\ Return
  /\ UNCHANGED <<Stores, Provider, cli, sent>>

-----------------------------------------------------------------------------
(* recoverClaudeLocked *)

(* Compared with a record are the credentials the operation works on; before a
   capture, those in the live file, if the record is about that file. *)
Selects(r) ==
  LET selected == IF op.next = "capture" THEN live ELSE op.tok
  IN /\ op.next = "capture" => r.path
     /\ Known(selected)
     /\ selected \in r.old \/ selected = r.new

RecoverSkip(r) ==
  /\ Step("recover") /\ r \in op.todo /\ ~Selects(r)
  /\ op' = [op EXCEPT !.todo = @ \ {r}] /\ UNCHANGED Stores

(* The vault holds nothing newer than the record. *)
Recoverable(r) ==
  /\ Known(r.new)
  /\ r.acct # None => vault[r.acct] \in r.old \cup {r.new, NoToken}

(* The outcome is unknown, or the vault holds a newer login. *)
RecoverRefused(r) ==
  /\ Step("recover") /\ r \in op.todo /\ Selects(r) /\ ~Recoverable(r)
  /\ Return /\ UNCHANGED Stores

(* Mutated form: the account is not saved. *)
RecoverSave_unsaved(r) ==
  /\ Step("recover") /\ r \in op.todo /\ Selects(r) /\ Recoverable(r)
  /\ op' = [op EXCEPT !.pc = "writeback", !.rec = r]
  /\ UNCHANGED Stores

(* An account whose identity was verified is saved first. *)
RecoverSave(r) ==
  /\ Step("recover") /\ r \in op.todo /\ Selects(r) /\ Recoverable(r)
  /\ vault' = [a \in Accounts |-> IF a = r.acct THEN r.new ELSE vault[a]]
  /\ op' = [op EXCEPT !.pc = "writeback", !.rec = r]
  /\ UNCHANGED <<live, recs>>

(* Mutated form: while a CLI runs the writeback is skipped. *)
Writeback_skips ==
  /\ Step("writeback") /\ UNCHANGED Stores
  /\ IF op.rec.path /\ live \in op.rec.old /\ ~cli
     THEN op' = [op EXCEPT !.pc = "rewrite", !.seen = live]
     ELSE Goto("recovered")

(* writeClaudeRecoveryLive: a logout, a foreign login or a writeback already
   done is left alone; while a CLI runs the writeback stays pending. *)
Writeback ==
  /\ Step("writeback") /\ UNCHANGED Stores
  /\ IF op.rec.path /\ live \in op.rec.old
     THEN op' = IF cli THEN Idle ELSE [op EXCEPT !.pc = "rewrite", !.seen = live]
     ELSE Goto("recovered")

(* Mutated form: the file is not read again before it is written. *)
Rewrite_blind ==
  /\ Step("rewrite") /\ UNCHANGED <<vault, recs>>
  /\ IF cli THEN Return /\ UNCHANGED live
     ELSE live' = op.rec.new /\ Goto("recovered")

(* The last look at the processes and at the file, and the rename. *)
Rewrite ==
  /\ Step("rewrite") /\ UNCHANGED <<vault, recs>>
  /\ IF cli \/ live # op.seen THEN Return /\ UNCHANGED live
     ELSE live' = op.rec.new /\ Goto("recovered")

(* Mutated form: the record is never deleted. *)
Recovered_kept ==
  /\ Step("recovered")
  /\ op' = [op EXCEPT !.pc = "recover", !.todo = @ \ {op.rec}, !.rec = NoRecord,
                      !.tok = IF op.next = "capture" THEN @ ELSE op.rec.new]
  /\ UNCHANGED Stores

(* Credentials of an account not verified yet stay quarantined. *)
Recovered ==
  /\ Step("recovered")
  /\ recs' = IF op.rec.acct = None THEN recs ELSE recs \ {op.rec}
  /\ op' = [op EXCEPT !.pc = "recover", !.todo = @ \ {op.rec}, !.rec = NoRecord,
                      !.tok = IF op.next = "capture" THEN @ ELSE op.rec.new]
  /\ UNCHANGED <<vault, live>>

RecoverDone ==
  /\ Step("recover") /\ op.todo = {}
  /\ op' = IF op.next = "idle" THEN Idle ELSE [op EXCEPT !.pc = op.next]
  /\ UNCHANGED Stores

-----------------------------------------------------------------------------
(* keepAliveClaudeLocked and keepAliveLiveClaudeLocked *)

(* The access token has not expired, the account is in backoff, or a running
   CLI renews the live account itself. *)
NotDue == Step("refresh") /\ Return /\ UNCHANGED Stores

(* The first look: the account is the live one, or a parked one. *)
Look ==
  /\ Step("refresh")
  /\ \/ live = op.tok /\ ~cli
     \/ live # op.tok /\ op.kind = "keepalive"
  /\ op' = [op EXCEPT !.pc = "intent", !.seen = live, !.path = (live = op.tok)]
  /\ UNCHANGED Stores

(* Mutated form: a pair whose outcome is unknown is tried again. *)
Intent_retries ==
  /\ Step("intent")
  /\ LET t == op.tok
         known == {r \in recs : r.new = t \/ t \in r.old}
         begun(r) == [old |-> r.old \cup {t}, new |-> NoToken, acct |-> op.id,
                      path |-> op.path]
     IN IF live # op.seen \/ (op.path /\ cli)
        THEN Return /\ UNCHANGED Stores
        ELSE \E r \in IF known = {} THEN {NoRecord} ELSE known :
               /\ recs' = (recs \ {r}) \cup {begun(r)}
               /\ op' = [op EXCEPT !.pc = "exchange", !.rec = begun(r)]
               /\ UNCHANGED <<vault, live>>

(* The last look, and beginClaudeRecovery: a consumed pair is refused, and the
   intent is durable before the exchange. *)
Intent ==
  /\ Step("intent")
  /\ LET t == op.tok
         known == {r \in recs : r.new = t}
         begun(r) == [old |-> r.old \cup {t}, new |-> NoToken, acct |-> op.id,
                      path |-> op.path]
     IN IF live # op.seen \/ (op.path /\ cli) \/ Consumed(t)
        THEN Return /\ UNCHANGED Stores
        ELSE \E r \in IF known = {} THEN {NoRecord} ELSE known :
               /\ recs' = (recs \ {r}) \cup {begun(r)}
               /\ op' = [op EXCEPT !.pc = "exchange", !.rec = begun(r)]
               /\ UNCHANGED <<vault, live>>

(* ClaudeRefresh: the provider accepts the pair, or refuses it. *)
Exchange ==
  /\ op.pc = "exchange" /\ sent' = sent \cup {op.tok}
  /\ UNCHANGED <<Stores, cli, faults>>
  /\ \/ /\ op.tok \in valid /\ Issue(op.tok.acct, op.tok)
        /\ op' = [op EXCEPT !.pc = "store", !.tok = Fresh(op.tok.acct)]
     \/ Return /\ UNCHANGED Provider

(* The successor is durable before the account or the live file is written. *)
Store ==
  /\ Step("store")
  /\ recs' = (recs \ {op.rec}) \cup {[op.rec EXCEPT !.new = op.tok]}
  /\ op' = [op EXCEPT !.pc = "recover", !.rec = NoRecord, !.todo = recs',
                      !.next = IF op.kind = "keepalive" THEN "idle" ELSE "profile"]
  /\ UNCHANGED <<vault, live>>

-----------------------------------------------------------------------------
(* captureBlobs with enrichClaudeCapture and renewClaudeCapture *)

CaptureRead ==
  /\ Step("capture") /\ UNCHANGED Stores
  /\ op' = CASE Known(live) -> [op EXCEPT !.pc = "profile", !.tok = live]
             [] op.kind = "switch" /\ ~Known(live) -> [op EXCEPT !.pc = "restore"]
             [] OTHER -> Idle

(* The profile names the account and the live file still holds the pair; the
   service is not available; or the access token is rejected, and the pair
   is renewed once with no identity. *)
Profile ==
  /\ Step("profile") /\ UNCHANGED Stores
  /\ \/ /\ live = op.tok
        /\ op' = [op EXCEPT !.pc = "save", !.id = op.tok.acct, !.todo = recs]
     \/ Return
     \/ op.next = "capture" /\ Goto("refresh")

-----------------------------------------------------------------------------
(* saveClaudeBlob: every save of an account passes here. *)

(* A record of the account, or of the pair, takes the pair as its successor. *)
Supersede(r) ==
  IF r.new = op.tok \/ r.acct = op.id
  THEN [r EXCEPT !.old = IF r.new \in {op.tok, NoToken} THEN @ ELSE @ \cup {r.new},
                 !.new = op.tok, !.acct = op.id]
  ELSE r

SaveRecord(r) ==
  /\ Step("save") /\ r \in op.todo /\ UNCHANGED <<vault, live>>
  /\ IF op.tok \in r.old
     THEN Return /\ UNCHANGED recs
     ELSE /\ recs' = (recs \ {r}) \cup {Supersede(r)}
          /\ op' = [op EXCEPT !.todo = @ \ {r}]

(* Mutated form: the recovery record is saved in place of the account. *)
Save_record ==
  /\ Step("save") /\ op.todo = {}
  /\ vault' = [vault EXCEPT ![op.id] = op.rec]
  /\ op' = IF op.kind = "switch" THEN [op EXCEPT !.pc = "restore"] ELSE Idle
  /\ UNCHANGED <<live, recs>>

(* A switch to the account just captured restores what was captured. *)
Save ==
  /\ Step("save") /\ op.todo = {}
  /\ vault' = [vault EXCEPT ![op.id] = op.tok]
  /\ op' = IF op.kind = "switch"
           THEN [op EXCEPT !.pc = "restore",
                           !.goal = IF @.acct = op.id THEN op.tok ELSE @]
           ELSE Idle
  /\ UNCHANGED <<live, recs>>

Restore ==
  /\ Step("restore") /\ live' = op.goal /\ Return /\ UNCHANGED <<vault, recs>>

-----------------------------------------------------------------------------
(* The official CLI *)

CliStart ==
  /\ ~cli /\ Spend("cli") /\ cli' = TRUE /\ Outside /\ UNCHANGED <<live, Provider>>
CliExit == cli /\ cli' = FALSE /\ Outside /\ UNCHANGED <<live, Provider, faults>>

CliRotate ==
  /\ cli /\ live \in valid /\ Spend("rotate") /\ Issue(live.acct, live)
  /\ live' = Fresh(live.acct) /\ Outside /\ UNCHANGED cli

CliLogin(a) ==
  /\ Spend("login") /\ Issue(a, NoToken) /\ live' = Fresh(a)
  /\ Outside /\ UNCHANGED cli

CliLogout ==
  /\ Known(live) /\ Spend("logout") /\ live' = NoToken
  /\ Outside /\ UNCHANGED <<cli, Provider>>

-----------------------------------------------------------------------------
RecoveryStep ==
  \/ \E r \in op.todo : RecoverSkip(r) \/ RecoverRefused(r) \/ RecoverSave(r) \/ SaveRecord(r)
  \/ Writeback \/ Rewrite \/ Recovered \/ RecoverDone

Work ==
  \/ RecoveryStep
  \/ NotDue \/ Look \/ Intent \/ Exchange \/ Store
  \/ CaptureRead \/ Profile \/ Save \/ Restore

Next ==
  \/ Work \/ Fails
  \/ StartCapture
  \/ \E a \in Accounts : StartKeepAlive(a) \/ StartSwitch(a) \/ StartEnroll(a) \/ CliLogin(a)
  \/ CliStart \/ CliExit \/ CliRotate \/ CliLogout

Spec == Init /\ [][Next]_vars

(* The lock holder goes on, the daemon's keep-alive pass comes around to every
   account although other operations take the lock, and a CLI is closed in
   the end. *)
FairSpec ==
  /\ Spec /\ WF_vars(Work) /\ WF_vars(CliExit)
  /\ \A a \in Accounts : SF_vars(StartKeepAlive(a))

-----------------------------------------------------------------------------
(* Properties *)

(* A refresh token is presented once: what is about to be sent was never sent
   before, whatever was lost, crashed, captured or signed in again. *)
SpentOnce == op.pc = "exchange" => op.tok \notin sent

(* A pair that was sent and is still in the vault or in the live file is
   fenced by a recovery record. *)
OldPairsFenced ==
  \A t \in {live} \cup {vault[a] : a \in Accounts} : t \in sent => Consumed(t)

(* A pair of account a is stored somewhere, the provider accepts it and no
   record fences it off. *)
Usable(a) ==
  \E t \in valid :
    /\ t.acct = a /\ ~Consumed(t)
    /\ t = live \/ t = vault[a] \/ (\E r \in recs : r.new = t)

(* No step of qswitch drops the last usable pair of an account: while a pair is
   saved, written back, superseded or restored it is always stored somewhere.
   (Left out: fencing a pair off before it is spent; a captured pair that the
   CLI renewed before it is saved; and the credentials a CLI or a sign-in wrote
   after a switch captured the live file.) *)
KeepsLast ==
  [][ /\ op' # op /\ op.pc # "intent" /\ valid' = valid
      /\ op.pc = "save" => op.tok \in valid
      /\ op.pc = "restore" => live = op.tok
      => \A a \in Accounts : Usable(a) => Usable(a)' ]_vars

(* The writeback of a recovery replaces a consumed pair and nothing else: a
   login, a logout or a rotation in between is left alone. *)
ForeignLoginKept ==
  [][ live' # live /\ op' # op /\ op.pc = "rewrite" => Consumed(live) ]_vars

(* A recovery that knows the successor and the account is finished. *)
PendingFinished ==
  \A a \in Accounts : []<>(\A r \in recs : r.acct = a => ~Known(r.new))
=============================================================================
