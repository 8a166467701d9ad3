--------------------------- MODULE ClaudeTokensProofs ---------------------------
(***************************************************************************)
(* Theorems about ClaudeTokens, for any number of accounts, token pairs    *)
(* and faults: every variable keeps its type, and a recovery's writeback   *)
(* never replaces a login, a logout or a rotation.                         *)
(***************************************************************************)
EXTENDS ClaudeTokens, TLAPS

Pcs == {"idle", "recover", "writeback", "rewrite", "recovered", "refresh",
        "intent", "exchange", "store", "capture", "profile", "save", "restore"}

Operation ==
  [ pc : Pcs, next : {"idle", "refresh", "capture", "profile"},
    kind : {"none", "keepalive", "capture", "switch", "enroll"},
    goal : Slot, tok : Slot, id : Accounts \cup {None}, seen : Slot, path : BOOLEAN,
    todo : SUBSET Record, rec : Record ]

(* TypeOK, with what the operation may hold where it needs an account or a
   pair: `id` and `tok` are known before they are used as such. *)
StoreType == vault \in [Accounts -> Slot] /\ live \in Slot /\ recs \subseteq Record
ProviderType ==
  /\ cli \in BOOLEAN /\ valid \subseteq Token /\ sent \subseteq Token
  /\ issued \in [Accounts -> 0..MaxTokens] /\ faults \in 0..MaxFaults
OpType ==
  /\ op \in Operation
  /\ op.pc \in {"refresh", "intent", "exchange", "store", "profile", "save"} => op.tok \in Token
  /\ op.next \in {"refresh", "profile"} => op.tok \in Token
  /\ op.pc = "save" => op.id \in Accounts
Types == StoreType /\ ProviderType /\ OpType

(* What a recovery works on is a record that is still there, and the pair it
   is about to replace is one of those the record fences off. *)
Pending ==
  /\ op.pc \in {"recover", "writeback", "rewrite", "recovered"} => op.todo \subseteq recs
  /\ op.pc \in {"writeback", "rewrite", "recovered"} => op.rec \in recs /\ Known(op.rec.new)
  /\ op.pc = "rewrite" => op.seen \in op.rec.old

TokensInv == Types /\ Pending

-----------------------------------------------------------------------------
LEMMA Constants ==
  /\ NoToken \in Slot /\ NoRecord \in Record /\ Idle \in Operation
  /\ \A s \in Slot : Known(s) => s \in Token
  /\ Token \subseteq Slot /\ NoToken \notin Token
<1>1. NoToken \in Slot /\ Token \subseteq Slot
  BY DEF Slot
<1>2. NoToken \notin Token
  BY TokensAssumption DEF NoToken, Token
<1>3. NoRecord \in Record
  BY <1>1 DEF NoRecord, Record
<1>4. Idle \in Operation
  BY <1>1, <1>3 DEF Idle, Operation, Pcs
<1>5. \A s \in Slot : Known(s) => s \in Token
  BY DEF Slot, Known
<1>6. QED BY <1>1, <1>2, <1>3, <1>4, <1>5

(* A pair the provider issues is a new one. *)
LEMMA IssueType ==
  ASSUME ProviderType, NEW a \in Accounts, NEW spent, Issue(a, spent)
  PROVE  /\ Fresh(a) \in Token
         /\ valid' \subseteq Token /\ issued' \in [Accounts -> 0..MaxTokens]
<1>1. issued[a] \in 0..MaxTokens /\ issued[a] < MaxTokens /\ MaxTokens \in Nat
  BY TokensAssumption DEF ProviderType, Issue
<1>2. issued[a] + 1 \in 1..MaxTokens /\ issued[a] + 1 \in 0..MaxTokens
  BY <1>1
<1>3. Fresh(a) \in Token
  BY <1>2 DEF Fresh, Token
<1>4. QED BY <1>2, <1>3 DEF ProviderType, Issue

LEMMA SpendType ==
  ASSUME ProviderType, NEW e, Spend(e)
  PROVE  faults' \in 0..MaxFaults
BY TokensAssumption DEF ProviderType, Spend

LEMMA FirstType == \A a \in Accounts : First(a) \in Token
BY TokensAssumption DEF First, Token

LEMMA InitInv == Init => TokensInv
<1> SUFFICES ASSUME Init PROVE TokensInv
  OBVIOUS
<1>1. StoreType
  BY FirstType, Constants DEF Init, StoreType
<1>2. ProviderType
  <2>1. 1 \in 0..MaxTokens /\ 0 \in 0..MaxFaults
    BY TokensAssumption
  <2>2. valid \subseteq Token
    BY FirstType DEF Init
  <2>3. issued \in [Accounts -> 0..MaxTokens]
    BY <2>1 DEF Init
  <2>4. QED BY <2>1, <2>2, <2>3 DEF Init, ProviderType
<1>3. op = Idle /\ op \in Operation
  BY Constants DEF Init
<1>4. QED BY <1>1, <1>2, <1>3 DEF TokensInv, Types, OpType, Pending, Idle

-----------------------------------------------------------------------------
(* An operation that ends, and the start of a recovery. *)

LEMMA ReturnInv == ASSUME Return PROVE OpType' /\ Pending'
BY Constants DEF Return, OpType, Pending, Idle

LEMMA RecoverType ==
  ASSUME NEW o \in Operation, NEW next \in {"idle", "refresh", "capture", "profile"},
         recs \subseteq Record, next \in {"refresh", "profile"} => o.tok \in Token,
         op' = Recover(o, next), recs' = recs
  PROVE  OpType' /\ Pending'
BY DEF Recover, OpType, Pending, Operation, Pcs

LEMMA StartInv ==
  ASSUME TokensInv,
         StartCapture \/ \E a \in Accounts : StartKeepAlive(a) \/ StartSwitch(a) \/ StartEnroll(a)
  PROVE  TokensInv'
<1> USE DEF TokensInv, Types
<1>1. ASSUME NEW a \in Accounts, StartKeepAlive(a) PROVE TokensInv'
  <2>1. StoreType' /\ ProviderType' /\ recs' = recs
    BY <1>1 DEF StartKeepAlive, Step, Stores, StoreType, ProviderType
  <2>2. vault[a] \in Token
    BY <1>1, Constants DEF StartKeepAlive, StoreType
  <2> DEFINE o == [Idle EXCEPT !.kind = "keepalive", !.tok = vault[a], !.id = a]
  <2>3. o \in Operation /\ o.tok \in Token
    BY <2>2, Constants DEF Idle, Operation
  <2>4. op' = Recover(o, "refresh")
    BY <1>1 DEF StartKeepAlive
  <2> HIDE DEF o
  <2>5. OpType' /\ Pending'
    BY <2>1, <2>3, <2>4, RecoverType DEF StoreType
  <2>6. QED BY <2>1, <2>5
<1>2. CASE StartCapture
  <2>1. StoreType' /\ ProviderType' /\ recs' = recs
    BY <1>2 DEF StartCapture, Step, Stores, StoreType, ProviderType
  <2> DEFINE o == [Idle EXCEPT !.kind = "capture"]
  <2>2. o \in Operation
    BY Constants DEF Idle, Operation
  <2>3. op' = Recover(o, "capture")
    BY <1>2 DEF StartCapture
  <2> HIDE DEF o
  <2>4. OpType' /\ Pending'
    BY <2>1, <2>2, <2>3, RecoverType DEF StoreType
  <2>5. QED BY <2>1, <2>4
<1>3. ASSUME NEW a \in Accounts, StartSwitch(a) PROVE TokensInv'
  <2>1. faults' \in 0..MaxFaults
    BY <1>3, SpendType DEF StartSwitch, ProviderType
  <2>2. StoreType' /\ ProviderType' /\ recs' = recs
    BY <1>3, <2>1 DEF StartSwitch, Stores, Provider, StoreType, ProviderType
  <2> DEFINE o == [Idle EXCEPT !.kind = "switch", !.goal = vault[a]]
  <2>3. o \in Operation
    BY Constants DEF Idle, Operation, StoreType
  <2>4. op' = Recover(o, "capture")
    BY <1>3 DEF StartSwitch
  <2> HIDE DEF o
  <2>5. OpType' /\ Pending'
    BY <2>2, <2>3, <2>4, RecoverType DEF StoreType
  <2>6. QED BY <2>2, <2>5
<1>4. ASSUME NEW a \in Accounts, StartEnroll(a) PROVE TokensInv'
  <2>1. faults' \in 0..MaxFaults /\ Fresh(a) \in Token
        /\ valid' \subseteq Token /\ issued' \in [Accounts -> 0..MaxTokens]
    BY <1>4, SpendType, IssueType DEF StartEnroll
  <2>2. StoreType' /\ ProviderType'
    BY <1>4, <2>1 DEF StartEnroll, Stores, StoreType, ProviderType
  <2>3. op' = [Idle EXCEPT !.pc = "save", !.kind = "enroll", !.tok = Fresh(a),
                           !.id = a, !.todo = recs]
    BY <1>4 DEF StartEnroll
  <2>4. OpType' /\ Pending'
    BY <2>1, <2>3, Constants, ZenonT(40) DEF OpType, Pending, Idle, Operation, Pcs, StoreType
  <2>5. QED BY <2>2, <2>4
<1>5. QED BY <1>1, <1>2, <1>3, <1>4

-----------------------------------------------------------------------------
(* The steps of a recovery *)

LEMMA RecoveryInv ==
  ASSUME TokensInv, NEW r \in op.todo,
         RecoverSkip(r) \/ RecoverRefused(r) \/ RecoverSave(r) \/ SaveRecord(r)
  PROVE  TokensInv'
<1> USE DEF TokensInv, Types
<1>1. r \in Record
  BY DEF OpType, Operation
<1>2. ProviderType'
  BY DEF RecoverSkip, RecoverRefused, RecoverSave, SaveRecord, Step, ProviderType
<1>3. CASE RecoverSkip(r)
  <2>1. StoreType'
    BY <1>3 DEF RecoverSkip, Stores, StoreType
  <2>2. OpType' /\ Pending'
    BY <1>3 DEF RecoverSkip, Step, Stores, OpType, Pending, Operation
  <2>3. QED BY <1>2, <2>1, <2>2
<1>4. CASE RecoverRefused(r)
  BY <1>2, <1>4, ReturnInv DEF RecoverRefused, Stores, StoreType
<1>5. CASE RecoverSave(r)
  <2>1. r.new \in Slot /\ Known(r.new) /\ op.pc = "recover" /\ r \in recs
    BY <1>1, <1>5 DEF RecoverSave, Recoverable, Record, Step, Pending
  <2>2. StoreType'
    BY <1>5, <2>1 DEF RecoverSave, StoreType
  <2>3. OpType' /\ Pending'
    BY <1>1, <1>5, <2>1 DEF RecoverSave, OpType, Pending, Operation, Pcs
  <2>4. QED BY <1>2, <2>2, <2>3
<1>6. CASE SaveRecord(r)
  <2>1. op.pc = "save" /\ op.tok \in Token /\ op.id \in Accounts
    BY <1>6 DEF SaveRecord, Step, OpType
  <2>2. CASE op.tok \in r.old
    BY <1>2, <1>6, <2>2, ReturnInv DEF SaveRecord, StoreType
  <2>3. CASE op.tok \notin r.old
    <3>1. Supersede(r) \in Record
      <4>1. r.new \notin {op.tok, NoToken} => r.new \in Token
        BY <1>1, Constants DEF Record, Known
      <4>2. QED BY <1>1, <2>1, <4>1, Constants DEF Supersede, Record
    <3>2. StoreType'
      BY <1>6, <2>3, <3>1 DEF SaveRecord, StoreType
    <3>3. OpType' /\ Pending'
      BY <1>6, <2>1, <2>3 DEF SaveRecord, OpType, Pending, Operation
    <3>4. QED BY <1>2, <3>2, <3>3
  <2>4. QED BY <2>2, <2>3
<1>7. QED BY <1>3, <1>4, <1>5, <1>6

LEMMA WritebackInv ==
  ASSUME TokensInv, Writeback \/ Rewrite \/ Recovered \/ RecoverDone
  PROVE  TokensInv'
<1> USE DEF TokensInv, Types
<1>1. ProviderType'
  BY DEF Writeback, Rewrite, Recovered, RecoverDone, Step, ProviderType
<1>2. CASE Writeback
  <2>1. StoreType'
    BY <1>2 DEF Writeback, Stores, StoreType
  <2>2. CASE op' = Idle
    BY <1>1, <2>1, <2>2, ReturnInv DEF Return
  <2>3. CASE op' # Idle
    <3>1. recs' = recs /\ op.pc = "writeback" /\ live \in Slot
      BY <1>2 DEF Writeback, Step, Stores, StoreType
    <3>2. \/ op' = [op EXCEPT !.pc = "rewrite", !.seen = live] /\ live \in op.rec.old
          \/ op' = [op EXCEPT !.pc = "recovered"]
      BY <1>2, <2>3 DEF Writeback, Goto
    <3>3. OpType' /\ Pending'
      BY <3>1, <3>2 DEF OpType, Pending, Operation, Pcs
    <3>4. QED BY <1>1, <2>1, <3>3
  <2>4. QED BY <2>2, <2>3
<1>3. CASE Rewrite
  <2>1. op.pc = "rewrite" /\ recs' = recs /\ vault' = vault /\ op.rec.new \in Slot
    BY <1>3 DEF Rewrite, Step, OpType, Operation, Record
  <2>2. CASE Return /\ UNCHANGED live
    BY <1>1, <2>1, <2>2, ReturnInv DEF StoreType
  <2>3. CASE live' = op.rec.new /\ Goto("recovered")
    BY <1>1, <2>1, <2>3 DEF Goto, StoreType, OpType, Pending, Operation, Pcs
  <2>4. QED BY <1>3, <2>2, <2>3 DEF Rewrite
<1>4. CASE Recovered
  <2>1. op.pc = "recovered" /\ op.rec.new \in Token /\ op.rec \in recs
    BY <1>4, Constants DEF Recovered, Step, OpType, Pending, Operation, Record
  <2>2. StoreType' /\ recs \ {op.rec} \subseteq recs'
    BY <1>4 DEF Recovered, StoreType
  <2>3. op' = [op EXCEPT !.pc = "recover", !.todo = @ \ {op.rec}, !.rec = NoRecord,
                         !.tok = IF op.next = "capture" THEN @ ELSE op.rec.new]
    BY <1>4 DEF Recovered
  <2>4. op' \in Operation
    BY <2>1, <2>3, Constants DEF OpType, Operation, Pcs
  <2>5. op'.pc = "recover" /\ op'.next = op.next /\ op'.todo = op.todo \ {op.rec}
        /\ (op.next # "capture" => op'.tok \in Token)
    BY <2>1, <2>3 DEF OpType, Operation
  <2>6. QED BY <1>1, <2>1, <2>2, <2>4, <2>5 DEF OpType, Pending
<1>5. CASE RecoverDone
  <2>1. StoreType'
    BY <1>5 DEF RecoverDone, Stores, StoreType
  <2>2. CASE op' = Idle
    BY <1>1, <2>1, <2>2, ReturnInv DEF Return
  <2>3. CASE op' # Idle
    <3>1. op.next \in {"refresh", "capture", "profile"} /\ op' = [op EXCEPT !.pc = op.next]
      BY <1>5, <2>3 DEF RecoverDone, OpType, Operation
    <3>2. OpType' /\ Pending'
      BY <3>1 DEF OpType, Pending, Operation, Pcs
    <3>3. QED BY <1>1, <2>1, <3>2
  <2>4. QED BY <2>2, <2>3
<1>6. QED BY <1>2, <1>3, <1>4, <1>5

-----------------------------------------------------------------------------
(* The steps of a refresh, a capture, a save and a restore *)

LEMMA RefreshInv ==
  ASSUME TokensInv, NotDue \/ Look \/ Intent \/ Exchange \/ Store
  PROVE  TokensInv'
<1> USE DEF TokensInv, Types
<1>1. CASE NotDue
  BY <1>1, ReturnInv DEF NotDue, Step, Stores, StoreType, ProviderType
<1>2. CASE Look
  <2>1. StoreType' /\ ProviderType'
    BY <1>2 DEF Look, Step, Stores, StoreType, ProviderType
  <2>2. OpType' /\ Pending'
    BY <1>2 DEF Look, Step, StoreType, OpType, Pending, Operation, Pcs
  <2>3. QED BY <2>1, <2>2
<1>3. CASE Intent
  <2>1. ProviderType' /\ op.pc = "intent" /\ op.tok \in Token
    BY <1>3 DEF Intent, Step, ProviderType, OpType
  <2>2. CASE Return /\ UNCHANGED Stores
    BY <2>1, <2>2, ReturnInv DEF Stores, StoreType
  <2>3. CASE ~(Return /\ UNCHANGED Stores)
    <3> DEFINE known == {r \in recs : r.new = op.tok}
               begun(r) == [old |-> r.old \cup {op.tok}, new |-> NoToken, acct |-> op.id,
                            path |-> op.path]
    <3>1. PICK r \in IF known = {} THEN {NoRecord} ELSE known :
            /\ recs' = (recs \ {r}) \cup {begun(r)}
            /\ op' = [op EXCEPT !.pc = "exchange", !.rec = begun(r)]
            /\ UNCHANGED <<vault, live>>
      BY <1>3, <2>3 DEF Intent
    <3>2. r \in Record
      BY Constants DEF StoreType
    <3>3. begun(r) \in Record
      BY <2>1, <3>2, Constants DEF Record, OpType, Operation
    <3> HIDE DEF begun, known
    <3>4. StoreType'
      BY <3>1, <3>3 DEF StoreType
    <3>5. OpType' /\ Pending'
      BY <2>1, <3>1, <3>3 DEF OpType, Pending, Operation, Pcs
    <3>6. QED BY <2>1, <3>4, <3>5
  <2>4. QED BY <2>2, <2>3
<1>4. CASE Exchange
  <2>1. op.pc = "exchange" /\ op.tok \in Token /\ op.tok.acct \in Accounts
    BY <1>4 DEF Exchange, OpType, Token
  <2>2. StoreType' /\ sent' \subseteq Token
    BY <1>4, <2>1 DEF Exchange, Stores, StoreType, ProviderType
  <2>3. CASE Return /\ UNCHANGED Provider
    BY <1>4, <2>2, <2>3, ReturnInv DEF Exchange, Provider, ProviderType
  <2>4. CASE /\ Issue(op.tok.acct, op.tok)
             /\ op' = [op EXCEPT !.pc = "store", !.tok = Fresh(op.tok.acct)]
    <3>1. Fresh(op.tok.acct) \in Token /\ ProviderType'
      BY <1>4, <2>1, <2>2, <2>4, IssueType DEF Exchange, ProviderType
    <3>2. OpType' /\ Pending'
      BY <2>1, <2>4, <3>1, Constants DEF OpType, Pending, Operation, Pcs
    <3>3. QED BY <2>2, <3>1, <3>2
  <2>5. QED BY <1>4, <2>3, <2>4 DEF Exchange
<1>5. CASE Store
  <2>1. op.pc = "store" /\ op.tok \in Token
    BY <1>5 DEF Store, Step, OpType
  <2>2. [op.rec EXCEPT !.new = op.tok] \in Record
    BY <2>1, Constants DEF OpType, Operation, Record
  <2>3. StoreType' /\ ProviderType'
    BY <1>5, <2>2 DEF Store, Step, StoreType, ProviderType
  <2>4. op' = [op EXCEPT !.pc = "recover", !.rec = NoRecord, !.todo = recs',
                         !.next = IF op.kind = "keepalive" THEN "idle" ELSE "profile"]
    BY <1>5 DEF Store
  <2>5. recs' \subseteq Record
    BY <2>3 DEF StoreType
  <2>6. OpType' /\ Pending'
    BY <2>1, <2>4, <2>5, Constants, ZenonT(40) DEF OpType, Pending, Operation, Pcs
  <2>7. QED BY <2>3, <2>6
<1>6. QED BY <1>1, <1>2, <1>3, <1>4, <1>5

LEMMA CaptureInv ==
  ASSUME TokensInv, CaptureRead \/ Profile \/ Save \/ Restore
  PROVE  TokensInv'
<1> USE DEF TokensInv, Types
<1>1. ProviderType'
  BY DEF CaptureRead, Profile, Save, Restore, Step, ProviderType
<1>2. CASE CaptureRead
  <2>1. StoreType'
    BY <1>2 DEF CaptureRead, Stores, StoreType
  <2>2. CASE Known(live)
    <3>1. op' = [op EXCEPT !.pc = "profile", !.tok = live] /\ live \in Token
      BY <1>2, <2>2, Constants DEF CaptureRead, StoreType
    <3>2. OpType' /\ Pending'
      BY <3>1, Constants DEF OpType, Pending, Operation, Pcs
    <3>3. QED BY <1>1, <2>1, <3>2
  <2>3. CASE ~Known(live)
    <3>1. op' = [op EXCEPT !.pc = "restore"] \/ Return
      BY <1>2, <2>3 DEF CaptureRead, Return
    <3>2. op' = [op EXCEPT !.pc = "restore"] => OpType' /\ Pending'
      BY DEF OpType, Pending, Operation, Pcs
    <3>3. QED BY <1>1, <2>1, <3>1, <3>2, ReturnInv
  <2>4. QED BY <2>2, <2>3
<1>3. CASE Profile
  <2>1. StoreType' /\ op.pc = "profile" /\ op.tok \in Token /\ recs' = recs
    BY <1>3 DEF Profile, Step, Stores, StoreType, OpType
  <2>2. CASE op' = [op EXCEPT !.pc = "save", !.id = op.tok.acct, !.todo = recs]
    <3>1. op.tok.acct \in Accounts
      BY <2>1 DEF Token
    <3>2. QED BY <1>1, <2>1, <2>2, <3>1 DEF StoreType, OpType, Pending, Operation, Pcs
  <2>3. CASE Return
    BY <1>1, <2>1, <2>3, ReturnInv
  <2>4. CASE Goto("refresh")
    BY <1>1, <2>1, <2>4 DEF Goto, OpType, Pending, Operation, Pcs
  <2>5. QED BY <1>3, <2>2, <2>3, <2>4 DEF Profile
<1>4. CASE Save
  <2>1. op.pc = "save" /\ op.tok \in Slot /\ op.id \in Accounts
    BY <1>4, Constants DEF Save, Step, OpType
  <2>2. StoreType'
    BY <1>4, <2>1 DEF Save, StoreType
  <2>3. \/ Return
        \/ op' = [op EXCEPT !.pc = "restore",
                            !.goal = IF @.acct = op.id THEN op.tok ELSE @]
    BY <1>4 DEF Save, Return
  <2>4. op' = [op EXCEPT !.pc = "restore",
                         !.goal = IF @.acct = op.id THEN op.tok ELSE @] => OpType' /\ Pending'
    BY <2>1 DEF OpType, Pending, Operation, Pcs
  <2>5. QED BY <1>1, <2>2, <2>3, <2>4, ReturnInv
<1>5. CASE Restore
  BY <1>1, <1>5, ReturnInv DEF Restore, StoreType, OpType, Operation
<1>6. QED BY <1>2, <1>3, <1>4, <1>5

-----------------------------------------------------------------------------
(* A failure, and the official CLI *)

LEMMA OutsideInv ==
  ASSUME TokensInv,
         \/ Fails \/ CliStart \/ CliExit \/ CliRotate \/ CliLogout
         \/ \E a \in Accounts : CliLogin(a)
  PROVE  TokensInv'
<1> USE DEF TokensInv, Types
<1>1. CASE Fails
  <2>1. faults' \in 0..MaxFaults
    BY <1>1, SpendType DEF Fails
  <2>2. QED BY <1>1, <2>1, ReturnInv DEF Fails, Stores, Provider, StoreType, ProviderType
<1>2. ASSUME Outside PROVE OpType' /\ Pending' /\ vault' = vault /\ recs' = recs /\ sent' = sent
  BY <1>2 DEF Outside, OpType, Pending
<1>3. CASE CliStart
  <2>1. faults' \in 0..MaxFaults
    BY <1>3, SpendType DEF CliStart
  <2>2. QED BY <1>2, <1>3, <2>1 DEF CliStart, Provider, StoreType, ProviderType
<1>4. CASE CliExit
  BY <1>2, <1>4 DEF CliExit, Provider, StoreType, ProviderType
<1>5. CASE CliRotate
  <2>1. live.acct \in Accounts
    BY <1>5 DEF CliRotate, ProviderType, Token
  <2>2. /\ faults' \in 0..MaxFaults /\ Fresh(live.acct) \in Token
        /\ valid' \subseteq Token /\ issued' \in [Accounts -> 0..MaxTokens]
    BY <1>5, <2>1, SpendType, IssueType DEF CliRotate
  <2>3. QED BY <1>2, <1>5, <2>2, Constants DEF CliRotate, StoreType, ProviderType
<1>6. ASSUME NEW a \in Accounts, CliLogin(a) PROVE TokensInv'
  <2>1. /\ faults' \in 0..MaxFaults /\ Fresh(a) \in Token
        /\ valid' \subseteq Token /\ issued' \in [Accounts -> 0..MaxTokens]
    BY <1>6, SpendType, IssueType DEF CliLogin
  <2>2. QED BY <1>2, <1>6, <2>1, Constants DEF CliLogin, StoreType, ProviderType
<1>7. CASE CliLogout
  <2>1. faults' \in 0..MaxFaults
    BY <1>7, SpendType DEF CliLogout
  <2>2. QED BY <1>2, <1>7, <2>1, Constants DEF CliLogout, Provider, StoreType, ProviderType
<1>8. QED BY <1>1, <1>3, <1>4, <1>5, <1>6, <1>7

LEMMA StepInv == TokensInv /\ [Next]_vars => TokensInv'
<1> SUFFICES ASSUME TokensInv, [Next]_vars PROVE TokensInv'
  OBVIOUS
<1>1. CASE UNCHANGED vars
  BY <1>1 DEF vars, TokensInv, Types, StoreType, ProviderType, OpType, Pending
<1>2. CASE RecoveryStep
  BY <1>2, RecoveryInv, WritebackInv DEF RecoveryStep
<1>3. CASE Work /\ ~RecoveryStep
  BY <1>3, RefreshInv, CaptureInv DEF Work
<1>4. CASE StartCapture \/ \E a \in Accounts : StartKeepAlive(a) \/ StartSwitch(a) \/ StartEnroll(a)
  BY <1>4, StartInv
<1>5. CASE \/ Fails \/ CliStart \/ CliExit \/ CliRotate \/ CliLogout
           \/ \E a \in Accounts : CliLogin(a)
  BY <1>5, OutsideInv
<1>6. QED BY <1>1, <1>2, <1>3, <1>4, <1>5 DEF Next, Work

LEMMA TokensInvariant == Spec => []TokensInv
<1>1. QED BY InitInv, StepInv, PTL DEF Spec

(* Every variable keeps its type, with any number of accounts, token pairs and
   faults. *)
THEOREM TokensTypes == Spec => []TypeOK
<1>1. TokensInv => TypeOK
  BY DEF TokensInv, Types, StoreType, ProviderType, OpType, TypeOK, Operation, Record, Pcs
<1>2. QED BY <1>1, TokensInvariant, PTL

(* The writeback of a recovery replaces a pair that some record fences off,
   and nothing else, whatever the CLI does between its two looks. *)
THEOREM WritebackKeepsLogins == Spec => ForeignLoginKept
<1>1. TokensInv /\ [Next]_vars =>
        [live' # live /\ op' # op /\ op.pc = "rewrite" => Consumed(live)]_vars
  <2> SUFFICES ASSUME TokensInv, Next, live' # live, op' # op, op.pc = "rewrite"
               PROVE  Consumed(live)
    BY DEF vars
  <2>1. op.rec \in recs /\ op.seen \in op.rec.old
    BY DEF TokensInv, Pending
  <2>2. Rewrite
    BY DEF Next, Work, RecoveryStep, Step, Outside, RecoverSkip, RecoverRefused, RecoverSave,
           SaveRecord, Writeback, Recovered, RecoverDone, NotDue, Look, Intent, Exchange, Store,
           CaptureRead, Profile, Save, Restore, Fails, Stores, StartCapture, StartKeepAlive,
           StartSwitch, StartEnroll, CliStart, CliExit, CliRotate, CliLogin, CliLogout
  <2>3. live = op.seen
    BY <2>2 DEF Rewrite
  <2>4. QED BY <2>1, <2>3 DEF Consumed
<1>2. QED BY <1>1, TokensInvariant, PTL DEF Spec, ForeignLoginKept
=============================================================================
