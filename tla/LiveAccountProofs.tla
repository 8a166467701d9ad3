--------------------------- MODULE LiveAccountProofs ---------------------------
(***************************************************************************)
(* Theorems about LiveAccount, for any accounts, events and number of      *)
(* token pairs.                                                            *)
(***************************************************************************)
EXTENDS LiveAccount, TLAPS

Pcs ==
  { "idle", "capture", "verify", "save", "judge", "restore", "applied", "point", "revert",
    "reverted", "keep", "me", "reread", "auth", "exchange", "store", "writeback", "remember" }
Kinds == {"none", "capture", "switch", "ingest", "keepalive", "parked"}
Operation ==
  [ pc : Pcs, kind : Kinds, tok : Slot, id : Accounts \cup {None}, goal : Slot, seen : Slot,
    lock : BOOLEAN ]
Ingest ==
  [pc : {"quiet", "waits", "runs", "parked"}, fp : Slot, id : Accounts \cup {None}]

(* TypeOK in parts; pairs are numbered as they are issued, and a slot of the
   vault holds a pair of its own account. *)
Numbered(t) == t = NoToken \/ (t \in Token /\ t.n <= issued[t.acct])
StoreInv ==
  /\ vault \in [Accounts -> Slot] /\ live \in Slot /\ old \in Slot
  /\ \A a \in Accounts : Numbered(vault[a]) /\ vault[a].acct \in {a, None}
  /\ Numbered(live) /\ Numbered(old)
PointerInv ==
  /\ pointer \in Pointer /\ auto \in BOOLEAN
  /\ pointer.window => pointer.to \in Accounts
DaemonInv ==
  /\ lastFP \in Slot /\ selfFP \in Slot /\ ing \in Ingest
  /\ ing.pc = "parked" => ing.id \in Accounts
ProviderInv ==
  /\ world \in Worlds /\ client \in BOOLEAN /\ faults \in 0..MaxFaults
  /\ valid \subseteq Token /\ issued \in [Accounts -> 1..(MaxIssued + 1)]
  /\ \A t \in valid : Numbered(t)

(* What an operation works on, by its step. *)
Renewing == {"keep", "me", "reread", "auth", "exchange", "store", "writeback"}
OpType ==
  /\ op \in Operation /\ Numbered(op.tok) /\ Numbered(op.goal) /\ Numbered(op.seen)
Working ==
  /\ op.pc \in {"verify", "save", "judge"} \cup Renewing => Known(op.tok)
  /\ op.pc \in Renewing => op.id = op.tok.acct
  /\ op.pc \in {"keep", "me", "reread", "auth"} => op.tok = vault[op.id] /\ ~op.lock
  /\ op.pc = "me" => Known(op.seen)
  /\ op.pc = "reread" => op.seen.acct # op.id
  /\ op.pc = "auth" => op.seen.acct = op.id
  /\ op.pc \in {"capture", "verify", "save"} => op.kind \in {"capture", "switch", "ingest"}
  /\ op.pc = "judge" => op.kind = "ingest"
  /\ op.pc = "writeback" => op.lock

(* The pair a switch or a revert will restore is the one in the vault; so is,
   after the save, the one that was captured. *)
Switching == op.pc \in {"capture", "verify", "save"} /\ op.kind = "switch"
Goals ==
  /\ Switching \/ op.pc \in {"restore", "applied", "point", "revert"} => Known(op.goal)
  /\ Switching \/ op.pc \in {"restore", "revert"} => op.goal = vault[op.goal.acct]
  /\ op.pc \in {"judge", "restore", "revert"} /\ Known(op.tok) => vault[op.tok.acct] = op.tok
  /\ op.pc = "capture" => op.tok = NoToken

(* A renewed pair is known to nobody else before it is stored and written. *)
Renewed ==
  op.pc \in {"store", "writeback"} => op.tok \in valid /\ live # op.tok /\ old # op.tok

OpInv == OpType /\ Working /\ Goals /\ Renewed
Inv == StoreInv /\ PointerInv /\ DaemonInv /\ ProviderInv /\ OpInv

-----------------------------------------------------------------------------
LEMMA InvTypes == Inv => TypeOK
BY DEF Inv, StoreInv, PointerInv, DaemonInv, ProviderInv, OpInv, OpType, TypeOK, Operation,
  Ingest, Pcs, Kinds

LEMMA Constants ==
  /\ NoToken \in Slot /\ NoToken \notin Token /\ NoToken.acct = None /\ Token \subseteq Slot
  /\ Numbered(NoToken)
  /\ \A s \in Slot : /\ Known(s) <=> s \in Token
                     /\ Known(s) <=> s.acct \in Accounts
                     /\ s.acct \in Accounts \cup {None}
<1>1. NoToken.acct = None /\ None \notin Accounts
  BY LiveAssumption DEF NoToken
<1>2. \A t \in Token : t.acct \in Accounts
  BY DEF Token
<1>3. QED BY <1>1, <1>2 DEF Slot, Known, Numbered

(* A pair the provider issues is a new one, and the others stay numbered. *)
LEMMA IssueEffect ==
  ASSUME ProviderInv, NEW a \in Accounts, NEW spent, Issue(a, spent)
  PROVE  /\ Fresh(a) \in Token /\ Fresh(a).acct = a /\ Known(Fresh(a))
         /\ valid' \subseteq Token /\ Fresh(a) \in valid'
         /\ issued' \in [Accounts -> 1..(MaxIssued + 1)]
         /\ \A t : Numbered(t) => Numbered(t)' /\ t # Fresh(a)
         /\ Fresh(a).n <= issued'[a]
         /\ \A t \in valid : t # spent => t \in valid'
         /\ \A t \in valid' : t # Fresh(a) => t \in valid /\ t # spent
<1>1. issued[a] \in 1..MaxIssued /\ MaxIssued \in Nat
  BY LiveAssumption DEF ProviderInv, Issue
<1>2. Fresh(a) \in Token /\ Fresh(a).acct = a /\ Fresh(a).n = issued[a] + 1
  BY <1>1 DEF Fresh, Token
<1>3. issued' \in [Accounts -> 1..(MaxIssued + 1)] /\ issued' = [issued EXCEPT ![a] = @ + 1]
  BY <1>1 DEF ProviderInv, Issue
<1>4. issued \in [Accounts -> 1..(MaxIssued + 1)] /\ \A b \in Accounts : issued[b] \in Nat /\ issued'[b] \in Nat
  BY <1>3, LiveAssumption DEF ProviderInv
<1>5. \A t : Numbered(t) => Numbered(t)'
  <2> SUFFICES ASSUME NEW t \in Token, t.n <= issued[t.acct] PROVE t.n <= issued'[t.acct]
    BY DEF Numbered
  <2>1. t.acct \in Accounts /\ t.n \in Nat
    BY LiveAssumption DEF Token
  <2>2. QED BY <2>1, <1>3, <1>4
<1>6. ~Numbered(Fresh(a))
  BY <1>1, <1>2, Constants DEF Numbered
<1>7. Fresh(a).n <= issued'[a]
  BY <1>1, <1>2, <1>3, <1>4
<1>8. valid' = (valid \ {spent}) \cup {Fresh(a)} /\ valid \subseteq Token
  BY DEF Issue, ProviderInv
<1>9. QED BY <1>2, <1>3, <1>5, <1>6, <1>7, <1>8, Constants

LEMMA InitInv == Init => Inv
<1> SUFFICES ASSUME Init PROVE Inv
  OBVIOUS
<1>1. (CHOOSE a \in Accounts : TRUE) \in Accounts
  BY LiveAssumption
<1>2. \A a \in Accounts :
        First(a) \in Token /\ First(a).acct = a /\ First(a).n = 1 /\ issued[a] = 1
  BY LiveAssumption DEF First, Token, Init
<1>3. 1 \in 1..(MaxIssued + 1) /\ 0 \in 0..MaxFaults
  BY LiveAssumption
<1>4. StoreInv
  BY <1>1, <1>2, Constants DEF Init, StoreInv, Numbered
<1>5. PointerInv
  BY <1>1, <1>2, Constants DEF Init, PointerInv, Pointer
<1>6. DaemonInv
  BY <1>1, <1>2, Constants DEF Init, DaemonInv, Ingest, Quiet
<1>7. ProviderInv
  <2>1. valid = {First(a) : a \in Accounts} /\ valid \subseteq Token
    BY <1>2 DEF Init
  <2>2. \A t \in valid : Numbered(t)
    BY <1>2, <2>1 DEF Numbered
  <2>3. issued \in [Accounts -> 1..(MaxIssued + 1)]
    BY <1>3 DEF Init
  <2>4. QED BY <1>3, <2>1, <2>2, <2>3 DEF Init, ProviderInv
<1>8. OpInv
  <2>1. OpType
    BY Constants DEF Init, Idle, OpType, Operation, Pcs, Kinds
  <2>2. op.pc = "idle"
    BY DEF Init, Idle
  <2>3. QED BY <2>1, <2>2 DEF OpInv, Working, Renewing, Goals, Switching, Renewed
<1>9. QED BY <1>4, <1>5, <1>6, <1>7, <1>8 DEF Inv

-----------------------------------------------------------------------------
(* What a step changes of the operation *)

LEMMA IdleEffect ==
  ASSUME op' = Idle
  PROVE  OpInv'
<1>1. OpType'
  BY Constants DEF Idle, OpType, Operation, Pcs, Kinds, Numbered
<1>2. op'.pc = "idle"
  BY DEF Idle
<1>3. QED
  BY <1>1, <1>2 DEF OpInv, Working, Renewing, Goals, Switching, Renewed

LEMMA GotoEffect ==
  ASSUME OpType, NEW pc \in Pcs, Goto(pc)
  PROVE  /\ op' \in Operation /\ op'.pc = pc /\ op'.kind = op.kind /\ op'.tok = op.tok
         /\ op'.id = op.id /\ op'.goal = op.goal /\ op'.seen = op.seen /\ op'.lock = op.lock
BY DEF OpType, Operation, Goto

LEMMA ReturnEffect ==
  ASSUME DaemonInv, Return, selfFP' = selfFP
  PROVE  DaemonInv' /\ OpInv'
<1>1. OpInv'
  BY IdleEffect DEF Return
<1>2. DaemonInv'
  BY Constants DEF DaemonInv, Return, Ingest, Quiet
<1>3. QED BY <1>1, <1>2

LEMMA StoreKept == ASSUME StoreInv, UNCHANGED <<vault, live, old, issued>> PROVE StoreInv'
BY DEF StoreInv, Numbered
LEMMA PointerKept == ASSUME PointerInv, UNCHANGED <<pointer, auto>> PROVE PointerInv'
BY DEF PointerInv
LEMMA DaemonKept == ASSUME DaemonInv, UNCHANGED Daemon PROVE DaemonInv'
BY DEF DaemonInv, Daemon
LEMMA ProviderKept ==
  ASSUME ProviderInv, UNCHANGED <<world, client, faults, valid, issued>> PROVE ProviderInv'
BY DEF ProviderInv, Numbered
LEMMA OpKept ==
  ASSUME OpInv, UNCHANGED <<op, vault, live, old, valid, issued>> PROVE OpInv'
BY DEF OpInv, OpType, Working, Goals, Switching, Renewed, Numbered
LEMMA NumberedKept == ASSUME UNCHANGED issued, NEW t, Numbered(t) PROVE Numbered(t)'
BY DEF Numbered

LEMMA SaveStep == ASSUME Inv, Save PROVE Inv'
<1>1. op.pc = "save" /\ op.tok \in Token /\ op.tok.acct \in Accounts /\ Known(op.tok) /\ Numbered(op.tok)
      /\ op.kind \in {"capture", "switch", "ingest"}
  BY Constants DEF Save, Step, Inv, OpInv, Working, OpType, Operation
<1>2. UNCHANGED <<world, valid, issued, client, old, faults, live, auto, selfFP>>
  BY DEF Save, Step, Outer, Provider
<1>3. vault' = [vault EXCEPT ![op.tok.acct] = op.tok]
  BY DEF Save, SavedAs
<1>4. StoreInv'
  BY <1>1, <1>2, <1>3, Constants DEF Inv, StoreInv, Numbered
<1>5. ProviderInv'
  BY <1>2, ProviderKept DEF Inv
<1>6. vault'[op.tok.acct] = op.tok /\ \A a \in Accounts \ {op.tok.acct} : vault'[a] = vault[a]
  BY <1>1, <1>3 DEF Inv, StoreInv
<1>7. CASE op.kind = "capture"
  <2>1. Return /\ pointer' = [pointer EXCEPT !.id = op.tok.acct]
    BY <1>7 DEF Save
  <2>2. PointerInv'
    BY <2>1, <1>1, <1>2 DEF Inv, PointerInv, Pointer
  <2>3. QED BY <2>1, <2>2, <1>2, <1>4, <1>5, ReturnEffect DEF Inv
<1>8. CASE op.kind = "switch"
  <2>1. op' = [op EXCEPT !.pc = "restore", !.goal = Target] /\ UNCHANGED <<pointer, auto, Daemon>>
    BY <1>8, <1>2 DEF Save, Daemon
  <2>2. Target \in {op.tok, op.goal} /\ Target \in Slot /\ Known(Target) /\ Numbered(Target) /\ vault'[Target.acct] = Target
    BY <1>1, <1>6, <1>8, Constants DEF Target, Inv, OpInv, Goals, Switching, OpType, Operation
  <2>3. op' \in Operation /\ op'.pc = "restore" /\ op'.tok = op.tok /\ op'.goal = Target /\ op'.seen = op.seen
    BY <2>1, <2>2 DEF Inv, OpInv, OpType, Operation, Pcs
  <2>4. OpType'
    BY <1>2, <2>2, <2>3, NumberedKept DEF Inv, OpInv, OpType
  <2>5. OpInv'
    BY <2>2, <2>3, <2>4, <1>6 DEF OpInv, Working, Goals, Renewed, Renewing, Switching
  <2>6. QED BY <2>1, <2>5, <1>4, <1>5, PointerKept, DaemonKept DEF Inv
<1>9. CASE op.kind \notin {"capture", "switch"}
  <2>1. Goto("judge") /\ UNCHANGED <<pointer, auto, Daemon>>
    BY <1>9, <1>2 DEF Save, Daemon
  <2>3. op' \in Operation /\ op'.pc = "judge" /\ op'.tok = op.tok /\ op'.goal = op.goal /\ op'.seen = op.seen /\ op'.kind = op.kind
    BY <2>1, GotoEffect DEF Inv, OpInv, Pcs
  <2>4. OpType'
    BY <1>2, <2>3, NumberedKept DEF Inv, OpInv, OpType
  <2>5. OpInv'
    BY <2>3, <2>4, <1>1, <1>6, <1>9 DEF OpInv, Working, Goals, Renewed, Renewing, Switching
  <2>6. QED BY <2>1, <2>5, <1>4, <1>5, PointerKept, DaemonKept DEF Inv
<1>10. QED BY <1>7, <1>8, <1>9

(* Ingest before it has the lock, and the other operations that start *)

LEMMA IngestLookStep == ASSUME Inv, IngestLook PROVE Inv'
<1>1. UNCHANGED <<Outer, vault, live, pointer, auto, selfFP, op>>
  BY DEF IngestLook
<1>2. DaemonInv'
  BY <1>1, Constants DEF IngestLook, Inv, StoreInv, DaemonInv, Ingest, Quiet
<1>3. QED
  BY <1>1, <1>2, StoreKept, PointerKept, ProviderKept, OpKept DEF Inv, Outer, Provider

LEMMA StartCaptureEffect ==
  ASSUME NEW k \in {"capture", "ingest"}, op' = [Idle EXCEPT !.pc = "capture", !.kind = k]
  PROVE  OpInv'
<1>1. op' \in Operation /\ op'.pc = "capture" /\ op'.kind = k
      /\ op'.tok = NoToken /\ op'.goal = NoToken /\ op'.seen = NoToken
  BY Constants DEF Idle, Operation, Pcs, Kinds
<1>2. OpType'
  BY <1>1, Constants DEF OpType, Numbered
<1>3. QED
  BY <1>1, <1>2 DEF OpInv, Working, Renewing, Goals, Switching, Renewed

LEMMA IngestLockStep == ASSUME Inv, IngestLock PROVE Inv'
<1>1. UNCHANGED <<Outer, vault, live, pointer, auto, lastFP, selfFP>>
  BY DEF IngestLock, Step
<1>2. OpInv'
  BY StartCaptureEffect DEF IngestLock
<1>3. DaemonInv'
  BY <1>1 DEF IngestLock, Inv, DaemonInv, Ingest
<1>4. QED BY <1>1, <1>2, <1>3, StoreKept, PointerKept, ProviderKept DEF Inv, Outer, Provider

LEMMA StartCaptureStep == ASSUME Inv, StartCapture PROVE Inv'
<1>1. UNCHANGED <<Outer, vault, live, pointer, auto, Daemon>>
  BY DEF StartCapture, Step
<1>2. OpInv'
  BY StartCaptureEffect DEF StartCapture
<1>3. QED
  BY <1>1, <1>2, StoreKept, PointerKept, DaemonKept, ProviderKept DEF Inv, Outer, Provider

LEMMA StartSwitchStep == ASSUME Inv, NEW a \in Accounts, StartSwitch(a) PROVE Inv'
<1>1. UNCHANGED <<world, Provider, old, faults, vault, live, pointer, auto, Daemon>>
  BY DEF StartSwitch
<1>2. vault[a] \in Slot /\ Known(vault[a]) /\ Numbered(vault[a]) /\ vault[a].acct = a
  BY Constants DEF StartSwitch, Inv, StoreInv
<1>3. op' \in Operation /\ op'.pc = "capture" /\ op'.kind = "switch"
      /\ op'.tok = NoToken /\ op'.goal = vault[a] /\ op'.seen = NoToken
  BY <1>2, Constants DEF StartSwitch, Idle, Operation, Pcs, Kinds
<1>4. OpType'
  BY <1>1, <1>2, <1>3, Constants, NumberedKept DEF OpType, Provider
<1>5. OpInv'
  BY <1>1, <1>2, <1>3, <1>4 DEF OpInv, Working, Renewing, Goals, Switching, Renewed
<1>6. ProviderInv'
  BY <1>1 DEF StartSwitch, Inv, ProviderInv, Provider, Numbered
<1>7. QED BY <1>1, <1>5, <1>6, StoreKept, PointerKept, DaemonKept DEF Inv, Provider

LEMMA KeepEffect ==
  ASSUME Inv, NEW a \in Accounts, Known(vault[a]), NEW k \in Kinds, UNCHANGED <<vault, issued>>,
         op' = [Idle EXCEPT !.pc = "keep", !.kind = k, !.tok = vault[a], !.id = a]
  PROVE  OpInv'
<1>1. vault[a] \in Slot /\ Numbered(vault[a]) /\ vault[a].acct = a
  BY Constants DEF Inv, StoreInv
<1>2. op' \in Operation /\ op'.pc = "keep" /\ op'.tok = vault[a] /\ op'.id = a
      /\ op'.goal = NoToken /\ op'.seen = NoToken /\ ~op'.lock
  BY <1>1, Constants DEF Idle, Operation, Pcs
<1>3. OpType'
  BY <1>1, <1>2, Constants, NumberedKept DEF OpType
<1>4. QED
  BY <1>1, <1>2, <1>3 DEF OpInv, Working, Renewing, Goals, Switching, Renewed

LEMMA StartKeepAliveStep == ASSUME Inv, NEW a \in Accounts, StartKeepAlive(a) PROVE Inv'
<1>1. UNCHANGED <<Outer, vault, live, pointer, auto, Daemon>>
  BY DEF StartKeepAlive, Step
<1>2. OpInv'
  BY <1>1, KeepEffect DEF StartKeepAlive, Kinds, Outer, Provider
<1>3. QED
  BY <1>1, <1>2, StoreKept, PointerKept, DaemonKept, ProviderKept DEF Inv, Outer, Provider

LEMMA StartParkedStep == ASSUME Inv, StartParked PROVE Inv'
<1>1. UNCHANGED <<Outer, vault, live, pointer, auto, selfFP>>
  BY DEF StartParked, Step
<1>2. ing.id \in Accounts
  BY DEF StartParked, Inv, DaemonInv
<1>3. OpInv' /\ DaemonInv'
  <2>1. CASE Known(vault[ing.id])
    <3>1. OpInv'
      BY <1>1, <1>2, <2>1, KeepEffect DEF StartParked, Kinds, Outer, Provider
    <3>2. DaemonInv'
      BY <1>1, <2>1, DaemonKept DEF StartParked, Daemon, Inv
    <3>3. QED BY <3>1, <3>2
  <2>2. CASE ~Known(vault[ing.id])
    <3>1. OpInv'
      BY <1>1, <2>2, OpKept DEF StartParked, Inv, Outer, Provider
    <3>2. DaemonInv'
      BY <1>1, <2>2, Constants DEF StartParked, Inv, DaemonInv, Ingest, Quiet
    <3>3. QED BY <3>1, <3>2
  <2>3. QED BY <2>1, <2>2
<1>4. QED BY <1>1, <1>3, StoreKept, PointerKept, ProviderKept DEF Inv, Outer, Provider

LEMMA ForgetStep == ASSUME Inv, NEW a \in Accounts, Forget(a) PROVE Inv'
<1>1. UNCHANGED <<Outer, live, pointer, auto, Daemon, op>> /\ op.pc = "idle"
  BY DEF Forget
<1>2. StoreInv'
  BY <1>1, Constants DEF Forget, Inv, StoreInv, Numbered, Outer, Provider
<1>3. OpInv'
  BY <1>1, NumberedKept
    DEF Inv, OpInv, OpType, Working, Renewing, Goals, Switching, Renewed, Outer, Provider
<1>4. QED
  BY <1>1, <1>2, <1>3, PointerKept, DaemonKept, ProviderKept DEF Inv, Outer, Provider

(* Capture *)

LEMMA CaptureReadStep == ASSUME Inv, CaptureRead PROVE Inv'
<1>1. UNCHANGED <<Outer, vault, live, pointer, auto, selfFP>> /\ op.pc = "capture"
  BY DEF CaptureRead, Step
<1>2. op \in Operation /\ live \in Slot /\ Numbered(live) /\ Numbered(op.goal) /\ Numbered(op.seen)
      /\ op.kind \in {"capture", "switch", "ingest"}
  BY <1>1 DEF Inv, StoreInv, OpInv, OpType, Working
<1>3. OpInv' /\ DaemonInv'
  <2>1. CASE Known(live)
    <3>1. op' = [op EXCEPT !.tok = live, !.pc = IF tool = "kimi" THEN "verify" ELSE "save"]
          /\ UNCHANGED Daemon
      BY <1>1, <2>1 DEF CaptureRead, Daemon
    <3>2. op' \in Operation /\ op'.pc \in {"verify", "save"} /\ op'.tok = live
          /\ op'.kind = op.kind /\ op'.goal = op.goal /\ op'.seen = op.seen
      BY <1>2, <3>1 DEF Operation, Pcs
    <3>3. OpType'
      BY <1>1, <1>2, <3>2, NumberedKept DEF OpType, Outer, Provider
    <3>4. OpInv'
      BY <1>1, <1>2, <2>1, <3>2, <3>3
        DEF Inv, OpInv, Working, Renewing, Goals, Switching, Renewed
    <3>5. QED BY <3>1, <3>4, DaemonKept DEF Inv
  <2>2. CASE ~Known(live) /\ op.kind = "switch"
    <3>1. Goto("restore") /\ UNCHANGED Daemon
      BY <1>1, <2>2 DEF CaptureRead, Daemon
    <3>2. op' \in Operation /\ op'.pc = "restore" /\ op'.tok = NoToken
          /\ op'.goal = op.goal /\ op'.seen = op.seen
      BY <1>1, <3>1, GotoEffect DEF Inv, OpInv, Goals, Pcs
    <3>3. OpType'
      BY <1>1, <1>2, <3>2, Constants, NumberedKept DEF OpType, Outer, Provider
    <3>4. OpInv'
      BY <1>1, <2>2, <3>2, <3>3
        DEF Inv, OpInv, Working, Renewing, Goals, Switching, Renewed, Known
    <3>5. QED BY <3>1, <3>4, DaemonKept DEF Inv
  <2>3. CASE ~Known(live) /\ op.kind # "switch"
    BY <1>1, <2>3, ReturnEffect DEF CaptureRead, Inv
  <2>4. QED BY <2>1, <2>2, <2>3
<1>4. QED BY <1>1, <1>3, StoreKept, PointerKept, ProviderKept DEF Inv, Outer, Provider

LEMMA VerifiedStep == ASSUME Inv, Verified PROVE Inv'
<1>1. UNCHANGED <<Outer, vault, live, pointer, auto, Daemon>> /\ op.pc = "verify" /\ Goto("save")
  BY DEF Verified, Step
<1>2. op' \in Operation /\ op'.pc = "save" /\ op'.kind = op.kind /\ op'.tok = op.tok
      /\ op'.goal = op.goal /\ op'.seen = op.seen
  BY <1>1, GotoEffect DEF Inv, OpInv, Pcs
<1>3. OpType'
  BY <1>1, <1>2, NumberedKept DEF Inv, OpInv, OpType, Outer, Provider
<1>4. OpInv'
  BY <1>1, <1>2, <1>3 DEF Inv, OpInv, Working, Renewing, Goals, Switching, Renewed
<1>5. QED
  BY <1>1, <1>4, StoreKept, PointerKept, DaemonKept, ProviderKept DEF Inv, Outer, Provider

(* A step that only returns. *)
LEMMA ReturnStep ==
  ASSUME Inv, UNCHANGED Outer, UNCHANGED <<vault, live, pointer, auto, selfFP>>, Return
  PROVE  Inv'
BY ReturnEffect, StoreKept, PointerKept, ProviderKept DEF Inv, Outer, Provider

LEMMA NotVerifiedStep == ASSUME Inv, NotVerified PROVE Inv'
BY ReturnStep DEF NotVerified, Step


(* The write of a switch *)

LEMMA RestoreStep == ASSUME Inv, Restore PROVE Inv'
<1>1. UNCHANGED <<world, Provider, client, faults, vault, pointer, auto, Daemon>>
      /\ op.pc = "restore" /\ Goto("applied") /\ live' \in {live, op.goal} /\ old' \in {old, live}
  BY DEF Restore, Merged
<1>2. op.goal \in Slot /\ Numbered(op.goal) /\ Known(op.goal)
  BY <1>1 DEF Inv, OpInv, OpType, Operation, Goals
<1>3. StoreInv'
  BY <1>1, <1>2, NumberedKept DEF Inv, StoreInv, Provider
<1>4. op' \in Operation /\ op'.pc = "applied" /\ op'.kind = op.kind /\ op'.tok = op.tok
      /\ op'.goal = op.goal /\ op'.seen = op.seen
  BY <1>1, GotoEffect DEF Inv, OpInv, Pcs
<1>5. OpType'
  BY <1>1, <1>4, NumberedKept DEF Inv, OpInv, OpType, Provider
<1>6. OpInv'
  BY <1>2, <1>4, <1>5 DEF OpInv, Working, Renewing, Goals, Switching, Renewed
<1>7. QED
  BY <1>1, <1>3, <1>6, PointerKept, DaemonKept, ProviderKept DEF Inv, Provider

LEMMA AppliedStep == ASSUME Inv, Applied PROVE Inv'
<1>1. UNCHANGED <<Outer, vault, live, pointer, auto, ing>> /\ op.pc = "applied" /\ Goto("point")
      /\ selfFP' = live /\ lastFP' \in {live, lastFP}
  BY DEF Applied, Step
<1>2. DaemonInv'
  BY <1>1 DEF Inv, StoreInv, DaemonInv
<1>3. op' \in Operation /\ op'.pc = "point" /\ op'.tok = op.tok
      /\ op'.goal = op.goal /\ op'.seen = op.seen
  BY <1>1, GotoEffect DEF Inv, OpInv, Pcs
<1>4. OpType'
  BY <1>1, <1>3, NumberedKept DEF Inv, OpInv, OpType, Outer, Provider
<1>5. OpInv'
  BY <1>1, <1>3, <1>4 DEF Inv, OpInv, Working, Renewing, Goals, Switching, Renewed
<1>6. QED BY <1>1, <1>2, <1>5, StoreKept, PointerKept, ProviderKept DEF Inv, Outer, Provider

LEMMA PointedStep == ASSUME Inv, Pointed PROVE Inv'
<1>1. UNCHANGED <<Outer, vault, live, auto, Daemon>> /\ op.pc = "point" /\ op' = Idle
      /\ pointer' = [id |-> op.goal.acct, to |-> op.goal.acct, window |-> TRUE, retries |-> 0]
  BY DEF Pointed, Step
<1>2. op.goal.acct \in Accounts
  BY <1>1, Constants DEF Inv, OpInv, OpType, Operation, Goals
<1>3. PointerInv'
  BY <1>1, <1>2 DEF Inv, PointerInv, Pointer
<1>4. QED
  BY <1>1, <1>3, IdleEffect, StoreKept, DaemonKept, ProviderKept DEF Inv, Outer, Provider

(* Ingest after the save *)

LEMMA SeenEffect ==
  ASSUME Inv, NEW prev \in Accounts \cup {None}, Seen(prev), selfFP' = selfFP
  PROVE  DaemonInv' /\ OpInv'
<1>1. CASE tool = "codex" /\ prev \notin {None, op.tok.acct}
  <2>1. ing' = [ing EXCEPT !.pc = "parked", !.id = prev] /\ lastFP' = lastFP /\ prev \in Accounts
    BY <1>1 DEF Seen
  <2>2. QED BY <2>1, IdleEffect DEF Seen, Inv, DaemonInv, Ingest
<1>2. CASE ~(tool = "codex" /\ prev \notin {None, op.tok.acct})
  <2>1. ing' = Quiet /\ lastFP' = ing.fp
    BY <1>2 DEF Seen
  <2>2. QED BY <2>1, IdleEffect, Constants DEF Seen, Inv, DaemonInv, Ingest, Quiet
<1>3. QED BY <1>1, <1>2

LEMMA JudgeKeepsStep ==
  ASSUME Inv, JudgeSame \/ JudgeDisable \/ JudgeAdopt
  PROVE  Inv'
<1>1. UNCHANGED <<Outer, vault, live, selfFP>> /\ op.pc = "judge" /\ Seen(pointer.id)
  BY DEF JudgeSame, JudgeDisable, JudgeAdopt, Step
<1>2. op.tok.acct \in Accounts
  BY <1>1, Constants DEF Inv, OpInv, OpType, Operation, Working
<1>3. PointerInv'
  <2>1. CASE JudgeSame
    BY <1>2, <2>1 DEF JudgeSame, Inv, PointerInv, Pointer
  <2>2. CASE JudgeDisable
    BY <2>2 DEF JudgeDisable, Inv, PointerInv
  <2>3. CASE JudgeAdopt
    <3>1. pointer' = [pointer EXCEPT !.id = op.tok.acct, !.retries = 0] /\ auto' = auto
      BY <2>3 DEF JudgeAdopt
    <3>2. pointer \in Pointer /\ auto \in BOOLEAN /\ (pointer.window => pointer.to \in Accounts)
      BY DEF Inv, PointerInv
    <3>3. pointer' \in Pointer /\ pointer'.window = pointer.window /\ pointer'.to = pointer.to
      <4>1. 0 \in 0..1
        OBVIOUS
      <4>2. QED BY <4>1, <1>2, <3>1, <3>2 DEF Pointer
    <3>4. QED BY <3>1, <3>2, <3>3 DEF PointerInv
  <2>4. QED BY <2>1, <2>2, <2>3
<1>4. pointer.id \in Accounts \cup {None}
  BY DEF Inv, PointerInv, Pointer
<1>5. QED BY <1>1, <1>3, <1>4, SeenEffect, StoreKept, ProviderKept DEF Inv, Outer, Provider

LEMMA JudgeRevertStep == ASSUME Inv, JudgeRevert PROVE Inv'
<1>1. UNCHANGED <<Outer, vault, live, pointer, selfFP>> /\ op.pc = "judge" /\ pointer.window
  BY DEF JudgeRevert, Step
<1>2. pointer.to \in Accounts
  BY <1>1 DEF Inv, PointerInv
<1>3. OpInv' /\ DaemonInv' /\ auto' \in BOOLEAN
  <2>1. CASE Known(vault[pointer.to])
    <3>1. op' = [op EXCEPT !.pc = "revert", !.goal = vault[pointer.to]] /\ UNCHANGED <<auto, Daemon>>
      BY <1>1, <2>1 DEF JudgeRevert, Daemon
    <3>2. vault[pointer.to] \in Slot /\ Numbered(vault[pointer.to])
          /\ vault[pointer.to].acct = pointer.to
      BY <1>2, <2>1, Constants DEF Inv, StoreInv
    <3>3. op' \in Operation /\ op'.pc = "revert" /\ op'.tok = op.tok
          /\ op'.goal = vault[pointer.to] /\ op'.seen = op.seen
      BY <3>1, <3>2 DEF Inv, OpInv, OpType, Operation, Pcs
    <3>4. OpType'
      BY <1>1, <3>2, <3>3, NumberedKept DEF Inv, OpInv, OpType, Outer, Provider
    <3>5. OpInv'
      BY <1>1, <2>1, <3>2, <3>3, <3>4 DEF Inv, OpInv, Working, Renewing, Goals, Switching, Renewed
    <3>6. QED BY <3>1, <3>5, DaemonKept DEF Inv, PointerInv
  <2>2. CASE ~Known(vault[pointer.to])
    BY <1>1, <2>2, ReturnEffect DEF JudgeRevert, Inv
  <2>3. QED BY <2>1, <2>2
<1>4. PointerInv'
  BY <1>1, <1>3 DEF Inv, PointerInv
<1>5. QED BY <1>1, <1>3, <1>4, StoreKept, ProviderKept DEF Inv, Outer, Provider

LEMMA RevertStep == ASSUME Inv, Revert PROVE Inv'
<1>1. UNCHANGED <<Outer, vault, pointer, auto, Daemon>> /\ op.pc = "revert"
      /\ Goto("reverted") /\ live' = op.goal
  BY DEF Revert, Step
<1>2. StoreInv'
  BY <1>1, NumberedKept DEF Inv, StoreInv, OpInv, OpType, Operation, Outer, Provider
<1>3. op' \in Operation /\ op'.pc = "reverted" /\ op'.tok = op.tok
      /\ op'.goal = op.goal /\ op'.seen = op.seen
  BY <1>1, GotoEffect DEF Inv, OpInv, Pcs
<1>4. OpType'
  BY <1>1, <1>3, NumberedKept DEF Inv, OpInv, OpType, Outer, Provider
<1>5. OpInv'
  BY <1>3, <1>4 DEF OpInv, Working, Renewing, Goals, Switching, Renewed
<1>6. QED BY <1>1, <1>2, <1>5, PointerKept, DaemonKept, ProviderKept DEF Inv, Outer, Provider

LEMMA RevertedStep == ASSUME Inv, Reverted PROVE Inv'
<1>1. UNCHANGED <<Outer, vault, live, auto>> /\ op' = Idle /\ ing' = Quiet
      /\ pointer' = [pointer EXCEPT !.retries = 1] /\ selfFP' = live /\ lastFP' = live
  BY DEF Reverted, Step
<1>2. DaemonInv'
  BY <1>1, Constants DEF Inv, StoreInv, DaemonInv, Ingest, Quiet
<1>3. PointerInv'
  BY <1>1 DEF Inv, PointerInv, Pointer
<1>4. QED BY <1>1, <1>2, <1>3, IdleEffect, StoreKept, ProviderKept DEF Inv, Outer, Provider

(* Renewal *)

LEMMA KeepLeavesStep == ASSUME Inv, KeepLeaves PROVE Inv'
BY ReturnStep DEF KeepLeaves, KeepUnchanged

(* A step of a renewal that only looks, or changes the operation alone. *)
LEMMA LookStep ==
  ASSUME Inv, UNCHANGED Outer, UNCHANGED <<vault, live, pointer, auto, Daemon>>,
         op.pc \in Renewing, op'.pc \in Renewing, op' \in Operation,
         op'.tok = op.tok, op'.id = op.id, op'.goal = op.goal, Numbered(op'.seen),
         op'.pc \in {"keep", "me", "reread", "auth"} =>
           op.pc \in {"keep", "me", "reread", "auth"} /\ op'.lock = op.lock,
         op'.pc = "me" => Known(op'.seen),
         op'.pc = "reread" => op'.seen.acct # op'.id,
         op'.pc = "auth" => op'.seen.acct = op'.id,
         op'.pc \notin {"store", "writeback"}
  PROVE  Inv'
<1>1. OpType'
  BY NumberedKept DEF Inv, OpInv, OpType, Outer, Provider
<1>2. Working'
  BY DEF Inv, OpInv, Working, Renewing, Outer
<1>3. Goals' /\ Renewed'
  BY DEF Renewing, Goals, Switching, Renewed
<1>4. QED
  BY <1>1, <1>2, <1>3, StoreKept, PointerKept, DaemonKept, ProviderKept
    DEF Inv, OpInv, Outer, Provider

LEMMA KeepKimiStep == ASSUME Inv, KeepKimi PROVE Inv'
<1>1. UNCHANGED Outer /\ UNCHANGED <<vault, live, pointer, auto, Daemon>> /\ op.pc = "keep"
  BY DEF KeepKimi, Step, KeepUnchanged, Daemon
<1>2. live \in Slot /\ Numbered(live) /\ Known(op.tok) /\ op.id = op.tok.acct /\ op.id \in Accounts
  BY <1>1, Constants DEF Inv, StoreInv, OpInv, OpType, Operation, Working, Renewing
<1>3. op' \in Operation /\ op'.seen = live /\ op'.tok = op.tok /\ op'.id = op.id
      /\ op'.goal = op.goal /\ op'.lock = op.lock
      /\ op'.pc = CASE live = op.tok -> "auth" [] Known(live) /\ live # op.tok -> "me"
                    [] OTHER -> "reread"
  BY <1>1, <1>2 DEF KeepKimi, Inv, OpInv, OpType, Operation, Pcs
<1>4. CASE live = op.tok
  BY <1>1, <1>2, <1>3, <1>4, LookStep DEF Renewing
<1>5. CASE Known(live) /\ live # op.tok
  BY <1>1, <1>2, <1>3, <1>5, LookStep DEF Renewing
<1>6. CASE ~Known(live)
  BY <1>1, <1>2, <1>3, <1>6, LookStep, Constants DEF Renewing
<1>7. QED BY <1>4, <1>5, <1>6

LEMMA MeStep == ASSUME Inv, Me PROVE Inv'
<1>1. UNCHANGED Outer /\ UNCHANGED <<vault, live, pointer, auto, Daemon>> /\ op.pc = "me"
      /\ Goto(IF op.seen.acct = op.id THEN "auth" ELSE "reread")
  BY DEF Me, Step, KeepUnchanged, Daemon
<1>2. op' \in Operation /\ op'.seen = op.seen /\ op'.tok = op.tok /\ op'.id = op.id
      /\ op'.goal = op.goal /\ op'.lock = op.lock
      /\ op'.pc = IF op.seen.acct = op.id THEN "auth" ELSE "reread"
  BY <1>1, GotoEffect DEF Inv, OpInv, Pcs
<1>3. Numbered(op.seen)
  BY DEF Inv, OpInv, OpType
<1>4. QED BY <1>1, <1>2, <1>3, LookStep DEF Renewing

LEMMA GotoExchange ==
  ASSUME Inv, UNCHANGED Outer, UNCHANGED <<vault, live, pointer, auto, Daemon>>,
         op.pc \in {"keep", "reread"}, Goto("exchange")
  PROVE  Inv'
<1>1. op' \in Operation /\ op'.seen = op.seen /\ op'.tok = op.tok /\ op'.id = op.id
      /\ op'.goal = op.goal /\ op'.pc = "exchange"
  BY GotoEffect DEF Inv, OpInv, Pcs
<1>2. Numbered(op.seen)
  BY DEF Inv, OpInv, OpType
<1>3. QED BY <1>1, <1>2, LookStep DEF Renewing

LEMMA RereadStep == ASSUME Inv, Reread PROVE Inv'
<1>1. UNCHANGED Outer /\ UNCHANGED <<vault, live, pointer, auto, selfFP>> /\ op.pc = "reread"
  BY DEF Reread, Step, KeepUnchanged
<1>2. CASE live = op.seen
  BY <1>1, <1>2, GotoExchange DEF Reread, Daemon
<1>3. CASE live # op.seen
  BY <1>1, <1>3, ReturnStep DEF Reread
<1>4. QED BY <1>2, <1>3

LEMMA KeepGrokStep == ASSUME Inv, KeepGrok PROVE Inv'
<1>1. UNCHANGED Outer /\ UNCHANGED <<vault, live, pointer, auto, Daemon>> /\ op.pc = "keep"
  BY DEF KeepGrok, Step, KeepUnchanged, Daemon
<1>2. live \in Slot /\ Numbered(live)
  BY DEF Inv, StoreInv
<1>3. op' \in Operation /\ op'.seen = live /\ op'.tok = op.tok /\ op'.id = op.id
      /\ op'.goal = op.goal /\ op'.lock = op.lock
      /\ op'.pc = IF live.acct = op.id THEN "auth" ELSE "exchange"
  BY <1>1, <1>2 DEF KeepGrok, Inv, OpInv, OpType, Operation, Pcs
<1>4. QED BY <1>1, <1>2, <1>3, LookStep DEF Renewing

LEMMA KeepCodexStep == ASSUME Inv, KeepCodex PROVE Inv'
<1>1. UNCHANGED Outer /\ UNCHANGED <<vault, live, pointer, auto, selfFP>> /\ op.pc = "keep"
  BY DEF KeepCodex, Step, KeepUnchanged
<1>2. CASE live.acct = op.id
  BY <1>1, <1>2, ReturnStep DEF KeepCodex
<1>3. CASE live.acct # op.id
  BY <1>1, <1>3, GotoExchange DEF KeepCodex, Daemon
<1>4. QED BY <1>2, <1>3


LEMMA AuthLockStep == ASSUME Inv, AuthLock PROVE Inv'
<1>1. UNCHANGED Outer /\ UNCHANGED <<vault, live, pointer, auto, Daemon>> /\ op.pc = "auth"
      /\ op' = [op EXCEPT !.pc = "exchange", !.tok = live, !.seen = live, !.lock = TRUE]
      /\ live.acct = op.id
  <2>1. op.pc = "auth" /\ op.seen.acct = op.id /\ (IF tool = "kimi" THEN live = op.seen ELSE live.acct = op.id)
    BY DEF AuthLock, Step, Inv, OpInv, Working
  <2>2. QED BY <2>1 DEF AuthLock, Step, KeepUnchanged, Daemon
<1>2. live \in Slot /\ Numbered(live) /\ op.id \in Accounts
  BY <1>1, Constants DEF Inv, StoreInv, OpInv, OpType, Operation, Working, Renewing
<1>3. op' \in Operation /\ op'.pc = "exchange" /\ op'.tok = live /\ op'.seen = live
      /\ op'.id = op.id /\ op'.goal = op.goal
  BY <1>1, <1>2 DEF Inv, OpInv, OpType, Operation, Pcs
<1>4. OpType'
  BY <1>1, <1>2, <1>3, NumberedKept DEF Inv, OpInv, OpType, Outer, Provider
<1>5. OpInv'
  BY <1>1, <1>2, <1>3, <1>4, Constants DEF OpInv, Working, Renewing, Goals, Switching, Renewed
<1>6. QED
  BY <1>1, <1>5, StoreKept, PointerKept, DaemonKept, ProviderKept DEF Inv, Outer, Provider

(* A step in which the provider issues a pair: what is numbered stays so. *)
LEMMA IssueStep ==
  ASSUME Inv, NEW a \in Accounts, NEW spent, Issue(a, spent), vault' = vault,
         old' \in {old, Fresh(a)}, live' \in {live, Fresh(a)},
         UNCHANGED <<world, client>>, faults' \in 0..MaxFaults
  PROVE  StoreInv' /\ ProviderInv'
<1>1. Fresh(a) \in Slot /\ \A t : Numbered(t) => Numbered(t)'
  BY IssueEffect, Constants DEF Inv
<1>2. Fresh(a) \in Token /\ Fresh(a).acct = a /\ Fresh(a).n <= issued'[a]
  BY IssueEffect DEF Inv
<1>3. live' \in Slot /\ Numbered(live)'
  BY <1>1, <1>2 DEF Inv, StoreInv, Numbered
<1>4. old' \in Slot /\ Numbered(old)'
  BY <1>1, <1>2 DEF Inv, StoreInv, Numbered
<1>5. \A b \in Accounts : Numbered(vault[b])'
  BY <1>1 DEF Inv, StoreInv
<1>6. StoreInv'
  BY <1>3, <1>4, <1>5 DEF Inv, StoreInv
<1>7. valid' \subseteq Token /\ issued' \in [Accounts -> 1..(MaxIssued + 1)]
      /\ \A t \in valid' : t \in valid \/ t = Fresh(a)
  BY IssueEffect DEF Inv
<1>8. \A t \in valid' : Numbered(t)'
  BY <1>1, <1>2, <1>7 DEF Inv, ProviderInv, Numbered
<1>9. QED BY <1>6, <1>7, <1>8 DEF Inv, ProviderInv

LEMMA ExchangeStep == ASSUME Inv, Exchange PROVE Inv'
<1>1. op.pc = "exchange" /\ UNCHANGED <<world, client, old, faults>>
      /\ UNCHANGED <<vault, live, pointer, auto, selfFP>>
  BY DEF Exchange, KeepUnchanged
<1>2. CASE Return /\ UNCHANGED Provider
  BY <1>1, <1>2, ReturnStep DEF Outer
<1>3. CASE /\ op.tok \in valid /\ Issue(op.tok.acct, op.tok)
           /\ op' = [op EXCEPT !.pc = "store", !.tok = Fresh(op.tok.acct)]
           /\ UNCHANGED <<ing, lastFP>>
  <2> DEFINE a == op.tok.acct
  <2>1. a \in Accounts /\ op.id = a
    BY <1>1, <1>3, Constants DEF Inv, OpInv, OpType, Operation, Working, Renewing
  <2>2. Fresh(a) \in Token /\ Fresh(a).acct = a /\ Known(Fresh(a)) /\ Fresh(a) \in valid'
        /\ Fresh(a).n <= issued'[a] /\ \A t : Numbered(t) => Numbered(t)' /\ t # Fresh(a)
    BY <1>3, <2>1, IssueEffect DEF Inv
  <2>3. StoreInv' /\ ProviderInv'
    BY <1>1, <1>3, <2>1, IssueStep DEF Inv, ProviderInv
  <2>4. op' \in Operation /\ op'.pc = "store" /\ op'.tok = Fresh(a) /\ op'.id = a
        /\ op'.goal = op.goal /\ op'.seen = op.seen
    BY <1>3, <2>1, <2>2, Constants DEF Inv, OpInv, OpType, Operation, Pcs
  <2>5. OpType'
    BY <2>2, <2>4 DEF Inv, OpInv, OpType, Numbered
  <2>6. live # Fresh(a) /\ old # Fresh(a)
    BY <2>2 DEF Inv, StoreInv
  <2>7. OpInv'
    BY <1>1, <2>2, <2>4, <2>5, <2>6 DEF OpInv, Working, Renewing, Goals, Switching, Renewed
  <2>8. QED BY <1>1, <1>3, <2>3, <2>7, PointerKept, DaemonKept DEF Inv, Daemon
<1>4. QED BY <1>2, <1>3 DEF Exchange

LEMMA StoreStep == ASSUME Inv, Store PROVE Inv'
<1>1. UNCHANGED <<Outer, live, pointer, auto, selfFP>> /\ op.pc = "store"
      /\ vault' = [vault EXCEPT ![op.id] = op.tok]
  BY DEF Store, Step
<1>2. op.tok \in Slot /\ Numbered(op.tok) /\ Known(op.tok) /\ op.id = op.tok.acct
  BY <1>1 DEF Inv, OpInv, OpType, Operation, Working, Renewing
<1>3. StoreInv'
  BY <1>1, <1>2, NumberedKept, Constants DEF Inv, StoreInv, Outer, Provider
<1>4. CASE op.lock
  <2>1. Goto("writeback") /\ UNCHANGED Daemon
    BY <1>1, <1>4 DEF Store, Daemon
  <2>2. op' \in Operation /\ op'.pc = "writeback" /\ op'.tok = op.tok /\ op'.id = op.id
        /\ op'.lock = op.lock /\ op'.goal = op.goal /\ op'.seen = op.seen
    BY <2>1, GotoEffect DEF Inv, OpInv, Pcs
  <2>3. OpType'
    BY <1>1, <2>2, NumberedKept DEF Inv, OpInv, OpType, Outer, Provider
  <2>4. OpInv'
    BY <1>1, <1>2, <1>4, <2>2, <2>3
      DEF Inv, OpInv, Working, Renewing, Goals, Switching, Renewed, Outer, Provider
  <2>5. QED BY <1>1, <1>3, <2>1, <2>4, PointerKept, DaemonKept, ProviderKept DEF Inv, Outer, Provider
<1>5. CASE ~op.lock
  BY <1>1, <1>3, <1>5, ReturnEffect, PointerKept, ProviderKept DEF Store, Inv, Outer, Provider
<1>6. QED BY <1>4, <1>5

LEMMA WritebackStep == ASSUME Inv, Writeback PROVE Inv'
<1>1. UNCHANGED <<Outer, vault, pointer, auto, selfFP>> /\ op.pc = "writeback"
  BY DEF Writeback, Step
<1>2. CASE live = op.seen
  <2>1. live' = op.tok /\ Goto("remember") /\ UNCHANGED Daemon
    BY <1>1, <1>2 DEF Writeback, Daemon
  <2>2. StoreInv'
    BY <1>1, <2>1, NumberedKept DEF Inv, StoreInv, OpInv, OpType, Operation, Outer, Provider
  <2>3. op' \in Operation /\ op'.pc = "remember" /\ op'.tok = op.tok
        /\ op'.goal = op.goal /\ op'.seen = op.seen
    BY <2>1, GotoEffect DEF Inv, OpInv, Pcs
  <2>4. OpType'
    BY <1>1, <2>3, NumberedKept DEF Inv, OpInv, OpType, Outer, Provider
  <2>5. OpInv'
    BY <2>3, <2>4 DEF OpInv, Working, Renewing, Goals, Switching, Renewed
  <2>6. QED BY <1>1, <2>1, <2>2, <2>5, PointerKept, DaemonKept, ProviderKept DEF Inv, Outer, Provider
<1>3. CASE live # op.seen
  BY <1>1, <1>3, ReturnStep DEF Writeback
<1>4. QED BY <1>2, <1>3

LEMMA WritebackFailsStep == ASSUME Inv, WritebackFails PROVE Inv'
<1>1. faults' \in 0..MaxFaults /\ UNCHANGED <<world, Provider, client, old>>
      /\ UNCHANGED <<vault, live, pointer, auto, selfFP>> /\ Return
  BY LiveAssumption DEF WritebackFails, Spend, KeepUnchanged, Inv, ProviderInv
<1>2. ProviderInv'
  BY <1>1 DEF Inv, ProviderInv, Numbered, Provider
<1>3. QED BY <1>1, <1>2, ReturnEffect, StoreKept, PointerKept DEF Inv, Provider

LEMMA RememberStep == ASSUME Inv, Remember PROVE Inv'
<1>1. UNCHANGED <<Outer, vault, live, pointer, auto, ing>> /\ op' = Idle
      /\ selfFP' = live /\ lastFP' \in {live, lastFP}
  BY DEF Remember, Step
<1>2. DaemonInv'
  BY <1>1 DEF Inv, StoreInv, DaemonInv
<1>3. QED
  BY <1>1, <1>2, IdleEffect, StoreKept, PointerKept, ProviderKept DEF Inv, Outer, Provider

(* The outside *)

LEMMA ClientStep == ASSUME Inv, ClientStart \/ ClientExit PROVE Inv'
<1>1. UNCHANGED <<world, vault, pointer, auto, Daemon, op, Provider, live, old, faults>>
      /\ client' \in BOOLEAN
  BY DEF ClientStart, ClientExit, Outside
<1>2. ProviderInv'
  BY <1>1 DEF Inv, ProviderInv, Numbered, Provider
<1>3. QED BY <1>1, <1>2, StoreKept, PointerKept, DaemonKept, OpKept DEF Inv, Provider

(* Others write a pair that is new, or none; the operation goes on as it was,
   and the pair it renewed stays good. *)
LEMMA IssueOutside ==
  ASSUME Inv, NEW a \in Accounts, NEW spent, Issue(a, spent), Outside, client' = client,
         faults' \in 0..MaxFaults, live' = Fresh(a), old' \in {old, Fresh(a)},
         op.pc \in {"store", "writeback"} => spent # op.tok
  PROVE  Inv'
<1>1. UNCHANGED <<world, vault, pointer, auto, Daemon, op>>
  BY DEF Outside
<1>2. StoreInv' /\ ProviderInv'
  BY <1>1, IssueStep
<1>3. \A t : Numbered(t) => Numbered(t)' /\ t # Fresh(a)
  BY IssueEffect DEF Inv
<1>4. OpType' /\ op.tok # Fresh(a)
  BY <1>1, <1>3 DEF Inv, OpInv, OpType
<1>5. Renewed'
  BY <1>1, <1>4, IssueEffect DEF Inv, OpInv, Renewed
<1>6. OpInv'
  BY <1>1, <1>4, <1>5 DEF Inv, OpInv, Working, Goals, Switching
<1>7. QED BY <1>1, <1>2, <1>6, PointerKept, DaemonKept DEF Inv

LEMMA ClientRenewsStep == ASSUME Inv, ClientRenews PROVE Inv'
<1>1. live \in valid /\ Issue(live.acct, live) /\ live' = Fresh(live.acct) /\ Outside
      /\ UNCHANGED <<client, old, faults>>
  BY DEF ClientRenews
<1>2. live.acct \in Accounts
  BY <1>1, Constants DEF Inv, ProviderInv, StoreInv
<1>3. op.pc \in {"store", "writeback"} => live # op.tok
  BY DEF Inv, OpInv, Renewed
<1>4. QED BY <1>1, <1>2, <1>3, IssueOutside DEF Inv, ProviderInv

LEMMA LoginStep == ASSUME Inv, NEW a \in Accounts, Login(a) PROVE Inv'
<1>1. Issue(a, NoToken) /\ live' = Fresh(a) /\ Outside /\ UNCHANGED <<client, old>>
      /\ faults' \in 0..MaxFaults
  BY LiveAssumption DEF Login, Spend, Inv, ProviderInv
<1>2. op.pc \in {"store", "writeback"} => op.tok # NoToken
  BY DEF Inv, OpInv, Working, Renewing, Known
<1>3. QED BY <1>1, <1>2, IssueOutside

LEMMA OldRenewsStep == ASSUME Inv, OldRenews PROVE Inv'
<1>1. old \in valid /\ Issue(old.acct, old) /\ old' = Fresh(old.acct) /\ live' = old' /\ Outside
      /\ UNCHANGED <<client, faults>>
  BY DEF OldRenews
<1>2. old.acct \in Accounts
  BY <1>1, Constants DEF Inv, ProviderInv, StoreInv
<1>3. op.pc \in {"store", "writeback"} => old # op.tok
  BY DEF Inv, OpInv, Renewed
<1>4. QED BY <1>1, <1>2, <1>3, IssueOutside DEF Inv, ProviderInv

LEMMA FileWrittenStep == ASSUME Inv, Logout \/ OldWrites PROVE Inv'
<1>1. live' \in {NoToken, old} /\ Outside /\ UNCHANGED <<Provider, client, old>>
      /\ faults' \in 0..MaxFaults
  BY LiveAssumption DEF Logout, OldWrites, Spend, Inv, ProviderInv
<1>2. UNCHANGED <<world, vault, pointer, auto, Daemon, op>>
  BY <1>1 DEF Outside
<1>3. StoreInv'
  BY <1>1, <1>2, Constants, NumberedKept DEF Inv, StoreInv, Provider
<1>4. ProviderInv'
  BY <1>1, <1>2 DEF Inv, ProviderInv, Numbered, Provider
<1>5. Renewed'
  BY <1>1, <1>2 DEF Inv, OpInv, Renewed, Working, Renewing, Known, Provider
<1>6. OpType'
  BY <1>1, <1>2, NumberedKept DEF Inv, OpInv, OpType, Provider
<1>7. OpInv'
  BY <1>2, <1>5, <1>6 DEF Inv, OpInv, Working, Goals, Switching
<1>8. QED BY <1>2, <1>3, <1>4, <1>7, PointerKept, DaemonKept DEF Inv

LEMMA WindowEndsStep == ASSUME Inv, WindowEnds PROVE Inv'
<1>1. UNCHANGED <<Outer, vault, live, auto, Daemon, op>>
      /\ pointer' = [pointer EXCEPT !.window = FALSE]
  BY DEF WindowEnds
<1>2. PointerInv'
  BY <1>1 DEF Inv, PointerInv, Pointer
<1>3. QED BY <1>1, <1>2, StoreKept, DaemonKept, ProviderKept, OpKept DEF Inv, Outer, Provider

LEMMA DiesStep == ASSUME Inv, Dies PROVE Inv'
<1>1. faults' \in 0..MaxFaults /\ UNCHANGED <<world, Provider, client, old, vault, live, pointer, auto, selfFP>>
      /\ op' = Idle /\ ing' = Quiet /\ lastFP' = NoToken
  BY LiveAssumption DEF Dies, Spend, Inv, ProviderInv
<1>2. ProviderInv'
  BY <1>1 DEF Inv, ProviderInv, Numbered, Provider
<1>3. DaemonInv'
  BY <1>1, Constants DEF Inv, DaemonInv, Ingest, Quiet
<1>4. QED BY <1>1, <1>2, <1>3, IdleEffect, StoreKept, PointerKept DEF Inv, Provider

LEMMA NextInv == ASSUME Inv, [Next]_vars PROVE Inv'
<1>1. CASE UNCHANGED vars
  BY <1>1, StoreKept, PointerKept, DaemonKept, ProviderKept, OpKept DEF Inv, vars, Daemon, Provider
<1>2. CASE Apply
  BY <1>2, CaptureReadStep, NotVerifiedStep, SaveStep, RestoreStep, AppliedStep, PointedStep,
     JudgeKeepsStep, JudgeRevertStep, RevertStep, RevertedStep DEF Apply
<1>3. CASE Renew
  BY <1>3, KeepLeavesStep, KeepKimiStep, MeStep, RereadStep, KeepGrokStep, KeepCodexStep,
     AuthLockStep, ExchangeStep, StoreStep, WritebackStep, RememberStep DEF Renew
<1>4. CASE IngestLook \/ IngestLock \/ Verified \/ StartCapture \/ StartParked \/ WritebackFails
  BY <1>4, IngestLookStep, IngestLockStep, VerifiedStep, StartCaptureStep, StartParkedStep,
     WritebackFailsStep
<1>5. CASE \E a \in Accounts : StartSwitch(a) \/ StartKeepAlive(a) \/ Forget(a) \/ Login(a)
  BY <1>5, StartSwitchStep, StartKeepAliveStep, ForgetStep, LoginStep
<1>6. CASE ClientStart \/ ClientExit \/ ClientRenews \/ Logout \/ OldRenews \/ OldWrites
           \/ WindowEnds \/ Dies
  BY <1>6, ClientStep, ClientRenewsStep, FileWrittenStep, OldRenewsStep, WindowEndsStep, DiesStep
<1>7. QED BY <1>1, <1>2, <1>3, <1>4, <1>5, <1>6 DEF Next

(* Every variable keeps its type, for any accounts, pairs, events and faults. *)
THEOREM LiveTypes == Spec => []TypeOK
<1>1. Spec => []Inv
  BY InitInv, NextInv, PTL DEF Spec
<1>2. QED BY <1>1, InvTypes, PTL

-----------------------------------------------------------------------------
(* What holds while no operation is cut off and no process writes a pair
   again: the file holds a good pair whenever the vault does, except between
   an exchange under the client's lock and the write that follows it.  What was
   captured is still in the file, or the file was renewed since; so is what a
   renewal read; and a parked account is not the live one, unless somebody has
   signed in meanwhile. *)
Good == live = NoToken \/ live \in valid
Newest(a) == live.acct = a /\ vault[a] \in valid => live \in valid
Captured == op.pc \in {"verify", "save"} => live = op.tok \/ Good
Parked ==
  op.pc \in {"exchange", "store"} /\ ~op.lock /\ live.acct = op.id
    => live \in valid /\ live # op.tok
Locked ==
  op.pc \in {"exchange", "store", "writeback"} /\ op.lock
    => /\ live = op.seen \/ Good
       /\ op.seen.acct = op.id
       /\ op.pc = "exchange" => op.tok = op.seen
Between == op.pc \in {"store", "writeback"} /\ op.lock
Settled == Between \/ \A a \in Accounts : Newest(a)
Agree == Captured /\ Parked /\ Locked /\ Settled

LEMMA InitAgree == Init => Agree
<1> SUFFICES ASSUME Init PROVE Agree
  OBVIOUS
<1>1. op.pc = "idle"
  BY DEF Init, Idle
<1>2. live \in valid
  <2>1. (CHOOSE a \in Accounts : TRUE) \in Accounts
    BY LiveAssumption
  <2>2. \A a \in Accounts : First(a) \in valid
    BY DEF Init
  <2>3. QED BY <2>1, <2>2 DEF Init
<1>3. QED BY <1>1, <1>2 DEF Agree, Captured, Parked, Locked, Settled, Newest

(* A step that leaves the vault, the file and the provider alone. *)
LEMMA AgreeKept ==
  ASSUME Agree, UNCHANGED <<vault, live, valid>>,
         \/ op' = op
         \/ ~Between /\ op'.pc \notin {"verify", "save", "exchange", "store", "writeback"}
  PROVE  Agree'
BY DEF Agree, Captured, Parked, Locked, Settled, Between, Newest, Good

(* Somebody else writes a new pair, or removes the file. *)
LEMMA AgreeIssued ==
  ASSUME Inv, Agree, NEW a \in Accounts, NEW spent, Issue(a, spent), live' = Fresh(a), Outside
  PROVE  Agree'
<1>1. op' = op /\ vault' = vault
  BY DEF Outside
<1>2. live' \in valid' /\ op.tok # Fresh(a)
  BY IssueEffect DEF Inv, OpInv, OpType
<1>3. QED
  BY <1>1, <1>2 DEF Agree, Captured, Parked, Locked, Settled, Newest, Good

LEMMA AgreeLogout ==
  ASSUME Inv, Agree, live' = NoToken, op' = op
  PROVE  Agree'
<1>1. \A a \in Accounts : live'.acct # a
  BY LiveAssumption DEF NoToken
<1>2. op.pc \in {"exchange", "store"} => op.id \in Accounts
  BY Constants DEF Inv, OpInv, OpType, Operation, Working, Renewing
<1>3. QED
  BY <1>1, <1>2 DEF Agree, Captured, Parked, Locked, Settled, Newest, Good

LEMMA CaptureReadAgree == ASSUME Inv, Agree, CaptureRead PROVE Agree'
<1>1. UNCHANGED <<vault, live, valid>> /\ op.pc = "capture"
  BY DEF CaptureRead, Step, Outer, Provider
<1>2. CASE Known(live)
  <2>1. op' = [op EXCEPT !.tok = live, !.pc = IF tool = "kimi" THEN "verify" ELSE "save"]
    BY <1>2 DEF CaptureRead
  <2>2. op'.pc \in {"verify", "save"} /\ op'.tok = live
    BY <2>1 DEF Inv, OpInv, OpType, Operation
  <2>3. QED
    BY <1>1, <2>2 DEF Agree, Captured, Parked, Locked, Settled, Between, Newest, Good
<1>3. CASE ~Known(live)
  <2>1. op'.pc \in {"restore", "idle"}
    BY <1>3, GotoEffect DEF CaptureRead, Return, Idle, Inv, OpInv, Pcs
  <2>2. QED BY <1>1, <2>1, AgreeKept DEF Between
<1>4. QED BY <1>2, <1>3

LEMMA VerifiedAgree == ASSUME Inv, Agree, Verified PROVE Agree'
<1>1. UNCHANGED <<vault, live, valid>> /\ op.pc = "verify" /\ Goto("save")
  BY DEF Verified, Step, Outer, Provider
<1>2. op'.pc = "save" /\ op'.tok = op.tok
  BY <1>1, GotoEffect DEF Inv, OpInv, Pcs
<1>3. QED
  BY <1>1, <1>2 DEF Agree, Captured, Parked, Locked, Settled, Between, Newest, Good

(* What is saved is what the file holds, or the file has a good pair. *)
LEMMA SaveAgree == ASSUME Inv, Agree, Save PROVE Agree'
<1>1. UNCHANGED <<live, valid>> /\ op.pc = "save" /\ vault' = [vault EXCEPT ![op.tok.acct] = op.tok]
  BY DEF Save, Step, Outer, Provider, SavedAs
<1>2. op'.pc \in {"idle", "restore", "judge"}
  <2>1. CASE op.kind = "capture"
    BY <2>1 DEF Save, Return, Idle
  <2>2. CASE op.kind = "switch"
    BY <2>2 DEF Save, Inv, OpInv, OpType, Operation
  <2>3. CASE op.kind \notin {"capture", "switch"}
    BY <2>3, GotoEffect DEF Save, Inv, OpInv, Pcs
  <2>4. QED BY <2>1, <2>2, <2>3
<1>3. live.acct = op.tok.acct /\ op.tok \in valid => live \in valid
  BY <1>1, Constants
    DEF Agree, Captured, Good, Newest, Inv, StoreInv, OpInv, OpType, Operation, Working, Renewing
<1>4. \A a \in Accounts : Newest(a)'
  <2>1. \A a \in Accounts : vault'[a] = IF a = op.tok.acct THEN op.tok ELSE vault[a]
    BY <1>1 DEF Inv, StoreInv
  <2>2. QED BY <1>1, <1>3, <2>1 DEF Agree, Settled, Between, Newest
<1>5. QED
  BY <1>2, <1>4 DEF Agree, Captured, Parked, Locked, Settled

(* A switch or a revert puts the pair of the vault into the file. *)
LEMMA FileSwitchedAgree == ASSUME Inv, Agree, Restore \/ Revert PROVE Agree'
<1>1. UNCHANGED <<vault, valid>> /\ op.pc \in {"restore", "revert"} /\ live' \in {live, op.goal}
      /\ (Goto("applied") \/ Goto("reverted"))
  BY DEF Restore, Revert, Step, Outer, Provider, Merged
<1>2. op'.pc \in {"applied", "reverted"}
  BY <1>1, GotoEffect DEF Inv, OpInv, Pcs
<1>3. op.goal = vault[op.goal.acct]
  BY <1>1 DEF Inv, OpInv, Goals
<1>4. \A a \in Accounts : Newest(a)'
  BY <1>1, <1>3 DEF Agree, Settled, Between, Newest
<1>5. QED
  BY <1>2, <1>4 DEF Agree, Captured, Parked, Locked, Settled

LEMMA ParkedAgree ==
  ASSUME Agree, UNCHANGED <<vault, live, valid>>, ~Between, live.acct # op'.id,
         op'.pc = "exchange", ~op'.lock
  PROVE  Agree'
BY DEF Agree, Captured, Parked, Locked, Settled, Between, Newest, Good

LEMMA RereadAgree == ASSUME Inv, Agree, Reread PROVE Agree'
<1>1. UNCHANGED <<vault, live, valid>> /\ op.pc = "reread" /\ ~op.lock /\ op.seen.acct # op.id
  BY DEF Reread, Step, Outer, Provider, KeepUnchanged, Inv, OpInv, Working
<1>2. CASE live = op.seen
  <2>1. op'.pc = "exchange" /\ op'.id = op.id /\ op'.lock = op.lock
    BY <1>2, GotoEffect DEF Reread, Inv, OpInv, Pcs
  <2>2. QED BY <1>1, <1>2, <2>1, ParkedAgree DEF Between
<1>3. CASE live # op.seen
  BY <1>1, <1>3, AgreeKept DEF Reread, Return, Idle, Between
<1>4. QED BY <1>2, <1>3

LEMMA KeepGrokAgree == ASSUME Inv, Agree, KeepGrok PROVE Agree'
<1>1. UNCHANGED <<vault, live, valid>> /\ op.pc = "keep" /\ ~op.lock
  BY DEF KeepGrok, Step, Outer, Provider, KeepUnchanged, Inv, OpInv, Working
<1>2. op'.id = op.id /\ op'.lock = op.lock
      /\ op'.pc = IF live.acct = op.id THEN "auth" ELSE "exchange"
  BY DEF KeepGrok, Inv, OpInv, OpType, Operation
<1>3. CASE live.acct = op.id
  BY <1>1, <1>2, <1>3, AgreeKept DEF Between
<1>4. CASE live.acct # op.id
  BY <1>1, <1>2, <1>4, ParkedAgree DEF Between
<1>5. QED BY <1>3, <1>4

LEMMA KeepCodexAgree == ASSUME Inv, Agree, KeepCodex PROVE Agree'
<1>1. UNCHANGED <<vault, live, valid>> /\ op.pc = "keep" /\ ~op.lock
  BY DEF KeepCodex, Step, Outer, Provider, KeepUnchanged, Inv, OpInv, Working
<1>2. CASE live.acct = op.id
  BY <1>1, <1>2, AgreeKept DEF KeepCodex, Return, Idle, Between
<1>3. CASE live.acct # op.id
  <2>1. op'.pc = "exchange" /\ op'.id = op.id /\ op'.lock = op.lock
    BY <1>3, GotoEffect DEF KeepCodex, Inv, OpInv, Pcs
  <2>2. QED BY <1>1, <1>3, <2>1, ParkedAgree DEF Between
<1>4. QED BY <1>2, <1>3

LEMMA AuthLockAgree == ASSUME Inv, Agree, AuthLock PROVE Agree'
<1>1. UNCHANGED <<vault, live, valid>> /\ op.pc = "auth"
      /\ op' = [op EXCEPT !.pc = "exchange", !.tok = live, !.seen = live, !.lock = TRUE]
  BY DEF AuthLock, Step, Outer, Provider, KeepUnchanged
<1>2. op'.pc = "exchange" /\ op'.tok = live /\ op'.seen = live /\ op'.lock /\ op'.id = op.id
  BY <1>1 DEF Inv, OpInv, OpType, Operation
<1>3. live.acct = op.id
  <2>1. op.seen.acct = op.id /\ (live = op.seen \/ live.acct = op.id)
    BY <1>1 DEF AuthLock, Inv, OpInv, Working
  <2>2. QED BY <2>1
<1>4. QED
  BY <1>1, <1>2, <1>3 DEF Agree, Captured, Parked, Locked, Settled, Between, Newest, Good

(* The pair that is spent is the one the file holds, under the lock, or one
   the file does not hold. *)
LEMMA ExchangeAgree == ASSUME Inv, Agree, Exchange PROVE Agree'
<1>1. op.pc = "exchange" /\ UNCHANGED <<vault, live>> /\ Known(op.tok) /\ op.id = op.tok.acct
      /\ op.id \in Accounts
  BY Constants
    DEF Exchange, KeepUnchanged, Inv, OpInv, OpType, Operation, Working, Renewing
<1>2. CASE Return /\ UNCHANGED Provider
  BY <1>1, <1>2, AgreeKept DEF Return, Idle, Between, Provider
<1>3. CASE /\ op.tok \in valid /\ Issue(op.tok.acct, op.tok)
           /\ op' = [op EXCEPT !.pc = "store", !.tok = Fresh(op.tok.acct)]
  <2>1. op'.pc = "store" /\ op'.tok = Fresh(op.id) /\ op'.id = op.id /\ op'.lock = op.lock
        /\ op'.seen = op.seen
    BY <1>1, <1>3 DEF Inv, OpInv, OpType, Operation
  <2>2. /\ live # Fresh(op.id) /\ \A a \in Accounts : vault[a] # Fresh(op.id)
        /\ \A t \in valid : t # op.tok => t \in valid'
        /\ \A t \in valid' : t # Fresh(op.id) => t \in valid /\ t # op.tok
    BY <1>1, <1>3, IssueEffect DEF Inv, StoreInv
  <2>3. CASE op.lock
    <3>1. Locked'
      BY <1>1, <2>1, <2>2, <2>3 DEF Agree, Locked, Good
    <3>2. QED BY <2>1, <2>3, <3>1 DEF Agree, Captured, Parked, Settled, Between
  <2>4. CASE ~op.lock
    <3>1. live.acct = op.id => live \in valid' /\ live # op.tok
      BY <1>1, <2>2, <2>4 DEF Agree, Parked
    <3>2. ASSUME NEW a \in Accounts PROVE Newest(a)'
      <4>1. live.acct = a /\ vault[a] \in valid' => live \in valid /\ live # op.tok
        <5>1. CASE a = op.id
          BY <1>1, <2>4, <5>1 DEF Agree, Parked
        <5>2. CASE a # op.id
          BY <1>1, <2>2, <5>2 DEF Agree, Settled, Between, Newest
        <5>3. QED BY <5>1, <5>2
      <4>2. QED BY <1>1, <2>2, <4>1 DEF Newest
    <3>3. QED
      BY <1>1, <2>1, <2>2, <2>4, <3>1, <3>2 DEF Agree, Captured, Parked, Locked, Settled
  <2>5. QED BY <2>3, <2>4
<1>4. QED BY <1>2, <1>3 DEF Exchange

LEMMA StoreAgree == ASSUME Inv, Agree, Store PROVE Agree'
<1>1. UNCHANGED <<live, valid>> /\ op.pc = "store" /\ vault' = [vault EXCEPT ![op.id] = op.tok]
      /\ op.id = op.tok.acct
  BY DEF Store, Step, Outer, Provider, Inv, OpInv, Working, Renewing
<1>2. CASE op.lock
  <2>1. op'.pc = "writeback" /\ op'.tok = op.tok /\ op'.lock = op.lock /\ op'.seen = op.seen
        /\ op'.id = op.id
    BY <1>2, GotoEffect DEF Store, Inv, OpInv, Pcs
  <2>2. QED
    BY <1>1, <1>2, <2>1 DEF Agree, Captured, Parked, Locked, Settled, Between, Good
<1>3. CASE ~op.lock
  <2>1. op'.pc = "idle"
    BY <1>3 DEF Store, Return, Idle
  <2>2. \A a \in Accounts : Newest(a)'
    BY <1>1, <1>3 DEF Agree, Parked, Settled, Between, Newest, Inv, StoreInv
  <2>3. QED
    BY <2>1, <2>2 DEF Agree, Captured, Parked, Locked, Settled
<1>4. QED BY <1>2, <1>3

LEMMA WritebackAgree == ASSUME Inv, Agree, Writeback PROVE Agree'
<1>1. UNCHANGED <<vault, valid>> /\ op.pc = "writeback" /\ op.lock
  BY DEF Writeback, Step, Outer, Provider, Inv, OpInv, Working
<1>2. Good' /\ op'.pc \in {"remember", "idle"}
  <2>1. CASE live = op.seen
    BY <1>1, <2>1, GotoEffect DEF Writeback, Inv, OpInv, Renewed, Good, Pcs
  <2>2. CASE live # op.seen
    BY <1>1, <2>2 DEF Writeback, Return, Idle, Agree, Locked, Good
  <2>3. QED BY <2>1, <2>2
<1>3. \A a \in Accounts : Newest(a)'
  BY <1>2, LiveAssumption DEF Good, Newest, NoToken
<1>4. QED
  BY <1>2, <1>3 DEF Agree, Captured, Parked, Locked, Settled

LEMMA ForgetAgree == ASSUME Inv, Agree, NEW a \in Accounts, Forget(a) PROVE Agree'
<1>1. UNCHANGED <<live, valid, op>> /\ op.pc = "idle" /\ vault' = [vault EXCEPT ![a] = NoToken]
  BY DEF Forget, Outer, Provider
<1>2. NoToken \notin valid
  BY Constants DEF Inv, ProviderInv
<1>3. \A b \in Accounts : Newest(b)'
  BY <1>1, <1>2 DEF Agree, Settled, Between, Newest, Inv, StoreInv
<1>4. QED
  BY <1>1, <1>3 DEF Agree, Captured, Parked, Locked, Settled

(* The steps that change neither the vault nor the file. *)
Looks ==
  \/ NotVerified \/ Applied \/ Pointed \/ JudgeSame \/ JudgeRevert \/ Reverted \/ JudgeDisable
  \/ JudgeAdopt \/ KeepLeaves \/ KeepKimi \/ Me \/ Remember \/ IngestLook \/ IngestLock
  \/ StartCapture \/ StartParked \/ ClientStart \/ ClientExit \/ WindowEnds
  \/ \E a \in Accounts : StartSwitch(a) \/ StartKeepAlive(a)

LEMMA LooksEffect ==
  ASSUME Inv, Looks
  PROVE  /\ UNCHANGED <<vault, live, valid>>
         /\ \/ op' = op
            \/ op.pc \notin {"store", "writeback"}
               /\ op'.pc \notin {"verify", "save", "exchange", "store", "writeback"}
<1>1. CASE NotVerified \/ JudgeSame \/ JudgeDisable \/ JudgeAdopt \/ Reverted \/ Pointed
           \/ KeepLeaves \/ Remember
  BY <1>1
    DEF NotVerified, JudgeSame, JudgeDisable, JudgeAdopt, Reverted, Pointed, KeepLeaves, Remember,
        Step, Outer, Provider, Return, Seen, Idle, KeepUnchanged
<1>2. CASE Applied \/ Me
  BY <1>2, GotoEffect DEF Applied, Me, Step, Outer, Provider, KeepUnchanged, Inv, OpInv, Pcs
<1>3. CASE JudgeRevert
  <2>1. op'.pc \in {"revert", "idle"}
    <3>1. CASE Known(vault[pointer.to])
      BY <1>3, <3>1 DEF JudgeRevert, Inv, OpInv, OpType, Operation
    <3>2. CASE ~Known(vault[pointer.to])
      BY <1>3, <3>2 DEF JudgeRevert, Return, Idle
    <3>3. QED BY <3>1, <3>2
  <2>2. QED BY <1>3, <2>1 DEF JudgeRevert, Step, Outer, Provider
<1>4. CASE KeepKimi
  <2>1. op'.pc \in {"auth", "me", "reread"}
    <3>1. op'.pc = CASE live = op.tok -> "auth" [] Known(live) /\ live # op.tok -> "me"
                     [] OTHER -> "reread"
      BY <1>4 DEF KeepKimi, Inv, OpInv, OpType, Operation
    <3>2. QED BY <3>1
  <2>2. QED BY <1>4, <2>1 DEF KeepKimi, Step, Outer, Provider, KeepUnchanged
<1>5. CASE IngestLook \/ ClientStart \/ ClientExit \/ WindowEnds
  BY <1>5 DEF IngestLook, ClientStart, ClientExit, WindowEnds, Outside, Outer, Provider
<1>6. CASE IngestLock \/ StartCapture
  BY <1>6 DEF IngestLock, StartCapture, Idle, Step, Outer, Provider
<1>7. CASE StartParked
  BY <1>7 DEF StartParked, Idle, Step, Outer, Provider
<1>8. ASSUME NEW a \in Accounts, StartSwitch(a) \/ StartKeepAlive(a)
      PROVE  /\ UNCHANGED <<vault, live, valid>>
             /\ op.pc = "idle" /\ op'.pc \in {"capture", "keep"}
  BY <1>8 DEF StartSwitch, StartKeepAlive, Idle, Step, Outer, Provider
<1>9. QED BY <1>1, <1>2, <1>3, <1>4, <1>5, <1>6, <1>7, <1>8 DEF Looks

Steps ==
  \/ CaptureRead \/ Verified \/ Save \/ Restore \/ Revert \/ Reread \/ KeepGrok \/ KeepCodex
  \/ AuthLock \/ Exchange \/ Store \/ Writeback
  \/ \E a \in Accounts : Forget(a)
Others == ClientRenews \/ Logout \/ OldRenews \/ \E a \in Accounts : Login(a)

LEMMA NextCases == Next => Looks \/ Steps \/ Others \/ WritebackFails \/ Dies \/ OldWrites
BY DEF Next, Apply, Renew, Looks, Steps, Others

LEMMA NextAgree ==
  ASSUME Inv, Steady => Agree, [Next]_vars
  PROVE  (Steady => Agree)'
<1>1. SUFFICES ASSUME Steady' PROVE Agree'
  OBVIOUS
<1>2. CASE UNCHANGED vars
  BY <1>1, <1>2, AgreeKept DEF vars, Provider, Steady
<1>3. CASE Next
  <2>1. world' = world
    BY <1>3
      DEF Next, Apply, Renew, IngestLook, IngestLock, Verified, CaptureRead, NotVerified, Save,
          Restore, Applied, Pointed, JudgeSame, JudgeRevert, Revert, Reverted, JudgeDisable,
          JudgeAdopt, KeepLeaves, KeepKimi, Me, Reread, KeepGrok, KeepCodex, AuthLock, Exchange,
          Store, Writeback, Remember, WritebackFails, StartCapture, StartParked, StartSwitch,
          StartKeepAlive, Forget, Login, ClientStart, ClientExit, ClientRenews, Logout,
          OldRenews, OldWrites, WindowEnds, Dies, Step, Outer, Outside
  <2>2. Steady /\ Agree
    BY <1>1, <2>1 DEF Steady
  <2>3. CASE Looks
    BY <2>2, <2>3, LooksEffect, AgreeKept DEF Between
  <2>4. CASE Steps
    BY <2>2, <2>4, CaptureReadAgree, VerifiedAgree, SaveAgree, FileSwitchedAgree, RereadAgree,
       KeepGrokAgree, KeepCodexAgree, AuthLockAgree, ExchangeAgree, StoreAgree, WritebackAgree,
       ForgetAgree DEF Steps
  <2>5. CASE Others
    <3>1. CASE ClientRenews
      <4>1. live.acct \in Accounts
        BY <3>1, Constants DEF ClientRenews, Inv, ProviderInv, StoreInv
      <4>2. QED BY <2>2, <3>1, <4>1, AgreeIssued DEF ClientRenews
    <3>2. CASE OldRenews
      <4>1. old.acct \in Accounts
        BY <3>2, Constants DEF OldRenews, Inv, ProviderInv, StoreInv
      <4>2. QED BY <2>2, <3>2, <4>1, AgreeIssued DEF OldRenews
    <3>3. CASE \E a \in Accounts : Login(a)
      BY <2>2, <3>3, AgreeIssued DEF Login
    <3>4. CASE Logout
      BY <2>2, <3>4, AgreeLogout DEF Logout, Outside
    <3>5. QED BY <2>5, <3>1, <3>2, <3>3, <3>4 DEF Others
  <2>6. ~(WritebackFails \/ Dies \/ OldWrites)
    BY <2>2 DEF Steady, WritebackFails, Dies, OldWrites, Spend
  <2>7. QED BY <1>3, <2>3, <2>4, <2>5, <2>6, NextCases
<1>4. QED BY <1>2, <1>3

-----------------------------------------------------------------------------
(* The action properties *)

(* A step of an operation that changes the vault or the file is one of five. *)
LEMMA Writers ==
  ASSUME Inv, Next, op' # op
  PROVE  UNCHANGED <<vault, live>> \/ Save \/ Restore \/ Revert \/ Store \/ Writeback
<1>1. CASE Looks
  BY <1>1, LooksEffect
<1>2. CASE CaptureRead \/ Verified \/ Reread \/ KeepGrok \/ KeepCodex \/ AuthLock \/ Exchange
           \/ WritebackFails \/ Dies
  BY <1>2
    DEF CaptureRead, Verified, Reread, KeepGrok, KeepCodex, AuthLock, Exchange, WritebackFails,
        Dies, Step, Outer, KeepUnchanged
<1>3. CASE Others \/ OldWrites \/ \E a \in Accounts : Forget(a)
  BY <1>3 DEF Others, OldWrites, ClientRenews, Logout, OldRenews, Login, Forget, Outside
<1>4. QED BY <1>1, <1>2, <1>3, NextCases DEF Steps

(* The pairs of an account are in its own slot of the vault, or in the file. *)
LEMMA HeldBy ==
  ASSUME StoreInv, NEW a \in Accounts
  PROVE  Held(a) <=> \E t \in {live, vault[a]} : t \in valid /\ t.acct = a
<1>1. ASSUME Held(a) PROVE \E t \in {live, vault[a]} : t \in valid /\ t.acct = a
  <2>1. PICK t \in valid : t \in Holds(vault, live) /\ t.acct = a
    BY <1>1 DEF Held
  <2>2. t = live \/ \E b \in Accounts : t = vault[b]
    BY <2>1 DEF Holds
  <2>3. \A b \in Accounts : vault[b].acct = a => b = a
    BY LiveAssumption DEF StoreInv
  <2>4. QED BY <2>1, <2>2, <2>3
<1>2. {live, vault[a]} \subseteq Holds(vault, live)
  BY DEF Holds
<1>3. QED BY <1>1, <1>2 DEF Held

(* The vault and the file hold a good pair of the account before the step, so
   one of them does after it. *)
LEMMA KeepsHeld ==
  ASSUME StoreInv, StoreInv', NEW a \in Accounts, Held(a),
         \/ live' = live /\ vault'[a] = vault[a] /\ valid' = valid
         \/ live'.acct = a /\ live' \in valid'
         \/ vault'[a].acct = a /\ vault'[a] \in valid'
  PROVE  Held(a)'
<1>1. \E t \in {live', vault'[a]} : t \in valid' /\ t.acct = a
  BY HeldBy
<1>2. {live', vault'[a]} \subseteq Holds(vault', live')
  BY DEF Holds
<1>3. QED BY <1>1, <1>2 DEF Held

LEMMA SpecInv == Spec => [](Inv /\ (Steady => Agree))
<1>1. Init => Inv /\ (Steady => Agree)
  BY InitInv, InitAgree
<1>2. Inv /\ (Steady => Agree) /\ [Next]_vars => (Inv /\ (Steady => Agree))'
  BY NextInv, NextAgree
<1>3. QED BY <1>1, <1>2, PTL DEF Spec

(* A switch, a revert or a renewal never leaves a spent pair in the official
   login file while a good one of the account is stored, whatever is cut off
   or written by others: what is written is the vault's pair, or a new one. *)
THEOREM FileNeverOlder == Spec => LiveNewest
<1>1. ASSUME Inv, Inv', Next, op' # op, live' # live
      PROVE  live' \in valid' \/ \A a \in Accounts : live'.acct = a => ~Held(a)'
  <2>1. Restore \/ Revert \/ Writeback
    BY <1>1, Writers DEF Save, Store, Step
  <2>2. CASE Restore \/ Revert
    <3>1. live' = op.goal /\ vault' = vault /\ op.pc \in {"restore", "revert"}
      BY <1>1, <2>2 DEF Restore, Revert, Step, Merged
    <3>2. live' = vault'[live'.acct]
      BY <1>1, <3>1 DEF Inv, OpInv, Goals
    <3>3. ASSUME NEW a \in Accounts, live'.acct = a, Held(a)' PROVE live' \in valid'
      <4>1. (\E t \in {live, vault[a]} : t \in valid /\ t.acct = a)'
        BY <1>1, <3>3, HeldBy, PTL DEF Inv
      <4>2. QED BY <3>2, <3>3, <4>1
    <3>4. QED BY <3>3
  <2>3. CASE Writeback
    BY <1>1, <2>3 DEF Writeback, Return, Step, Outer, Provider, Inv, OpInv, Renewed
  <2>4. QED BY <2>1, <2>2, <2>3
<1>2. Inv /\ Inv' /\ [Next]_vars
      => [op' # op /\ live' # live
          => live' \in valid' \/ \A a \in Accounts : live'.acct = a => ~Held(a)']_vars
  BY <1>1
<1>3. QED BY <1>2, SpecInv, PTL DEF Spec, LiveNewest

(* Where a renewal goes on to spend a pair. *)
LEMMA Spenders ==
  ASSUME Inv, Next, op'.pc = "exchange", op.pc # "exchange"
  PROVE  Reread \/ KeepGrok \/ KeepCodex \/ AuthLock
<1>1. ~Looks
  BY LooksEffect
<1>2. ~(CaptureRead \/ Verified \/ Restore \/ Revert)
  <2>1. CASE CaptureRead
    <3>1. CASE Known(live)
      BY <2>1, <3>1 DEF CaptureRead, Inv, OpInv, OpType, Operation
    <3>2. CASE ~Known(live)
      BY <2>1, <3>2, GotoEffect DEF CaptureRead, Return, Idle, Inv, OpInv, Pcs
    <3>3. QED BY <3>1, <3>2
  <2>2. CASE Verified \/ Restore \/ Revert
    BY <2>2, GotoEffect DEF Verified, Restore, Revert, Inv, OpInv, Pcs
  <2>3. QED BY <2>1, <2>2
<1>3. ~Save
  <2>1. CASE op.kind = "capture"
    BY <2>1 DEF Save, Return, Idle
  <2>2. CASE op.kind = "switch"
    BY <2>2 DEF Save, Inv, OpInv, OpType, Operation
  <2>3. CASE op.kind \notin {"capture", "switch"}
    BY <2>3, GotoEffect DEF Save, Inv, OpInv, Pcs
  <2>4. QED BY <2>1, <2>2, <2>3
<1>4. ~(Store \/ Writeback)
  BY GotoEffect DEF Store, Writeback, Return, Idle, Inv, OpInv, Pcs
<1>5. ~(Exchange \/ WritebackFails \/ Dies)
  BY DEF Exchange, WritebackFails, Dies, Return, Idle
<1>6. ~(Others \/ OldWrites \/ \E a \in Accounts : Forget(a))
  BY DEF Others, OldWrites, ClientRenews, Logout, OldRenews, Login, Forget, Outside
<1>7. QED BY <1>1, <1>2, <1>3, <1>4, <1>5, <1>6, NextCases DEF Steps

(* Whoever decides to spend a pair spends the file's, if the file holds the
   account, and the vault's otherwise; by Newest the other one is no better.
   So qswitch decides to spend a refresh token only if the provider accepts it,
   or nobody has a better one of the account. *)
THEOREM SpendsTheNewest == Spec => NoDoubleSpend
<1>1. ASSUME Inv, Agree, Next, op'.pc = "exchange", op.pc # "exchange"
      PROVE  op'.tok \in valid \/ ~Held(op'.id)
  <2>1. op.id = op.tok.acct /\ op.id \in Accounts /\ op.tok = vault[op.id]
        /\ op.pc \in {"reread", "keep", "auth"} /\ op \in Operation
    BY <1>1, Spenders, Constants
      DEF Reread, KeepGrok, KeepCodex, AuthLock, Step, Inv, OpInv, OpType, Operation, Working, Renewing
  <2>2. Newest(op.id)
    BY <1>1, <2>1 DEF Agree, Settled, Between
  <2>3. Held(op.id) => \E t \in {live, vault[op.id]} : t \in valid /\ t.acct = op.id
    BY <1>1, <2>1, HeldBy DEF Inv
  <2>4. CASE AuthLock
    <3>1. op'.tok = live /\ op'.id = op.id /\ live.acct = op.id
      <4>1. op'.tok = live /\ op'.id = op.id
        BY <2>1, <2>4 DEF AuthLock, Operation
      <4>2. op.pc = "auth" /\ (live = op.seen \/ live.acct = op.id)
        BY <2>4 DEF AuthLock, Step
      <4>3. QED BY <1>1, <4>1, <4>2 DEF Inv, OpInv, Working
    <3>2. QED BY <2>2, <2>3, <3>1 DEF Newest
  <2>5. CASE Reread \/ KeepGrok \/ KeepCodex
    <3>1. op'.tok = op.tok /\ op'.id = op.id
      <4>1. CASE KeepGrok
        BY <2>1, <4>1 DEF KeepGrok, Operation
      <4>2. CASE Reread \/ KeepCodex
        BY <1>1, <4>2, GotoEffect DEF Reread, KeepCodex, Return, Idle, Inv, OpInv, Pcs
      <4>3. QED BY <2>5, <4>1, <4>2
    <3>2. live.acct # op.id
      <4>1. CASE KeepGrok
        BY <1>1, <2>1, <4>1 DEF KeepGrok, Operation
      <4>2. CASE Reread
        BY <1>1, <4>2 DEF Reread, Step, Return, Idle, Inv, OpInv, Working
      <4>3. CASE KeepCodex
        BY <1>1, <4>3 DEF KeepCodex, Return, Idle
      <4>4. QED BY <2>5, <4>1, <4>2, <4>3
    <3>3. QED BY <2>1, <2>3, <3>1, <3>2
  <2>6. QED BY <1>1, <2>4, <2>5, Spenders
<1>2. Inv /\ (Steady => Agree) /\ [Next]_vars
      => [op'.pc = "exchange" /\ op.pc # "exchange" /\ Steady
          => op'.tok \in valid \/ ~Held(op'.id)]_vars
  BY <1>1
<1>3. QED BY <1>2, SpecInv, PTL DEF Spec, NoDoubleSpend

(* No step of qswitch drops the last good pair of an account. *)
THEOREM LastPairKept == Spec => NewestKept
<1>1. ASSUME Inv, Inv', Agree, Next, op' # op, valid' = valid,
             op.pc = "save" => live.acct = op.tok.acct,
             op.pc \in {"restore", "revert"} => live = op.tok,
             NEW a \in Accounts, Held(a)
      PROVE  Held(a)'
  <2>1. StoreInv /\ StoreInv' /\ \E t \in {live, vault[a]} : t \in valid /\ t.acct = a
    BY <1>1, HeldBy DEF Inv
  <2>2. CASE UNCHANGED <<vault, live>>
    BY <1>1, <2>1, <2>2, KeepsHeld
  <2>3. CASE Save
    <3>1. live' = live /\ vault' = [vault EXCEPT ![op.tok.acct] = op.tok] /\ op.pc = "save"
          /\ live.acct = op.tok.acct
      BY <1>1, <2>3 DEF Save, Step, SavedAs
    <3>2. CASE a = op.tok.acct
      <4>1. Newest(a) /\ (live = op.tok \/ Good) /\ live # NoToken
        BY <1>1, <3>1, <3>2, Constants DEF Agree, Captured, Settled, Between
      <4>2. live \in valid /\ live.acct = a
        BY <2>1, <3>1, <3>2, <4>1 DEF Newest, Good
      <4>3. QED BY <1>1, <2>1, <3>1, <4>2, KeepsHeld
    <3>3. CASE a # op.tok.acct
      BY <1>1, <2>1, <3>1, <3>3, KeepsHeld DEF StoreInv
    <3>4. QED BY <3>2, <3>3
  <2>4. CASE Restore \/ Revert
    <3>1. vault' = vault /\ op.pc \in {"restore", "revert"} /\ live = op.tok
      BY <1>1, <2>4 DEF Restore, Revert, Step
    <3>2. vault'[a].acct = a /\ vault'[a] \in valid'
      <4>1. Known(op.tok) => vault[op.tok.acct] = op.tok
        BY <1>1, <3>1 DEF Inv, OpInv, Goals
      <4>2. live.acct = a => Known(op.tok)
        BY <3>1, Constants DEF Known
      <4>3. QED BY <1>1, <2>1, <3>1, <4>1, <4>2
    <3>3. QED BY <1>1, <2>1, <3>2, KeepsHeld
  <2>5. CASE Store
    <3>1. live' = live /\ vault' = [vault EXCEPT ![op.id] = op.tok] /\ op.pc = "store"
          /\ op.id = op.tok.acct /\ op.tok \in valid
      BY <1>1, <2>5 DEF Store, Step, Inv, OpInv, Working, Renewing, Renewed
    <3>2. QED BY <1>1, <2>1, <3>1, KeepsHeld DEF StoreInv
  <2>6. CASE Writeback
    <3>1. vault' = vault /\ op.pc = "writeback" /\ op.tok \in valid
          /\ (live' = live \/ (live = op.seen /\ live' = op.tok))
          /\ op.seen.acct = op.tok.acct
      BY <1>1, <2>6
        DEF Writeback, Step, Inv, OpInv, Working, Renewing, Renewed, Agree, Locked
    <3>2. QED BY <1>1, <2>1, <3>1, KeepsHeld
  <2>7. QED BY <1>1, <2>2, <2>3, <2>4, <2>5, <2>6, Writers
<1>2. Inv /\ Inv' /\ (Steady => Agree) /\ [Next]_vars
      => [/\ op' # op /\ valid' = valid /\ Steady
          /\ op.pc = "save" => live.acct = op.tok.acct
          /\ op.pc \in {"restore", "revert"} => live = op.tok
          => \A a \in Accounts : Held(a) => Held(a)' ]_vars
  BY <1>1
<1>3. QED BY <1>2, SpecInv, PTL DEF Spec, NewestKept
=============================================================================
